------------------------------ MODULE MCA2ATask ------------------------------
EXTENDS A2ATask

MCSkills == [Tasks -> {"diagnosis", "answer"}]
=============================================================================
