-------------------------------- MODULE MCTraps --------------------------------
(***************************************************************************)
(* The trap code in all three exercises: in ex41 and ex62 with a user      *)
(* program, in ex42 with the two devices around and inside it.             *)
(***************************************************************************)
EXTENDS Interrupts

TrapsInit == Init /\ PU!Init

WithProgram(Step) == exercise # "ex42" /\ Step /\ UNCHANGED deviceVars
WithDevices(Step) == exercise = "ex42" /\ Step

TrapsNext ==
  \/ WithProgram(exec)
  \/ WithProgram(UserComputes \/ UserPushes \/ UserPops \/ UserEcall)
  \/ WithProgram(Handler)
  \/ WithDevices(SystemNext)

\* The fairness of TrapEntry in ex41 and ex62, that of Interrupts in ex42
Traps ==
  /\ TrapsInit /\ [][TrapsNext]_allVars
  /\ WF_allVars(WithProgram(Handler))
  /\ WF_allVars(WithDevices(Processor))
  /\ WF_allVars(WithDevices(PU!Gateway /\ UNCHANGED vars))
===============================================================================
