-------------------------- MODULE CommunicatorInit --------------------------
(* Communicator::Init at every rank: Bootstrap::Run, then InitTransports    *)
(* with the table it has learnt.  Some ranks are wiring up while others are *)
(* still waiting for the table; a rank whose Bootstrap fails never listens. *)
EXTENDS Wiring

CONSTANT MaxDeaths       \* how many processes may die in Bootstrap

VARIABLES stage, queue, socks, at, written, sent, table, deaths, fault

B == INSTANCE Bootstrap

bootVars == <<stage, queue, socks, at, written, sent, table, deaths, fault>>
allVars == <<bootVars, vars>>

InitBoth == B!Init /\ Init

(* Bootstrap::Run goes on.                                                  *)
RunGoes(r) == B!Goes(r) /\ UNCHANGED vars

(* Init returns false without InitTransports.                               *)
RunFails(r) == B!Fails(r) /\ NoTable(r)

WiresAtOnce(r) ==                        \* mutant: InitTransports beside Bootstrap
  /\ RankStep(r) \/ ListenFails(r)
  /\ UNCHANGED bootVars

(* InitTransports is called once Run has returned true.                     *)
Wires(r) ==
  /\ stage[r] = "true"
  /\ RankStep(r) \/ ListenFails(r)
  /\ UNCHANGED bootVars

NextBoth == \E r \in Ranks : RunGoes(r) \/ RunFails(r) \/ Wires(r)

(* Every thread runs when it can, and retries come to an end.               *)
DueStep(r) == \/ RunGoes(r)
              \/ B!MustFail(r) /\ NoTable(r)
              \/ stage[r] = "true" /\ RankStep(r) /\ UNCHANGED bootVars
SafeBoth == InitBoth /\ [][NextBoth]_allVars
SpecBoth == SafeBoth /\ \A r \in Ranks : WF_allVars(DueStep(r))
-----------------------------------------------------------------------------
(* What Bootstrap promises, in a group that is wiring up meanwhile.         *)
TablesRight == B!TablesRight
FailsForCause == B!FailsForCause
AcceptedReturn == B!AcceptedReturn
RefinesExchange == B!RefinesExchange

(* No rank connects to a data port before its owner has found it and told   *)
(* the master (communicator.cpp:67, 80).                                    *)
PortsKnown ==
  \A r \in Ranks : phase[r] # "start" /\ phase[r] # "false" =>
    \A q \in Neighbors(r) : table[r][q] = q /\ (q = 0 \/ q \in written)

(* Unless a listen, a connect or a process fails, Init returns true at      *)
(* every rank: ranks that tell their number only after their own accepts do *)
(* not wait for each other in a circle.                                     *)
Termination == [](~fault /\ ~trouble) => <>(\A r \in Ranks : phase[r] = "true")
=============================================================================
