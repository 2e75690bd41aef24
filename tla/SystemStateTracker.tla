------------------------- MODULE SystemStateTracker -------------------------
(***************************************************************************)
(* The SystemStateTracker that every participant (and the registry) keeps: *)
(* the last known state of each participant and, derived from the states   *)
(* of the required ones, the system state. A tracker is a record of two    *)
(* fields, and the operations map trackers to trackers.                    *)
(***************************************************************************)
EXTENDS Integers, Sequences

CONSTANTS
    Participant,    \* names of all participants of the simulation
    Required        \* names the WorkflowConfiguration declares as required

ASSUME RequiredAssumption == Required \subseteq Participant

ParticipantState ==
    {"Invalid", "ServicesCreated", "CommunicationInitializing",
     "CommunicationInitialized", "ReadyToRun", "Running", "Paused", "Stopping",
     "Stopped", "ShuttingDown", "Shutdown", "Aborting", "Error"}
SystemState == ParticipantState

\* "Unknown": no entry in _participantStatusCache.
Tracker == [status : [Participant -> ParticipantState \cup {"Unknown"}],
            system : SystemState]

EmptyTracker == [status |-> [q \in Participant |-> "Unknown"], system |-> "Invalid"]

\* A system state, and the states its required participants may be in.
Rule(to, from) == [to |-> to, from |-> from]

\* ChangeToIfAllIn calls for a new participant state, in the order tried.
Rules(new) ==
    CASE new = "ServicesCreated" ->
           <<Rule(new, {"ServicesCreated", "CommunicationInitializing",
                        "CommunicationInitialized", "ReadyToRun", "Running"})>>
      [] new = "CommunicationInitializing" ->
           <<Rule(new, {"CommunicationInitializing", "CommunicationInitialized",
                        "ReadyToRun", "Running"})>>
      [] new = "CommunicationInitialized" ->
           <<Rule(new, {"CommunicationInitialized", "ReadyToRun", "Running"})>>
      [] new = "ReadyToRun" -> <<Rule(new, {"ReadyToRun", "Running"})>>
      [] new = "Running" ->
           <<Rule("Running", {"Running"}),
             Rule("Stopping", {"Running", "Stopping"}),
             Rule("Stopped", {"Running", "Stopped"}),
             Rule("ShuttingDown", {"Running", "Stopped", "ShuttingDown"}),
             Rule("Shutdown", {"Running", "Stopped", "ShuttingDown", "Shutdown"})>>
      [] new = "Paused" ->
           <<Rule("Paused", {"Running", "Paused"}),
             Rule("Stopping", {"Running", "Paused", "Stopping"}),
             Rule("Stopped", {"Running", "Paused", "Stopped"}),
             Rule("ShuttingDown", {"Running", "Paused", "Stopped", "ShuttingDown"}),
             Rule("Shutdown",
                  {"Running", "Paused", "Stopped", "ShuttingDown", "Shutdown"})>>
      [] new = "Stopping" ->
           <<Rule(new, {"Running", "Paused", "Stopping", "Stopped", "ShuttingDown",
                        "Shutdown"})>>
      [] new = "Stopped" -> <<Rule(new, {"Stopped", "ShuttingDown", "Shutdown"})>>
      [] new = "ShuttingDown" ->
           <<Rule(new, {"Stopped", "ShuttingDown", "Shutdown", "Error",
                        "ServicesCreated", "ReadyToRun"})>>
      [] new = "Shutdown" -> <<Rule(new, {"Shutdown"})>>
      [] OTHER -> <<>>

\* The system state before any rule: kept while a participant is known.
WithoutRules(t) ==
    IF \E q \in Participant : t.status[q] # "Unknown" THEN t.system
    ELSE CASE t.system \in {"Error", "Shutdown"} -> t.system
           [] t.system = "ShuttingDown" -> "Shutdown"
           [] OTHER -> "Invalid"

\* Faulty variant: participants without a status are passed over.
FirstApplicableToKnown(t, rules, i) ==
    LET Applies(j) == \A q \in Required : t.status[q] \in rules[j].from \cup {"Unknown"}
    IN  Applies(i) /\ \A j \in 1..(i - 1) : ~Applies(j)

\* i is the first rule that all required participants satisfy.
FirstApplicable(t, rules, i) ==
    LET Applies(j) == \A q \in Required : t.status[q] \in rules[j].from
    IN  Applies(i) /\ \A j \in 1..(i - 1) : ~Applies(j)

ComputeSystemState(t, new) ==
    LET rules == Rules(new)
        First(i) == FirstApplicable(t, rules, i)
    IN  CASE new \in {"Aborting", "Error"} -> new
          [] new \notin {"Aborting", "Error"} /\ \E i \in DOMAIN rules : First(i) ->
               rules[CHOOSE i \in DOMAIN rules : First(i)].to
          [] OTHER -> WithoutRules(t)

Recomputed(t, new) == [t EXCEPT !.system = ComputeSystemState(t, new)]

\* The status of a participant that has shut down does not change any more.
UpdateParticipantStatus(t, q, new) ==
    LET updated == [t EXCEPT !.status[q] = new]
    IN  CASE t.status[q] = "Shutdown" -> t
          [] t.status[q] # "Shutdown" /\ t.status[q] # new /\ q \in Required ->
               Recomputed(updated, new)
          [] OTHER -> updated

\* Faulty variant: the participant is erased from the names as well.
EraseParticipant(t, q, any) ==
    [t EXCEPT !.status = [r \in DOMAIN t.status \ {q} |-> t.status[r]]]

\* any: the required participant that is first in the hash set.
RemoveParticipant(t, q, any) ==
    LET removed == [t EXCEPT !.status[q] = "Unknown"]
    IN  IF t.status[q] = "Unknown" THEN t ELSE Recomputed(removed, removed.status[any])
=============================================================================
