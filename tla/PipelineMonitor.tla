-------------------------- MODULE PipelineMonitor --------------------------
(***************************************************************************)
(* The alerts of internal/service/pipelinemonitor: every interval the      *)
(* checks are sampled, faults and recoveries are sent to a chat as two     *)
(* cards, and what was sent is remembered in memory and in a file, so that *)
(* a fault is repeated only when it gets worse or a cooldown has passed.   *)
(*                                                                         *)
(* `cards' is what the chat has received.  A request may be lost, or be    *)
(* received while its answer is lost; the file may fail, be damaged and be *)
(* repaired; the process may die between a card and the file.              *)
(***************************************************************************)
EXTENDS Integers, FiniteSets, Sequences, FiniteSetsExt, SequencesExt

CONSTANTS
    Watched,         \* the checks of the collector
    Cooldown,        \* Config.Cooldown, in intervals
    MaxSelected,     \* checks notified in one refresh (12)
    MaxRefreshes,    \* bound: refreshes
    MaxMonitorFaults \* bound: lost requests and answers, file errors, crashes

ASSUME PipelineMonitorConstants ==
    /\ Cooldown \in Nat \ {0} /\ MaxSelected \in Nat \ {0}
    /\ MaxRefreshes \in Nat /\ MaxMonitorFaults \in Nat

VARIABLES
    mclock,    \* refreshes begun
    memory,    \* [states, stateError, persistError, failure, success]
    file,      \* the state file: [states, readable]
    refresh,   \* [at, sample, selected, failed, short]
    cards,     \* what the chat has received
    mfaults

monitorVars == <<mclock, memory, file, refresh, cards, mfaults>>

\* The monitor's own checks beside the collector's.
MonitorChecks == Watched \cup {"monitor.collection", "monitor.delivery", "monitor.persistence"}

Rank(status) ==
    CASE status = "critical" -> 3 [] status = "warning" -> 2 [] status = "unknown" -> 1 [] OTHER -> 0

NoAlert == [level |-> "none", sentAt |-> 0, active |-> FALSE]

NoStates == [c \in MonitorChecks |-> NoAlert]

NoRefresh == [at |-> "idle", sample |-> [c \in MonitorChecks |-> "absent"], selected |-> <<>>,
              failed |-> FALSE, short |-> FALSE]

MonitorFault == mfaults < MaxMonitorFaults /\ mfaults' = mfaults + 1

MonitorFaultIf(b) == IF b THEN MonitorFault ELSE UNCHANGED mfaults

\* Build: a file that cannot be read silences the monitor.
Build ==
    [states |-> IF file.readable THEN file.states ELSE NoStates, stateError |-> ~file.readable,
     persistError |-> FALSE, failure |-> FALSE, success |-> FALSE]

MonitorInit ==
    /\ mclock = 0 /\ mfaults = 0 /\ cards = {} /\ refresh = NoRefresh
    /\ file = [states |-> NoStates, readable |-> TRUE]
    /\ memory = [states |-> NoStates, stateError |-> FALSE, persistError |-> FALSE,
                 failure |-> FALSE, success |-> FALSE]

-----------------------------------------------------------------------------

DeliveryCheck(m) ==
    CASE m.failure -> "unknown" [] ~m.failure /\ m.success -> "healthy" [] OTHER -> "suppressed"

\* The checks of a refresh; a malformed collection leaves one check of its own.
Samples(m) ==
    LET own(c) == CASE c = "monitor.delivery" -> DeliveryCheck(m)
                    [] c = "monitor.persistence" -> IF m.persistError THEN "unknown" ELSE "absent"
                    [] OTHER -> "absent"
        statuses == {"healthy", "warning", "critical", "suppressed"}
        whole == {[c \in MonitorChecks |-> IF c \in Watched THEN s[c] ELSE own(c)] : s \in [Watched -> statuses]}
        failed == {[c \in MonitorChecks |-> CASE c \in Watched -> s[c]
                                              [] c = "monitor.collection" -> "unknown"
                                              [] OTHER -> own(c)] : s \in [Watched -> {"absent", "healthy", "warning"}]}
        invalid == [c \in MonitorChecks |-> IF c = "monitor.collection" THEN "unknown" ELSE "absent"]
    IN  whole \cup failed \cup {invalid}

Recovers(states, sample, c) == sample[c] = "healthy" /\ states[c].active

\* A fault is due when it is new, worse, or was last sent a cooldown ago.
Notifiable(states, sample, c) ==
    \/ Recovers(states, sample, c)
    \/ /\ Rank(sample[c]) > 0
       /\ ~(/\ states[c].active /\ Rank(sample[c]) <= Rank(states[c].level)
            /\ mclock' - states[c].sentAt < Cooldown)

\* The checks in one fixed order, which stands for that of their names.
Names == SetToSeq(MonitorChecks)

\* The worst first, those of one rank in the order of their names.
ByRank(due, sample) ==
    LET before(c, d) == \/ Rank(sample[c]) > Rank(sample[d])
                        \/ /\ Rank(sample[c]) = Rank(sample[d])
                           /\ \E i, j \in DOMAIN Names : i < j /\ Names[i] = c /\ Names[j] = d
    IN  SetToSortSeq(due, before)

\* The file is tried again, the checks are sampled, and those to notify chosen.
RefreshBegins ==
    /\ refresh.at = "idle" /\ mclock < MaxRefreshes /\ mclock' = mclock + 1
    /\ \E saved \in BOOLEAN :
          LET back  == memory.stateError /\ file.readable
              m     == [memory EXCEPT !.states = IF back THEN file.states ELSE @,
                                      !.stateError = @ /\ ~back,
                                      !.persistError = @ /\ ~saved]
          IN  /\ saved => memory.persistError
              /\ MonitorFaultIf(memory.persistError /\ ~saved)
              /\ memory' = m
              /\ file' = IF saved THEN [states |-> m.states, readable |-> TRUE] ELSE file
              /\ \E sample \in Samples(m) :
                    LET due == {c \in MonitorChecks : Notifiable(m.states, sample, c)}
                        chosen == IF m.stateError THEN <<>>
                                  ELSE SubSeq(ByRank(due, sample), 1, Min({MaxSelected, Cardinality(due)}))
                    IN  refresh' = [at |-> IF chosen = <<>> THEN "idle" ELSE "faults", sample |-> sample,
                                    selected |-> chosen, failed |-> FALSE,
                                    short |-> m.stateError \/ Cardinality(due) > Len(chosen)]
    /\ UNCHANGED cards

Sending == refresh.at \in {"faults", "recoveries"}

\* The checks of the card in hand, and the items that its acceptance marks.
OnCard == {c \in ToSet(refresh.selected) : refresh.sample[c] = "healthy" <=> refresh.at = "recoveries"}

GroupOfAll == ToSet(refresh.selected)

Group == OnCard

Card(c) == [check |-> c, level |-> refresh.sample[c], at |-> mclock, recovery |-> refresh.at = "recoveries"]

Following == IF refresh.at = "faults" THEN "recoveries" ELSE "end"

SkipCard ==
    /\ Sending /\ OnCard = {}
    /\ refresh' = [refresh EXCEPT !.at = Following]
    /\ UNCHANGED <<mclock, memory, file, cards, mfaults>>

\* The card is accepted: every check of it is remembered, then written down.
CardAccepted(persisted) ==
    LET states == [c \in MonitorChecks |->
                     IF c \in Group THEN [level |-> refresh.sample[c], sentAt |-> mclock,
                                          active |-> refresh.at = "faults"]
                     ELSE memory.states[c]]
    IN  /\ Sending /\ OnCard # {}
        /\ MonitorFaultIf(~persisted)
        /\ cards' = cards \cup {Card(c) : c \in OnCard}
        /\ memory' = [memory EXCEPT !.states = states, !.success = TRUE,
                                    !.persistError = @ \/ ~persisted]
        /\ file' = IF persisted THEN [states |-> states, readable |-> TRUE] ELSE file
        /\ refresh' = [refresh EXCEPT !.at = Following]
        /\ UNCHANGED mclock

\* No answer, or not one that accepts it: nothing is remembered.
SendFails(received) ==
    /\ Sending /\ OnCard # {} /\ MonitorFault
    /\ cards' = IF received THEN cards \cup {Card(c) : c \in OnCard} ELSE cards
    /\ memory' = [memory EXCEPT !.failure = TRUE]
    /\ refresh' = [refresh EXCEPT !.at = Following, !.failed = TRUE]
    /\ UNCHANGED <<mclock, file>>

RefreshEnds ==
    /\ refresh.at = "end"
    /\ memory' = [memory EXCEPT !.failure = @ /\ refresh.failed]
    /\ refresh' = [refresh EXCEPT !.at = "idle"]
    /\ UNCHANGED <<mclock, file, cards, mfaults>>

FileIsDamaged ==
    /\ MonitorFault /\ file.readable
    /\ file' = [file EXCEPT !.readable = FALSE]
    /\ UNCHANGED <<mclock, memory, refresh, cards>>

FileIsRepaired ==
    /\ ~file.readable /\ file' = [file EXCEPT !.readable = TRUE]
    /\ UNCHANGED <<mclock, memory, refresh, cards, mfaults>>

\* The process dies, perhaps after the chat has received the card in hand.
MonitorRestarts ==
    /\ MonitorFault
    /\ cards' \in {cards} \cup (IF Sending THEN {cards \cup {Card(c) : c \in OnCard}} ELSE {})
    /\ memory' = Build /\ refresh' = [NoRefresh EXCEPT !.short = TRUE]
    /\ UNCHANGED <<mclock, file>>

MonitorNext ==
    \/ RefreshBegins \/ SkipCard \/ RefreshEnds
    \/ \E persisted \in BOOLEAN : CardAccepted(persisted)
    \/ \E received \in BOOLEAN : SendFails(received)
    \/ FileIsDamaged \/ FileIsRepaired \/ MonitorRestarts

MonitorSpec == MonitorInit /\ [][MonitorNext]_monitorVars

-----------------------------------------------------------------------------

\* What is remembered, in memory and in the file, was received by the chat, on
\* the card that says it, although one of the two cards of a refresh may fail;
\* a recovery is announced only of a fault that was; and after a refresh that
\* sent all it chose, no sampled fault is untold: one of its rank or worse was
\* received within the cooldown.
AlertsAreBacked ==
    /\ \A c \in MonitorChecks, a \in {memory.states, file.states} :
          a[c].level # "none" =>
             [check |-> c, level |-> a[c].level, at |-> a[c].sentAt, recovery |-> ~a[c].active] \in cards
    /\ \A k \in cards : k.recovery =>
          \E j \in cards : j.check = k.check /\ ~j.recovery /\ j.at < k.at
    /\ refresh.at = "idle" /\ ~refresh.failed /\ ~refresh.short =>
          \A c \in MonitorChecks : Rank(refresh.sample[c]) > 0 =>
             \E k \in cards : /\ k.check = c /\ ~k.recovery
                              /\ Rank(k.level) >= Rank(refresh.sample[c]) /\ mclock - k.at < Cooldown
=============================================================================
