--------------------------- MODULE ArcheioHistory --------------------------
(***************************************************************************)
(* Archeio with two history variables, for what a client may rely on from  *)
(* one request to the next.  They are only written.                        *)
(***************************************************************************)
EXTENDS Archeio

VARIABLES
    settled,    \* the objects a client was sent to since the last restart
    late        \* the handlers whose request came after such a client's

historyVars == <<vars, settled, late>>

HistoryInit == Init /\ settled = {} /\ late = {}

\* h has just taken a request for an object already settled.
ComesLate(h) ==
    /\ pc[h] = "idle"
    /\ request'[h] \in BlobRequests
    /\ BlobURL(RC, request'[h]) \in settled

HistoryRun ==
    /\ Run
    /\ settled' = settled \cup {URL(h)' : h \in {i \in Handlers : SentToBucket(i)'}}
    /\ late' = {h \in Handlers : pc'[h] # "idle" /\ (h \in late \/ ComesLate(h))}

HistoryRestart == Restart /\ settled' = {} /\ late' = {}

HistorySpec ==
    HistoryInit /\ [][HistoryRun \/ HistoryRestart]_historyVars

\* Once some client was sent to an object, every request for it that comes
\* later is sent there too, without asking the bucket again, whatever
\* happens to the object and however many handlers race on it: a client
\* never sees the same layer move back to the upstream registry.
NeverGoesBack ==
    \A h \in late : pc[h] = "lookup" \/ SentToBucket(h)
=============================================================================
