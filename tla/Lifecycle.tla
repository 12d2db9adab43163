----------------------------- MODULE Lifecycle ----------------------------
(***************************************************************************)
(* The archeio process: it listens, serves connections, and when it is     *)
(* told to stop gives the requests it has taken a few seconds.  Four       *)
(* deadlines meet here: of reading a header, of reading a whole request,   *)
(* of the HEAD a handler may wait for, and of the shutdown.                *)
(*                                                                         *)
(* Time is in seconds and passes with Tick, for all deadlines at once; no  *)
(* deadline is passed over.  What is done at a deadline comes before or    *)
(* after anything else that is due in that second.                         *)
(***************************************************************************)
EXTENDS Naturals

CONSTANTS
    Conns,              \* connections; one that is closed may come again
    HeadTimeout,        \* of the client in BlobExists
    ReadHeaderTimeout,  \* of the server
    ReadTimeout,        \* of the server, for a request with its body
    ShutdownTimeout     \* of the context given to Shutdown

VARIABLES
    main,   \* "serving", "shutting", or how the process ended
    told,   \* a signal is in the channel, or was
    accepting,  \* ListenAndServe has not returned
    conn,   \* the http.ConnState of each connection; http.StateActive is
            \* "active", or "held" if the client holds back a request's body
    age,    \* seconds a new connection, or a request, has taken
    waited  \* seconds main has been in Shutdown

vars == <<main, told, accepting, conn, age, waited>>

ASSUME LifecycleAssumption ==
    /\ HeadTimeout \in Nat /\ ReadHeaderTimeout \in Nat
    /\ ReadTimeout \in Nat /\ ShutdownTimeout \in Nat
    /\ HeadTimeout <= ShutdownTimeout       \* 5 and 5
    /\ HeadTimeout <= ReadTimeout           \* 5 and 10

Alive == main \in {"serving", "shutting"}

-----------------------------------------------------------------------------
Init ==
    /\ main = "serving" /\ told = FALSE /\ accepting = TRUE
    /\ conn = [c \in Conns |-> "closed"]
    /\ age = [c \in Conns |-> 0]
    /\ waited = 0

Turn(c, state) ==
    /\ conn' = [conn EXCEPT ![c] = state]
    /\ age' = [age EXCEPT ![c] = 0]
    /\ UNCHANGED <<main, told, accepting, waited>>

Accept(c) == main = "serving" /\ accepting /\ conn[c] = "closed" /\ Turn(c, "new")

\* The header of a request is read and the handler called, which asks the
\* bucket at once or replies.
TakeRequest(c) ==
    /\ Alive /\ conn[c] \in {"new", "idle"}
    /\ \E state \in {"active", "held"} : Turn(c, state)

\* The client leaves or takes more than ReadHeaderTimeout, or ReadTimeout.
Close(c) == Alive /\ conn[c] \in {"new", "idle"} /\ Turn(c, "closed")

\* The handler returns, and the server replies, but not before it has the
\* body or has given up on it.  The connection is kept for the next request
\* unless it has, or is shutting down.
Reply(c) ==
    /\ Alive /\ conn[c] \in {"active", "held"}
    /\ Turn(c, IF main = "serving" /\ (conn[c] = "held" => age[c] < ReadTimeout)
               THEN "idle" ELSE "closed")

-----------------------------------------------------------------------------
\* A signal is sent.  A second one is left in the channel.
Signal ==
    /\ Alive /\ ~told
    /\ told' = TRUE
    /\ UNCHANGED <<main, accepting, conn, age, waited>>

\* Mutant: main serves, and reads the channel when ListenAndServe is over.
ReceiveSignalLate ==
    /\ main = "serving" /\ told /\ ~accepting
    /\ main' = "shutting"
    /\ UNCHANGED <<told, accepting, conn, age, waited>>

\* main receives the signal and calls server.Shutdown, which closes the
\* listener.
ReceiveSignal ==
    /\ main = "serving" /\ told
    /\ main' = "shutting"
    /\ UNCHANGED <<told, accepting, conn, age, waited>>

\* Mutant: main is over when ListenAndServe is, which does not wait.
ListenAndServeReturnsMain ==
    /\ Alive /\ accepting
    /\ accepting' = FALSE
    /\ main' = IF main = "serving" THEN "listenFailed" ELSE "exited"
    /\ UNCHANGED <<told, conn, age, waited>>

\* ListenAndServe returns: with ErrServerClosed once Shutdown was called,
\* which its goroutine ignores, with any other error at any time.
ListenAndServeReturns ==
    /\ Alive /\ accepting
    /\ accepting' = FALSE
    /\ main' = IF main = "serving" THEN "listenFailed" ELSE main
    /\ UNCHANGED <<told, conn, age, waited>>

\* Shutdown, with the listener closed, closes what is idle.
CloseIdle(c) ==
    /\ main = "shutting" /\ ~accepting /\ conn[c] = "idle"
    /\ Turn(c, "closed")

\* Nothing is left to wait for: Shutdown returns, and main.
ShutdownReturns ==
    /\ main = "shutting" /\ ~accepting
    /\ \A c \in Conns : conn[c] = "closed"
    /\ main' = "exited"
    /\ UNCHANGED <<told, accepting, conn, age, waited>>

\* The context of Shutdown is over: klog.Fatalf.
ShutdownFails ==
    /\ main = "shutting" /\ waited = ShutdownTimeout
    /\ main' = "timedOut"
    /\ UNCHANGED <<told, accepting, conn, age, waited>>

\* Mutant: the client of BlobExists has no timeout.
OverdueNoHead(c) ==
    \/ conn[c] = "new" /\ age[c] >= ReadHeaderTimeout
    \/ conn[c] = "held" /\ age[c] >= ReadTimeout

\* A connection that must change before time goes on.
Overdue(c) ==
    \/ conn[c] = "new" /\ age[c] >= ReadHeaderTimeout
    \/ conn[c] = "active" /\ age[c] >= HeadTimeout
    \/ conn[c] = "held" /\ age[c] >= ReadTimeout

\* A second passes.
Tick ==
    /\ Alive
    /\ \A c \in Conns : ~Overdue(c)
    /\ main = "shutting" => waited < ShutdownTimeout
    /\ age' = [c \in Conns |->
                IF conn[c] \in {"new", "active", "held"} THEN age[c] + 1
                ELSE age[c]]
    /\ waited' = IF main = "shutting" THEN waited + 1 ELSE waited
    /\ UNCHANGED <<main, told, accepting, conn>>

-----------------------------------------------------------------------------
Next ==
    \/ \E c \in Conns :
        Accept(c) \/ TakeRequest(c) \/ Close(c) \/ Reply(c) \/ CloseIdle(c)
    \/ Signal \/ ReceiveSignal \/ ListenAndServeReturns
    \/ ShutdownReturns \/ ShutdownFails
    \/ Tick

Spec == Init /\ [][Next]_vars

\* Time passes, and what is due is done: main wakes up with the signal, the
\* timeouts fire, handlers whose HEAD is over return, Shutdown polls.  No one
\* need connect, send or signal.
Fairness ==
    /\ WF_vars(ReceiveSignal)
    /\ WF_vars(Tick) /\ WF_vars(ShutdownReturns) /\ WF_vars(ShutdownFails)
    /\ WF_vars(main = "shutting" /\ ListenAndServeReturns)
    /\ \A c \in Conns :
        WF_vars(Overdue(c) /\ (Close(c) \/ Reply(c))) /\ WF_vars(CloseIdle(c))

FairSpec == Spec /\ Fairness

-----------------------------------------------------------------------------
(* Properties.                                                             *)

\* No handler, and no connection without a request, outlasts its deadline.
TypeOK ==
    /\ main \in {"serving", "shutting", "exited", "timedOut", "listenFailed"}
    /\ told \in BOOLEAN /\ accepting \in BOOLEAN
    /\ conn \in [Conns -> {"closed", "new", "active", "held", "idle"}]
    /\ age \in [Conns -> Nat]
    /\ waited \in 0..ShutdownTimeout
    /\ \A c \in Conns :
        /\ conn[c] = "new" => age[c] <= ReadHeaderTimeout
        /\ conn[c] = "active" => age[c] <= HeadTimeout
        /\ conn[c] = "held" => age[c] <= ReadTimeout

\* A process that says it stopped in good order has answered every request
\* it took: the end of ListenAndServe, which comes first, ends nothing else.
GracefulLosesNothing ==
    main = "exited" => \A c \in Conns : conn[c] \notin {"active", "held"}

\* The shutdown's deadline is as long as a handler's: the only requests it
\* can cut off, of those sent whole, are those taken in the second main has
\* received the signal in, or later from connections that were open.  (One
\* whose body is held back may be older, as ReadTimeout is longer.)
OnlyLateRequestsCut ==
    main = "timedOut" =>
        \A c \in Conns : conn[c] = "active" => age[c] <= waited

\* A process that was told to stop does, whatever its connections are at
\* when the signal comes and whoever keeps them open: main reads the channel
\* while another goroutine serves, and Shutdown comes back.
StopsWhenTold == told ~> ~Alive
=============================================================================
