--------------------------- MODULE LifecycleProofs ------------------------
(***************************************************************************)
(* Proofs about Lifecycle, for any number of connections and any deadlines *)
(* of which the shutdown's is no shorter than a handler's.                 *)
(***************************************************************************)
EXTENDS Lifecycle, TLAPS

\* The end of the process leaves the connections as they are.
Inv ==
  /\ TypeOK
  /\ GracefulLosesNothing
  /\ main = "timedOut" => waited = ShutdownTimeout

LEMMA InvTurn ==
  ASSUME Inv, Alive, NEW c \in Conns, NEW state,
         state \in {"closed", "new", "active", "held", "idle"}, Turn(c, state)
  PROVE  Inv'
<1>1. conn' \in [Conns -> {"closed", "new", "active", "held", "idle"}] /\ age' \in [Conns -> Nat]
  BY DEF Inv, TypeOK, Turn
<1>2. \A d \in Conns : (conn'[d] = conn[d] /\ age'[d] = age[d]) \/ age'[d] = 0
  BY DEF Inv, TypeOK, Turn
<1>3. \A d \in Conns : /\ conn'[d] = "new" => age'[d] <= ReadHeaderTimeout
                       /\ conn'[d] = "active" => age'[d] <= HeadTimeout
                       /\ conn'[d] = "held" => age'[d] <= ReadTimeout
  BY <1>2, LifecycleAssumption DEF Inv, TypeOK
<1> QED
  BY <1>1, <1>3 DEF Inv, TypeOK, Turn, Alive, GracefulLosesNothing

LEMMA InvTick == Inv /\ Tick => Inv'
<1> SUFFICES ASSUME Inv, Tick PROVE Inv'
  OBVIOUS
<1>1. age' \in [Conns -> Nat] /\ UNCHANGED <<main, told, accepting, conn>>
  BY DEF Inv, TypeOK, Tick
<1>2. waited' \in 0..ShutdownTimeout
  BY LifecycleAssumption DEF Inv, TypeOK, Tick
<1>3. ASSUME NEW c \in Conns
      PROVE  /\ conn'[c] = "new" => age'[c] <= ReadHeaderTimeout
             /\ conn'[c] = "active" => age'[c] <= HeadTimeout
             /\ conn'[c] = "held" => age'[c] <= ReadTimeout
  <2>1. age[c] \in Nat /\ conn'[c] = conn[c]
        /\ age'[c] = IF conn[c] \in {"new", "active", "held"} THEN age[c] + 1 ELSE age[c]
    BY <1>1 DEF Inv, TypeOK, Tick
  <2>2. ~Overdue(c)
    BY DEF Tick
  <2> QED
    BY <2>1, <2>2, LifecycleAssumption DEF Overdue
<1> QED
  BY <1>1, <1>2, <1>3 DEF Inv, TypeOK, GracefulLosesNothing, Tick, Alive

LEMMA InvNext == Inv /\ [Next]_vars => Inv'
<1> SUFFICES ASSUME Inv, [Next]_vars PROVE Inv'
  OBVIOUS
<1>1. ASSUME NEW c \in Conns,
             Accept(c) \/ TakeRequest(c) \/ Close(c) \/ Reply(c) \/ CloseIdle(c)
      PROVE  Inv'
  BY <1>1, InvTurn DEF Accept, TakeRequest, Close, Reply, CloseIdle, Alive
<1>2. CASE Signal
  BY <1>2 DEF Inv, TypeOK, GracefulLosesNothing, Signal, Alive
<1>7. CASE ReceiveSignal
  BY <1>7 DEF Inv, TypeOK, GracefulLosesNothing, ReceiveSignal
<1>3. CASE ListenAndServeReturns
  BY <1>3 DEF Inv, TypeOK, GracefulLosesNothing, ListenAndServeReturns, Alive
<1>4. CASE ShutdownReturns
  BY <1>4 DEF Inv, TypeOK, GracefulLosesNothing, ShutdownReturns
<1>5. CASE ShutdownFails
  BY <1>5 DEF Inv, TypeOK, GracefulLosesNothing, ShutdownFails
<1>6. CASE UNCHANGED vars
  BY <1>6 DEF Inv, TypeOK, GracefulLosesNothing, vars
<1> QED
  BY <1>1, <1>2, <1>3, <1>4, <1>5, <1>6, <1>7, InvTick DEF Next

LEMMA InvAlways == Spec => []Inv
<1>1. Init => Inv
  <2> SUFFICES ASSUME Init PROVE Inv
    OBVIOUS
  <2>1. conn \in [Conns -> {"closed", "new", "active", "held", "idle"}]
    BY DEF Init
  <2>2. age \in [Conns -> Nat] /\ waited \in 0..ShutdownTimeout
    BY LifecycleAssumption DEF Init
  <2>3. \A c \in Conns : conn[c] = "closed"
    BY DEF Init
  <2> QED
    BY <2>1, <2>2, <2>3 DEF Init, Inv, TypeOK, GracefulLosesNothing
<1> QED
  BY <1>1, InvNext, PTL DEF Spec

\* Connections and requests keep their deadlines.
THEOREM TypeCorrect == Spec => []TypeOK
<1>1. Inv => TypeOK
  BY DEF Inv
<1> QED
  BY <1>1, InvAlways, PTL

\* A graceful end loses no request that was taken.
THEOREM GracefulIsSafe == Spec => []GracefulLosesNothing
<1>1. Inv => GracefulLosesNothing
  BY DEF Inv
<1> QED
  BY <1>1, InvAlways, PTL

\* As long as the shutdown has no less time than one HEAD, it cuts no
\* request that was sent whole and taken before the signal.
THEOREM EarlyRequestsFinish == Spec => []OnlyLateRequestsCut
<1>1. Inv => OnlyLateRequestsCut
  BY LifecycleAssumption DEF Inv, TypeOK, OnlyLateRequestsCut
<1> QED
  BY <1>1, InvAlways, PTL
=============================================================================
