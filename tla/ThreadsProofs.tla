---------------------------- MODULE ThreadsProofs ----------------------------
(***************************************************************************)
(* Proofs about the exception handlers of any number of threads and the    *)
(* thread objects they use, whatever codes, callbacks and objects the      *)
(* program has, and whatever its callbacks call before they return.        *)
(***************************************************************************)
EXTENDS Threads, FiniteSetTheorems, TLAPS

HandlerTypes ==
    /\ slot \in BOOLEAN
    /\ tls \in [Threads -> Handlers \cup {NULL}]
    /\ freeing \in [Threads -> Handlers \cup {NULL}]
    /\ DOMAIN handler = Handlers
    /\ allocated \subseteq Handlers

\* What a thread holds came from the allocator, and no other thread holds it.
Held ==
    \A t \in Threads :
        /\ tls[t] # NULL => tls[t] \in allocated
        /\ freeing[t] # NULL => freeing[t] \in allocated
OneThread ==
    \A t, u \in Threads :
        /\ tls[t] # NULL /\ tls[t] = tls[u] => t = u
        /\ freeing[t] # NULL /\ freeing[t] = freeing[u] => t = u
        /\ tls[t] # NULL => tls[t] # freeing[u]
NoneLost == \A h \in allocated : \E t \in Threads : tls[t] = h \/ freeing[t] = h

Inv == HandlerTypes /\ Held /\ OneThread /\ NoneLost

\* A step of thread t: at most its own slot changes, and of the handlers at most
\* the one that is in that slot afterwards, or the one a push goes on with.
StepOf(t) ==
    /\ actor' = t
    /\ \A u \in Threads \ {t} : tls'[u] = tls[u]
    /\ \A h \in Handlers : handler'[h] # handler[h] => h = tls'[t] \/ LateWrite(h)

-----------------------------------------------------------------------------
(* Calls.                                                                   *)

(* What leaves slots and the allocator alone keeps the invariant.           *)
LEMMA InvUnchanged ==
    ASSUME Inv, UNCHANGED <<slot, tls, allocated, freeing>>,
           DOMAIN handler' = Handlers
    PROVE  Inv'
BY DEF Inv, HandlerTypes, Held, OneThread, NoneLost

(* A call that only pushes writes nothing before the callback returns.      *)
LEMMA PushStep ==
    ASSUME Inv, NEW t \in Threads, NEW code, NEW number, NEW object,
           push_exception(t, code, number, object), actor' = t,
           UNCHANGED <<slot, tls, allocated, freeing>>
    PROVE  Inv' /\ StepOf(t)
<1>1. UNCHANGED handler
  BY DEF push_exception
<1>2. Inv'
  BY <1>1, InvUnchanged DEF Inv, HandlerTypes
<1>. QED  BY <1>1, <1>2 DEF StepOf

LEMMA QuietStep ==
    ASSUME Inv, NEW t \in Threads, actor' = t,
           UNCHANGED <<slot, tls, handler, allocated, freeing>>
    PROVE  Inv' /\ StepOf(t)
<1>1. Inv'
  BY InvUnchanged DEF Inv, HandlerTypes
<1>2. StepOf(t)
  BY DEF StepOf
<1>. QED  BY <1>1, <1>2

(* The write that follows the callback is to the handler read before it: the *)
(* thread's own, unless its slot has changed.                               *)
LEMMA ReturnStep ==
    ASSUME Inv, NEW t \in Threads, ReturnFromCallback(t)
    PROVE  Inv' /\ StepOf(t)
<1>. DEFINE p == Last(pushing[t])
<1>1. actor' = t /\ UNCHANGED <<slot, tls, allocated, freeing>>
  BY DEF ReturnFromCallback, Acts
<1>2. handler' = [handler EXCEPT ![p.handler] = Pushed(p.handler, p.node)]
  BY DEF ReturnFromCallback
<1>3. DOMAIN handler' = Handlers
  BY <1>2 DEF Inv, HandlerTypes
<1>4. ASSUME NEW h \in Handlers, handler'[h] # handler[h]
      PROVE  h = tls'[t] \/ LateWrite(h)
  <2>1. h = p.handler
    BY <1>2, <1>4 DEF Inv, HandlerTypes
  <2>. QED  BY <1>1, <2>1 DEF LateWrite
<1>5. Inv'
  BY <1>1, <1>3, InvUnchanged
<1>. QED  BY <1>1, <1>4, <1>5 DEF StepOf

LEMMA GetLastStep ==
    ASSUME Inv, NEW t \in Threads, GetLastException(t)
    PROVE  Inv' /\ StepOf(t)
<1>1. actor' = t /\ UNCHANGED <<slot, tls, allocated, freeing>>
  BY DEF GetLastException, Acts
<1>2. /\ DOMAIN handler' = Handlers
      /\ \A h \in Handlers : handler'[h] # handler[h] => h = tls[t]
  <2>1. CASE Get(t) = NULL
    BY <2>1 DEF GetLastException, Inv, HandlerTypes
  <2>2. CASE Get(t) # NULL
    <3>1. Get(t) = tls[t]
      BY <2>2 DEF Get
    <3>2. handler' = [handler EXCEPT ![Get(t)] = Popped(Get(t))]
      BY <2>2 DEF GetLastException
    <3>. QED  BY <3>1, <3>2 DEF Inv, HandlerTypes
  <2>. QED  BY <2>1, <2>2
<1>3. Inv'
  BY <1>1, <1>2, InvUnchanged
<1>4. StepOf(t)
  BY <1>1, <1>2 DEF StepOf
<1>. QED  BY <1>3, <1>4

LEMMA EnableAgainStep ==
    ASSUME Inv, NEW t \in Threads, NEW callback, EnableAgain(t, callback)
    PROVE  Inv' /\ StepOf(t)
<1>1. actor' = t /\ UNCHANGED <<slot, tls, allocated, freeing>>
  BY DEF EnableAgain, Acts
<1>2. handler' = [handler EXCEPT ![tls[t]].callback = callback]
  BY DEF EnableAgain, Get
<1>3. /\ DOMAIN handler' = Handlers
      /\ \A h \in Handlers : handler'[h] # handler[h] => h = tls[t]
  BY <1>2 DEF Inv, HandlerTypes
<1>4. Inv'
  BY <1>1, <1>3, InvUnchanged
<1>5. StepOf(t)
  BY <1>1, <1>3 DEF StepOf
<1>. QED  BY <1>4, <1>5

(* A handler that is constructed was with nobody.                           *)
LEMMA EnableFirstStep ==
    ASSUME Inv, NEW t \in Threads, NEW callback, EnableFirst(t, callback)
    PROVE  Inv' /\ StepOf(t)
<1>1. PICK h \in Handlers \ allocated :
          /\ allocated' = allocated \cup {h}
          /\ handler' = [handler EXCEPT ![h] = [Cleared EXCEPT !.callback = callback]]
          /\ tls' = Set(t, h)
  BY DEF EnableFirst
<1>2. slot /\ tls[t] = NULL /\ actor' = t /\ UNCHANGED <<slot, freeing>>
  BY DEF EnableFirst, MustConstruct, Get, Acts
<1>3. freeing[t] = NULL
  BY DEF EnableFirst, Acts
<1>4. tls' = [tls EXCEPT ![t] = h]
  BY <1>1, <1>2 DEF Set
<1>5. h # NULL
  BY <1>1, ExceptionAssumption
<1>6. \A u \in Threads : tls[u] # h /\ freeing[u] # h
  BY <1>1, <1>5 DEF Inv, Held
<1>7. tls'[t] = h /\ \A u \in Threads \ {t} : tls'[u] = tls[u]
  BY <1>4 DEF Inv, HandlerTypes
<1>8. HandlerTypes'
  BY <1>1, <1>2, <1>4 DEF Inv, HandlerTypes
<1>9. Held'
  BY <1>1, <1>2, <1>7 DEF Inv, Held
<1>10. OneThread'
  BY <1>2, <1>5, <1>6, <1>7 DEF Inv, OneThread
<1>11. NoneLost'
  BY <1>1, <1>2, <1>7, ExceptionAssumption DEF Inv, HandlerTypes, NoneLost
<1>12. StepOf(t)
  BY <1>1, <1>2, <1>7 DEF StepOf, Inv, HandlerTypes
<1>. QED  BY <1>8, <1>9, <1>10, <1>11, <1>12 DEF Inv

LEMMA DisableStep ==
    ASSUME Inv, NEW t \in Threads, Disable(t)
    PROVE  Inv' /\ StepOf(t)
<1>1. slot /\ tls[t] # NULL /\ actor' = t /\ freeing[t] = NULL
  BY DEF Disable, Get, Acts
<1>2. UNCHANGED <<slot, handler, allocated>>
  BY DEF Disable
<1>3. tls' = [tls EXCEPT ![t] = NULL] /\ freeing' = [freeing EXCEPT ![t] = tls[t]]
  BY <1>1 DEF Disable, SlotCleared, Set, Get
<1>4. /\ tls'[t] = NULL /\ freeing'[t] = tls[t]
      /\ \A u \in Threads \ {t} : tls'[u] = tls[u] /\ freeing'[u] = freeing[u]
  BY <1>3 DEF Inv, HandlerTypes
<1>5. HandlerTypes'
  BY <1>2, <1>3 DEF Inv, HandlerTypes
<1>6. Held'
  BY <1>2, <1>4 DEF Inv, Held
<1>7. OneThread'
  BY <1>1, <1>4 DEF Inv, OneThread
<1>8. NoneLost'
  BY <1>1, <1>2, <1>4, ExceptionAssumption DEF Inv, HandlerTypes, NoneLost
<1>9. StepOf(t)
  BY <1>1, <1>2, <1>4 DEF StepOf
<1>. QED  BY <1>5, <1>6, <1>7, <1>8, <1>9 DEF Inv

LEMMA FinishDisableStep ==
    ASSUME Inv, NEW t \in Threads, FinishDisable(t)
    PROVE  Inv' /\ StepOf(t)
<1>1. /\ freeing[t] # NULL /\ actor' = t /\ UNCHANGED <<slot, tls>>
      /\ allocated' = allocated \ {freeing[t]}
      /\ freeing' = [freeing EXCEPT ![t] = NULL]
  BY DEF FinishDisable
<1>2. UNCHANGED handler
  BY DEF FinishDisable, push_exception
<1>3. /\ freeing'[t] = NULL
      /\ \A u \in Threads \ {t} : freeing'[u] = freeing[u]
  BY <1>1 DEF Inv, HandlerTypes
<1>4. HandlerTypes'
  BY <1>1, <1>2 DEF Inv, HandlerTypes
<1>5. Held'
  BY <1>1, <1>3 DEF Inv, Held, OneThread
<1>6. OneThread'
  BY <1>1, <1>3 DEF Inv, OneThread
<1>7. NoneLost'
  BY <1>1, <1>3 DEF Inv, NoneLost
<1>8. StepOf(t)
  BY <1>1, <1>2 DEF StepOf
<1>. QED  BY <1>4, <1>5, <1>6, <1>7, <1>8 DEF Inv
-----------------------------------------------------------------------------
(* Thread objects.                                                          *)

LEMMA RaiseStep ==
    ASSUME Inv, NEW t \in Threads, NEW name, NEW code, NEW object,
           Raise(t, name, code, object), actor' = t
    PROVE  Inv' /\ StepOf(t)
BY PushStep DEF Raise

LEMMA RaiseNothingStep ==
    ASSUME Inv, NEW t \in Threads, RaiseNothing, actor' = t
    PROVE  Inv' /\ StepOf(t)
BY QuietStep DEF RaiseNothing, handlerVars

LEMMA CreateThreadStep ==
    ASSUME Inv, NEW t \in Threads, NEW o, NEW object,
           CreateThread(t, o, object), actor' = t
    PROVE  Inv' /\ StepOf(t)
BY RaiseStep, RaiseNothingStep DEF CreateThread

(* A step of the exceptions that no thread object takes part in.            *)
LEMMA ExceptionStep ==
    ASSUME Inv, ExceptionNext
    PROVE  Inv' /\ (UNCHANGED handlerVars \/ \E t \in Threads : StepOf(t))
<1>1. ASSUME NEW u \in Units, GenerateUnit(u)
      PROVE  Inv' /\ UNCHANGED handlerVars
  BY <1>1, InvUnchanged DEF GenerateUnit, handlerVars, Inv, HandlerTypes
<1>2. CASE Main
  BY <1>2, InvUnchanged DEF Main, handlerVars, Inv, HandlerTypes
<1>3. ASSUME NEW t \in Threads, NEW name \in Names, NEW number \in PlatformCodes,
             Push(t, name, number)
      PROVE  Inv' /\ StepOf(t)
  BY <1>3, PushStep DEF Push, Acts
<1>4. ASSUME NEW t \in Threads, ReturnFromCallback(t) \/ GetLastException(t)
      PROVE  Inv' /\ StepOf(t)
  BY <1>4, ReturnStep, GetLastStep
<1>5. ASSUME NEW t \in Threads, NEW code \in -1..2, GetEnumeration(t, code)
      PROVE  Inv' /\ StepOf(t)
  <2>1. actor' = t /\ UNCHANGED <<slot, tls, allocated, freeing>>
    BY <1>5 DEF GetEnumeration, Acts
  <2>2. CASE push_exception(t, codes["index_out_of_range"], 0, NULL)
    BY <2>1, <2>2, PushStep
  <2>3. CASE UNCHANGED handler
    BY <2>1, <2>3, QuietStep
  <2>. QED  BY <1>5, <2>2, <2>3 DEF GetEnumeration
<1>6. ASSUME NEW t \in Threads, NEW c \in Callbacks \cup {NULL},
             EnableAgain(t, c) \/ EnableFirst(t, c)
      PROVE  Inv' /\ StepOf(t)
  BY <1>6, EnableAgainStep, EnableFirstStep
<1>7. ASSUME NEW t \in Threads, EnableFails(t) \/ DisableNothing(t)
      PROVE  Inv' /\ StepOf(t)
  BY <1>7, QuietStep DEF EnableFails, DisableNothing, Acts, handlerVars
<1>8. ASSUME NEW t \in Threads, Disable(t) \/ FinishDisable(t)
      PROVE  Inv' /\ StepOf(t)
  BY <1>8, DisableStep, FinishDisableStep
<1>. QED  BY <1>1, <1>2, <1>3, <1>4, <1>5, <1>6, <1>7, <1>8 DEF ExceptionNext

(* A thread object does no more to the handlers than its exceptions.        *)
LEMMA ObjectStep ==
    ASSUME Inv, NEW t \in Threads, NEW o \in Objects,
           \/ ConstructEmpty(t, o) \/ Construct(t, o) \/ ConstructNull(t, o)
           \/ Start(t, o) \/ StartWith(t, o) \/ StartWithNull(t, o)
           \/ Join(t, o)
           \/ \E b \in BOOLEAN : SetExceptionsFlag(t, o, b) \/ SetAllocator(t, o, b)
           \/ Destroy(t, o)
    PROVE  Inv' /\ StepOf(t)
<1>1. actor' = t
  BY DEF ConstructEmpty, Construct, ConstructNull, Start, StartWith, StartWithNull,
         Join, SetExceptionsFlag, SetAllocator, SetArgument, Destroy, Acts
<1>2. CASE ConstructEmpty(t, o) \/ Construct(t, o) \/ ConstructNull(t, o)
  BY <1>1, <1>2, RaiseNothingStep, RaiseStep, CreateThreadStep
     DEF ConstructEmpty, Construct, ConstructNull
<1>3. CASE Start(t, o)
  BY <1>1, <1>3, RaiseNothingStep, RaiseStep DEF Start
<1>4. CASE StartWith(t, o) \/ StartWithNull(t, o)
  BY <1>1, <1>4, RaiseStep, CreateThreadStep DEF StartWith, StartWithNull
<1>5. CASE Join(t, o)
  BY <1>1, <1>5, RaiseStep DEF Join
<1>6. ASSUME NEW b \in BOOLEAN, SetExceptionsFlag(t, o, b) \/ SetAllocator(t, o, b)
      PROVE  Inv' /\ StepOf(t)
  BY <1>1, <1>6, RaiseNothingStep, RaiseStep
     DEF SetExceptionsFlag, SetAllocator, SetArgument
<1>7. CASE Destroy(t, o)
  BY <1>1, <1>7, RaiseNothingStep, RaiseStep DEF Destroy
<1>. QED  BY <1>2, <1>3, <1>4, <1>5, <1>6, <1>7

LEMMA InitInv == Init => Inv
BY DEF Init, ExceptionInit, Inv, HandlerTypes, Held, OneThread, NoneLost

LEMMA NextInv ==
    ASSUME Inv, [Next]_vars
    PROVE  Inv' /\ (UNCHANGED handlerVars \/ \E t \in Threads : StepOf(t))
<1>1. CASE ExceptionNext /\ UNCHANGED threadVars
  BY <1>1, ExceptionStep
<1>2. ASSUME NEW t \in Threads, NEW o \in Objects,
             \/ ConstructEmpty(t, o) \/ Construct(t, o) \/ ConstructNull(t, o)
             \/ Start(t, o) \/ StartWith(t, o) \/ StartWithNull(t, o)
             \/ Join(t, o)
             \/ \E b \in BOOLEAN : SetExceptionsFlag(t, o, b) \/ SetAllocator(t, o, b)
             \/ Destroy(t, o)
      PROVE  Inv' /\ \E u \in Threads : StepOf(u)
  BY <1>2, ObjectStep
<1>3. CASE UNCHANGED vars
  BY <1>3, InvUnchanged DEF vars, exceptionVars, handlerVars, Inv, HandlerTypes
<1>. QED  BY <1>1, <1>2, <1>3 DEF Next

(* The inductive invariant: where each handler is, whatever the callbacks   *)
(* of the exceptions do.                                                    *)
THEOREM InvHolds == Spec => []Inv
<1>1. Inv /\ [Next]_vars => Inv'
  BY NextInv
<1>. QED  BY <1>1, InitInv, PTL DEF Spec

-----------------------------------------------------------------------------
(* The properties.                                                          *)

(* exception.cpp:93-161: a handler is with exactly one thread while it is   *)
(* allocated and with none otherwise, for any number of threads.            *)
THEOREM HandlersAccountedHolds == Spec => []HandlersAccounted
<1>1. Inv => HandlersAccounted
  <2>. SUFFICES ASSUME Inv, NEW h \in Handlers
                PROVE  IF h \in allocated THEN Cardinality(Using(h)) = 1 ELSE Using(h) = {}
    BY DEF Inv, HandlersAccounted
  <2>1. h # NULL
    BY ExceptionAssumption
  <2>2. CASE h \in allocated
    <3>1. PICK t \in Threads : tls[t] = h \/ freeing[t] = h
      BY <2>2 DEF Inv, NoneLost
    <3>2. Using(h) = {t}
      BY <2>1, <3>1 DEF Using, Inv, OneThread
    <3>. QED  BY <2>2, <3>2, FS_Singleton
  <2>3. CASE h \notin allocated
    BY <2>1, <2>3 DEF Using, Inv, Held
  <2>. QED  BY <2>2, <2>3
<1>. QED  BY <1>1, InvHolds, PTL

(* exception.cpp:139-195: no step writes to a handler that is with its      *)
(* allocator afterwards, but for a push whose callback disabled exceptions. *)
THEOREM FreedUntouchedHolds == Spec => FreedUntouched
<1>1. Inv /\ [Next]_vars =>
          [\A h \in Handlers :
               handler'[h] # handler[h] => h \in allocated' \/ LateWrite(h)]_exceptionVars
  <2>. SUFFICES ASSUME Inv, [Next]_vars, NEW h \in Handlers, handler'[h] # handler[h],
                       ~LateWrite(h)
                PROVE  h \in allocated'
    OBVIOUS
  <2>1. h # NULL
    BY ExceptionAssumption
  <2>2. PICK t \in Threads : StepOf(t)
    BY NextInv DEF handlerVars
  <2>3. h = tls'[t] /\ Inv'
    BY <2>2, NextInv DEF StepOf
  <2>. QED  BY <2>1, <2>3 DEF Inv, Held
<1>. QED  BY <1>1, InvHolds, PTL DEF Spec, FreedUntouched

(* thread_local_variable_base.cpp and exception.cpp: what a thread does     *)
(* leaves the slots of all others as they are, and their handlers too, but  *)
(* for a push whose callback disabled exceptions.                           *)
THEOREM OwnHandlerOnlyHolds == Spec => OwnHandlerOnly
<1>1. Inv /\ [Next]_vars =>
          [\A t \in Threads : tls[t] # NULL /\ actor' # t =>
               /\ tls'[t] = tls[t]
               /\ handler'[tls[t]] = handler[tls[t]] \/ LateWrite(tls[t])]_exceptionVars
  <2>. DEFINE Kept(t) ==
           tls'[t] = tls[t] /\ (handler'[tls[t]] = handler[tls[t]] \/ LateWrite(tls[t]))
  <2>. SUFFICES ASSUME Inv, [Next]_vars, NEW t \in Threads, tls[t] # NULL, actor' # t
                PROVE  Kept(t)
    OBVIOUS
  <2>1. CASE UNCHANGED handlerVars
    BY <2>1 DEF handlerVars
  <2>2. ASSUME NEW u \in Threads, StepOf(u)
        PROVE  Kept(t)
    <3>1. u # t /\ tls'[t] = tls[t]
      BY <2>2 DEF StepOf
    <3>2. tls'[u] # tls'[t]
      BY <3>1, NextInv DEF Inv, OneThread
    <3>3. tls[t] \in Handlers
      BY DEF Inv, HandlerTypes
    <3>. QED  BY <2>2, <3>1, <3>2, <3>3 DEF StepOf
  <2>. QED  BY <2>1, <2>2, NextInv
<1>. QED  BY <1>1, InvHolds, PTL DEF Spec, OwnHandlerOnly
=============================================================================
