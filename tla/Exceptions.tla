------------------------------ MODULE Exceptions ------------------------------
(***************************************************************************)
(* The exceptions of hologine: codes that are generated while the program  *)
(* starts, and a handler for each thread that enables them, which sits in  *)
(* a thread-local variable and comes from an allocator the threads share.  *)
(***************************************************************************)
EXTENDS Integers, FiniteSets, SequencesExt

CONSTANTS
    NULL,
    Threads,        \* the threads that call the library
    Handlers,       \* places where the allocator puts an exception_handler
    Callbacks,      \* methods of the program that are told of exceptions
    Units,          \* each source file's exceptions, in the order it has them
    MaxCodes,       \* max_exception_codes
    StackSize,      \* max_exception_stack_size
    PlatformCodes,  \* what GetLastError returns
    MaxPending      \* bound on the callbacks of a thread inside each other

Names == UNION {{u[i] : i \in DOMAIN u} : u \in Units}

ASSUME ExceptionAssumption ==
    /\ NULL \notin Threads \cup Handlers \cup Callbacks \cup Names
    /\ MaxCodes \in Nat /\ MaxCodes > 2
    /\ StackSize \in Nat \ {0, 1} /\ PlatformCodes \subseteq Nat
    /\ MaxPending \in Nat
    /\ {"index_out_of_range", "invalid_operation", "invalid_argument", "platform"}
           \subseteq Names

VARIABLES
    current_exception_code, exception_code_enumerations,
    codes,      \* the constants initialized so far, by name
    phase,      \* "startup", "running", or "faulted" by a call of a null callback
    slot,       \* the thread-local variable: has it a slot?
    tls,        \* and its value on each thread
    handler,    \* the memory of each handler
    allocated,  \* the handlers that are not with the allocator
    freeing,    \* the handler that a thread's disable_exceptions lets go
    pushing,    \* the calls of push_exception whose callback has not returned, the
                \* last one innermost: the handler each has read, what it will write
                \* there, and the object whose constructor or destructor it is in
    actor       \* history: the thread that ran last

generatorVars == <<current_exception_code, exception_code_enumerations, codes>>
handlerVars == <<slot, tls, handler, allocated, freeing, pushing>>
exceptionVars == <<generatorVars, phase, handlerVars, actor>>

Codes == 0..(MaxCodes - 1)
Node(code, platform) == [code |-> code, platform |-> platform]
NoNode == Node(0, 0)
Cleared == [stack |-> [i \in 1..StackSize |-> NoNode], top |-> 0, platform |-> 0,
            callback |-> NULL]

ExceptionTypeOK ==
    /\ current_exception_code \in 0..MaxCodes
    /\ exception_code_enumerations \in [Codes -> Names \cup {"none", NULL}]
    /\ DOMAIN codes \subseteq Names /\ \A n \in DOMAIN codes : codes[n] \in Codes
    /\ phase \in {"startup", "running", "faulted"}
    /\ slot \in BOOLEAN
    /\ tls \in [Threads -> Handlers \cup {NULL}]
    /\ \A h \in Handlers :
          /\ handler[h].stack \in [1..StackSize -> [code : Codes, platform : Nat]]
          /\ handler[h].top \in 0..(StackSize - 1)
          /\ handler[h].platform \in Nat
          /\ handler[h].callback \in Callbacks \cup {NULL}
    /\ allocated \subseteq Handlers
    /\ freeing \in [Threads -> Handlers \cup {NULL}]
    /\ \A t \in Threads :
          /\ Len(pushing[t]) <= MaxPending
          /\ \A i \in DOMAIN pushing[t] :
                /\ pushing[t][i].handler \in Handlers
                /\ pushing[t][i].node \in [code : Codes, platform : Nat]
    /\ actor \in Threads \cup {NULL}

\* The variable's constructor may find no slot left.
ExceptionInit ==
    /\ current_exception_code = 0
    /\ exception_code_enumerations = [c \in Codes |-> NULL]
    /\ codes = <<>>
    /\ phase = "startup"
    /\ slot \in BOOLEAN
    /\ tls = [t \in Threads |-> NULL]
    /\ handler = [h \in Handlers |-> Cleared]
    /\ allocated = {}
    /\ freeing = [t \in Threads |-> NULL]
    /\ pushing = [t \in Threads |-> <<>>]
    /\ actor = NULL

-----------------------------------------------------------------------------
(* Codes.                                                                   *)

is_initialized(current) == current < 1

Generator == [current |-> current_exception_code,
              names |-> exception_code_enumerations, codes |-> codes]

\* Both calls that use the codes initialize them when is_initialized is false.
Initialized(g) ==
    IF is_initialized(g.current) THEN g
    ELSE [g EXCEPT !.current = 1, !.names[0] = "none"]

generate_exception_code(g, name) ==
    LET i == Initialized(g)
    IN  [current |-> i.current + 1,
         names |-> [i.names EXCEPT ![i.current] = name],
         codes |-> [n \in DOMAIN i.codes \cup {name} |->
                       IF n = name THEN i.current ELSE i.codes[n]]]

GeneratorBecomes(g) ==
    /\ current_exception_code' = g.current
    /\ exception_code_enumerations' = g.names
    /\ codes' = g.codes

\* The constants of one source file, one after the other.
GenerateUnit(u) ==
    /\ phase = "startup"
    /\ \A i \in DOMAIN u : u[i] \notin DOMAIN codes
    /\ LET After[i \in 0..Len(u)] ==
               IF i = 0 THEN Generator
               ELSE generate_exception_code(After[i - 1], u[i])
       IN  GeneratorBecomes(After[Len(u)])
    /\ UNCHANGED <<phase, handlerVars, actor>>

Main ==
    /\ phase = "startup" /\ DOMAIN codes = Names
    /\ phase' = "running"
    /\ UNCHANGED <<generatorVars, handlerVars, actor>>

-----------------------------------------------------------------------------
(* The stack of a thread.                                                   *)

\* A thread that runs and is not inside disable_exceptions.
Acts(t) == phase = "running" /\ freeing[t] = NULL /\ actor' = t

Get(t) == IF slot THEN tls[t] ELSE NULL

\* Bug: the variable is the same on all threads.
SetEverywhere(t, value) == [u \in Threads |-> IF slot THEN value ELSE tls[u]]
Set(t, value) == IF slot THEN [tls EXCEPT ![t] = value] ELSE tls

\* The depth is compared with itself.
Full(h) == handler[h].top = handler[h].top

\* std::copy is given the first node alone and the place of the last one, which
\* the new node then overwrites.
Shifted(stack) == [stack EXCEPT ![StackSize] = stack[1]]
Pushed(h, node) ==
    IF Full(h)
    THEN [handler[h] EXCEPT !.stack = [Shifted(@) EXCEPT ![StackSize] = node],
                            !.platform = 0]
    ELSE [handler[h] EXCEPT !.stack[handler[h].top + 1] = node, !.top = @ + 1,
                            !.platform = 0]

\* push_exception, as a part of a call of thread t: the handler is read, and then
\* the program's callback is called, which may call anything.
push_exception(t, code, platform, object) ==
    LET h == Get(t)
    IN  /\ UNCHANGED handler
        /\ IF h = NULL THEN UNCHANGED <<phase, pushing>>
           ELSE IF handler[h].callback = NULL
           THEN phase' = "faulted" /\ UNCHANGED pushing
           ELSE /\ Len(pushing[t]) < MaxPending
                /\ pushing' = [pushing EXCEPT ![t] =
                      Append(@, [handler |-> h, node |-> Node(code, platform),
                                 object |-> object])]
                /\ UNCHANGED phase

\* The rest of push_exception: the handler that was read before is written to.
ReturnFromCallback(t) ==
    /\ Acts(t) /\ pushing[t] # <<>>
    /\ LET p == Last(pushing[t])
       IN  handler' = [handler EXCEPT ![p.handler] = Pushed(p.handler, p.node)]
    /\ pushing' = [pushing EXCEPT ![t] = Front(@)]
    /\ UNCHANGED <<generatorVars, phase, slot, tls, allocated, freeing>>

\* No constructor or destructor of the object waits for a callback.
Idle(object) ==
    \A t \in Threads : \A i \in DOMAIN pushing[t] : pushing[t][i].object # object

Popped(h) ==
    IF handler[h].top = 0 THEN [handler[h] EXCEPT !.platform = 0]
    ELSE [handler[h] EXCEPT !.top = @ - 1,
                            !.platform = handler[h].stack[handler[h].top].platform]

Push(t, name, platform) ==
    /\ Acts(t)
    /\ push_exception(t, codes[name], platform, NULL)
    /\ UNCHANGED <<generatorVars, slot, tls, allocated, freeing>>

GetLastException(t) ==
    /\ Acts(t)
    /\ handler' = IF Get(t) = NULL THEN handler
                  ELSE [handler EXCEPT ![Get(t)] = Popped(Get(t))]
    /\ UNCHANGED <<generatorVars, phase, slot, tls, allocated, freeing, pushing>>

\* The enumeration of a code; reading one initializes the codes once more.
GetEnumeration(t, code) ==
    /\ Acts(t)
    /\ GeneratorBecomes(Initialized(Generator))
    /\ IF code < 0 \/ code >= Initialized(Generator).current
       THEN push_exception(t, codes["index_out_of_range"], 0, NULL)
       ELSE UNCHANGED <<phase, handler, pushing>>
    /\ UNCHANGED <<slot, tls, allocated, freeing>>

-----------------------------------------------------------------------------
(* Enabling and disabling.                                                  *)

\* Bug: a handler is constructed whether or not the thread has one.
MustConstructAlways(t) == TRUE
MustConstruct(t) == Get(t) = NULL

EnableAgain(t, callback) ==
    /\ Acts(t) /\ slot /\ ~MustConstruct(t)
    /\ handler' = [handler EXCEPT ![Get(t)].callback = callback]
    /\ UNCHANGED <<generatorVars, phase, slot, tls, allocated, freeing, pushing>>

EnableFirst(t, callback) ==
    /\ Acts(t) /\ slot /\ MustConstruct(t)
    /\ \E h \in Handlers \ allocated :
          /\ allocated' = allocated \cup {h}
          /\ handler' = [handler EXCEPT ![h] = [Cleared EXCEPT !.callback = callback]]
          /\ tls' = Set(t, h)
    /\ UNCHANGED <<generatorVars, phase, slot, freeing, pushing>>

\* No slot, no allocator, or no memory.
EnableFails(t) ==
    /\ Acts(t)
    /\ ~slot \/ MustConstruct(t)
    /\ UNCHANGED <<generatorVars, phase, handlerVars>>

\* Bug: the thread's value is left for later.
SlotKept(t) == tls
SlotCleared(t) == Set(t, NULL)

\* The slot is cleared, and then the handler goes back to its allocator.
Disable(t) ==
    /\ Acts(t) /\ Get(t) # NULL
    /\ tls' = SlotCleared(t)
    /\ freeing' = [freeing EXCEPT ![t] = Get(t)]
    /\ UNCHANGED <<generatorVars, phase, slot, handler, allocated, pushing>>

DisableNothing(t) ==
    /\ Acts(t) /\ Get(t) = NULL
    /\ UNCHANGED <<generatorVars, phase, handlerVars>>

\* The handler is deallocated; an allocator that fails to pushes an exception
\* afterwards.
FinishDisable(t) ==
    /\ phase = "running" /\ freeing[t] # NULL
    /\ allocated' = allocated \ {freeing[t]}
    /\ freeing' = [freeing EXCEPT ![t] = NULL]
    /\ \/ UNCHANGED <<phase, handler, pushing>>
       \/ push_exception(t, codes["invalid_argument"], 0, NULL)
    /\ actor' = t
    /\ UNCHANGED <<generatorVars, slot, tls>>

ExceptionNext ==
    \/ \E u \in Units : GenerateUnit(u)
    \/ Main
    \/ \E t \in Threads :
          \/ \E name \in Names, platform \in PlatformCodes : Push(t, name, platform)
          \/ ReturnFromCallback(t)
          \/ GetLastException(t)
          \/ \E code \in -1..2 : GetEnumeration(t, code)
          \/ \E c \in Callbacks \cup {NULL} : EnableAgain(t, c) \/ EnableFirst(t, c)
          \/ EnableFails(t)
          \/ Disable(t) \/ DisableNothing(t) \/ FinishDisable(t)

-----------------------------------------------------------------------------
Using(h) == {t \in Threads : tls[t] = h \/ freeing[t] = h}

(* A handler is with exactly one thread from the moment it is constructed   *)
(* to the moment it is deallocated, and none is lost: enabling again only   *)
(* changes the callback, and a handler that is let go can be the next       *)
(* thread's at once.                                                        *)
HandlersAccounted ==
    \A h \in Handlers :
        IF h \in allocated THEN Cardinality(Using(h)) = 1 ELSE Using(h) = {}

\* This step is the rest of a push_exception whose callback has disabled exceptions:
\* the handler h that it writes to is no longer the one of its thread.
LateWrite(h) ==
    \E t \in Threads :
        ReturnFromCallback(t) /\ Last(pushing[t]).handler = h /\ tls[t] # h

(* Nobody writes to a handler that its allocator has again, although the    *)
(* allocator may itself push an exception while it takes the handler back,  *)
(* but for push_exception after a callback that disabled exceptions.        *)
FreedUntouched ==
    [][\A h \in Handlers :
          handler'[h] # handler[h] => h \in allocated' \/ LateWrite(h)]_exceptionVars

(* A call of one thread changes neither the slot of another thread nor,     *)
(* but for push_exception after a callback that disabled exceptions, the    *)
(* stack or the callback of its handler.                                    *)
OwnHandlerOnly ==
    [][\A t \in Threads : tls[t] # NULL /\ actor' # t =>
          /\ tls'[t] = tls[t]
          /\ handler'[tls[t]] = handler[tls[t]] \/ LateWrite(tls[t])]_exceptionVars

(* What the comment in disable_exceptions says: with the thread-local       *)
(* variable set to NULL the handler is disabled, and nothing is pushed to   *)
(* memory that its allocator has.                                           *)
DisabledUntouched ==
    [][\A h \in Handlers : handler'[h] # handler[h] => h \in allocated']_exceptionVars
=============================================================================
