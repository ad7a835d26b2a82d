------------------------------- MODULE Threads -------------------------------
(***************************************************************************)
(* holo::thread: objects that create platform threads, start them and wait *)
(* for them, as their flags allow; errors are exceptions of the caller.    *)
(* Platform threads are created suspended and keep the address of the      *)
(* object's argument.  CloseHandle and the callback's return are not       *)
(* reached: join only waits for threads that were started.                 *)
(***************************************************************************)
EXTENDS Exceptions

CONSTANTS
    Objects,   \* places where the program constructs thread objects
    MaxThreads \* bound on the platform threads created

ASSUME ThreadAssumption == NULL \notin Objects /\ MaxThreads \in Nat

VARIABLES
    argument,  \* the thread_argument of each object, and whether the object lives
    platform   \* the platform threads: the object whose argument each has, and
               \* whether it was resumed

threadVars == <<argument, platform>>
vars == <<exceptionVars, threadVars>>

Flags == {"enable_exceptions", "created", "invalid", "started", "exited"}
Argument(callback) ==
    [live |-> TRUE, callback |-> callback, flags |-> {}, allocator |-> FALSE]
Dead == [Argument(FALSE) EXCEPT !.live = FALSE]

TypeOK ==
    /\ ExceptionTypeOK
    /\ argument \in [Objects -> [live : BOOLEAN, callback : BOOLEAN,
                                 flags : SUBSET Flags, allocator : BOOLEAN]]
    /\ Len(platform) <= MaxThreads
    /\ \A i \in DOMAIN platform :
          platform[i] \in [object : Objects, resumed : BOOLEAN]

Init ==
    /\ ExceptionInit
    /\ argument = [o \in Objects |-> Dead]
    /\ platform = <<>>

Flag(o, flag) == flag \in argument[o].flags
is_valid(o) == ~Flag(o, "invalid")

\* What the caller's exceptions become, and nothing else.
Raise(t, name, code, object) ==
    /\ push_exception(t, codes[name], code, object)
    /\ UNCHANGED <<generatorVars, slot, tls, allocated, freeing>>
RaiseNothing == UNCHANGED <<generatorVars, phase, handlerVars>>

\* Created suspended.
Suspended(o) == [object |-> o, resumed |-> FALSE]

\* create_thread, which may fail; the object keeps none of its results.
CreateThread(t, o, object) ==
    \/ /\ Len(platform) < MaxThreads
       /\ platform' = Append(platform, Suspended(o))
       /\ RaiseNothing
    \/ /\ \E code \in PlatformCodes : Raise(t, "platform", code, object)
       /\ UNCHANGED platform

\* The argument of a new object.
Constructed(callback) == Argument(callback)

ConstructEmpty(t, o) ==
    /\ Acts(t) /\ ~argument[o].live
    /\ argument' = [argument EXCEPT ![o] = Constructed(FALSE)]
    /\ RaiseNothing /\ UNCHANGED platform

Construct(t, o) ==
    /\ Acts(t) /\ ~argument[o].live
    /\ argument' = [argument EXCEPT ![o] = Constructed(TRUE)]
    /\ CreateThread(t, o, o)

ConstructNull(t, o) ==
    /\ Acts(t) /\ ~argument[o].live
    /\ argument' = [argument EXCEPT ![o] = Constructed(FALSE)]
    /\ Raise(t, "invalid_argument", 0, o) /\ UNCHANGED platform

MayStart(o) == is_valid(o) /\ ~Flag(o, "started") /\ Flag(o, "created")

\* run_thread resumes the thread of the handle, which is the last one created.
Resumed(o) ==
    LET own == {i \in DOMAIN platform : platform[i].object = o}
    IN  IF own = {} THEN platform
        ELSE [platform EXCEPT
                 ![CHOOSE i \in own : \A j \in own : j <= i].resumed = TRUE]

Start(t, o) ==
    /\ Acts(t) /\ argument[o].live
    /\ IF MayStart(o) THEN RaiseNothing ELSE Raise(t, "invalid_operation", 0, NULL)
    /\ platform' = IF MayStart(o) THEN Resumed(o) ELSE platform
    /\ UNCHANGED argument

\* start with a callback creates the thread and does not run it.
StartWithRefused(o) == ~is_valid(o) \/ Flag(o, "created")
StartWith(t, o) ==
    /\ Acts(t) /\ argument[o].live
    /\ IF StartWithRefused(o)
       THEN Raise(t, "invalid_operation", 0, NULL) /\ UNCHANGED threadVars
       ELSE /\ argument' = [argument EXCEPT ![o].callback = TRUE]
            /\ CreateThread(t, o, NULL)

StartWithNull(t, o) ==
    /\ Acts(t) /\ argument[o].live
    /\ Raise(t, IF StartWithRefused(o) THEN "invalid_operation" ELSE "invalid_argument", 0, NULL)
    /\ UNCHANGED threadVars

\* join waits for a thread that was started; any other is refused.
JoinRefused(o) == ~is_valid(o) \/ ~Flag(o, "started")
Join(t, o) ==
    /\ Acts(t) /\ argument[o].live /\ JoinRefused(o)
    /\ Raise(t, "invalid_operation", 0, NULL)
    /\ UNCHANGED threadVars

\* Both setters look for an object that is not valid and was not started.
MaySet(o) == is_valid(o) \/ Flag(o, "started")
SetArgument(t, o, changed) ==
    /\ Acts(t) /\ argument[o].live
    /\ IF MaySet(o) THEN RaiseNothing ELSE Raise(t, "invalid_operation", 0, NULL)
    /\ argument' = IF MaySet(o) THEN [argument EXCEPT ![o] = changed] ELSE argument
    /\ UNCHANGED platform

SetExceptionsFlag(t, o, enable) ==
    SetArgument(t, o,
        [argument[o] EXCEPT !.flags = IF enable THEN @ \cup {"enable_exceptions"}
                                      ELSE @ \ {"enable_exceptions"}])
SetAllocator(t, o, given) ==
    SetArgument(t, o, [argument[o] EXCEPT !.allocator = given])

\* The destructor joins, which is refused.
Destroy(t, o) ==
    /\ Acts(t) /\ argument[o].live
    /\ IF Flag(o, "exited") THEN RaiseNothing ELSE Raise(t, "invalid_operation", 0, o)
    /\ argument' = [argument EXCEPT ![o] = Dead]
    /\ UNCHANGED platform

Next ==
    \/ ExceptionNext /\ UNCHANGED threadVars
    \/ \E t \in Threads, o \in {p \in Objects : Idle(p)} :
          \/ ConstructEmpty(t, o) \/ Construct(t, o) \/ ConstructNull(t, o)
          \/ Start(t, o) \/ StartWith(t, o) \/ StartWithNull(t, o)
          \/ Join(t, o)
          \/ \E b \in BOOLEAN : SetExceptionsFlag(t, o, b) \/ SetAllocator(t, o, b)
          \/ Destroy(t, o)

Spec == Init /\ [][Next]_vars
=============================================================================
