----------------------------- MODULE MallocHook -----------------------------
(***************************************************************************)
(* memleak/typeHook/myHookLib.c: malloc and free of a preloaded library,   *)
(* which look the C library's up when they are first called.  The threads  *)
(* of the program call them at the same time, and nothing is locked.       *)
(***************************************************************************)
EXTENDS FiniteSets

CONSTANTS Threads,
          Libraries     \* which functions dlsym may find: sets of "malloc", "free"

VARIABLES found,        \* the functions dlsym finds
          gmalloc, gfree,   \* whether they are not NULL
          call,         \* what each thread has called, "none" outside
          pc,           \* its next step
          program       \* "runs", "exited", or "crashed" by a call of NULL

vars == <<found, gmalloc, gfree, call, pc, program>>

Init == /\ found \in Libraries
        /\ gmalloc = FALSE /\ gfree = FALSE
        /\ call = [t \in Threads |-> "none"]
        /\ pc = [t \in Threads |-> "outside"]
        /\ program = "runs"

At(t, l) == program = "runs" /\ pc[t] = l
Go(t, l) == pc' = [pc EXCEPT ![t] = l]

-----------------------------------------------------------------------------
(* malloc and free                                                          *)

CallMalloc(t) == /\ At(t, "outside")
                 /\ call' = [call EXCEPT ![t] = "malloc"]
                 /\ Go(t, IF gmalloc THEN "library" ELSE "init malloc")
                 /\ UNCHANGED <<found, gmalloc, gfree, program>>

\* Mutant: the other pointer is tested.
CallFreeTestsMalloc(t) == /\ At(t, "outside")
                          /\ call' = [call EXCEPT ![t] = "free"]
                          /\ Go(t, IF gmalloc THEN "library" ELSE "init malloc")
                          /\ UNCHANGED <<found, gmalloc, gfree, program>>

CallFree(t) == /\ At(t, "outside")
               /\ call' = [call EXCEPT ![t] = "free"]
               /\ Go(t, IF gfree THEN "library" ELSE "init malloc")
               /\ UNCHANGED <<found, gmalloc, gfree, program>>

\* gmalloc or gfree is called, and the call is printed.
Library(t) == /\ At(t, "library")
              /\ program' = (IF IF call[t] = "malloc" THEN gmalloc ELSE gfree
                             THEN program ELSE "crashed")
              /\ call' = [call EXCEPT ![t] = "none"]
              /\ Go(t, "outside")
              /\ UNCHANGED <<found, gmalloc, gfree>>

-----------------------------------------------------------------------------
(* hook_init                                                                *)

TestMalloc(t) == /\ At(t, "init malloc")
                 /\ Go(t, IF gmalloc THEN "init free" ELSE "dlsym malloc")
                 /\ UNCHANGED <<found, gmalloc, gfree, call, program>>

\* Without malloc the program exits.
LookUpMalloc(t) == /\ At(t, "dlsym malloc")
                   /\ gmalloc' = ("malloc" \in found)
                   /\ program' = (IF gmalloc' THEN program ELSE "exited")
                   /\ Go(t, "init free")
                   /\ UNCHANGED <<found, gfree, call>>

TestFree(t) == /\ At(t, "init free")
               /\ Go(t, IF gfree THEN "wrapped" ELSE "dlsym free")
               /\ UNCHANGED <<found, gmalloc, gfree, call, program>>

\* What is compared with NULL is free, this library's own function, and not gfree.
LookUpFree(t) == /\ At(t, "dlsym free")
                 /\ gfree' = ("free" \in found)
                 /\ Go(t, "wrapped")
                 /\ UNCHANGED <<found, gmalloc, call, program>>

\* "malloc and free successfully wrapped"
Wrapped(t) == /\ At(t, "wrapped")
              /\ Go(t, "library")
              /\ UNCHANGED <<found, gmalloc, gfree, call, program>>

HookInit(t) == TestMalloc(t) \/ LookUpMalloc(t) \/ TestFree(t) \/ LookUpFree(t) \/ Wrapped(t)
Next == \E t \in Threads : CallMalloc(t) \/ CallFree(t) \/ Library(t) \/ HookInit(t)

Spec == Init /\ [][Next]_vars
-----------------------------------------------------------------------------
\* Nothing is called before it was looked up, whichever threads are in hook_init
\* at the same time and however far they are.
NeverCallsNull == program # "crashed"
=============================================================================
