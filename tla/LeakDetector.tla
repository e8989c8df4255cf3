---------------------------- MODULE LeakDetector ----------------------------
(***************************************************************************)
(* memleak/typeMacroDefine/main.c: malloc and free as macros that keep a   *)
(* file for every block, named after its address, in a directory that      *)
(* outlives the program.  What is left in the directory is what leaked.    *)
(* The program that uses them allocates and frees in any order, frees      *)
(* twice, ends at any moment and is started again.                         *)
(***************************************************************************)
EXTENDS Naturals

CONSTANTS Addresses,    \* the addresses that the C library hands out
          Nil           \* NULL

ASSUME DetectorAssumption == Nil \notin Addresses

VARIABLES files,    \* what the file of an address says: "[+]", "[-]" or "none"
          store,    \* whether the directory exists
          live,     \* the blocks the C library has handed out
          ptrs,     \* the pointers the program has
          frees,    \* history: how often each was freed since it was handed out
          said,     \* what the last free has printed, and of which pointer
          cleaned,  \* history: the directory was removed before this run
          program   \* "runs", "ended", or "undefined" after a second free of libc's

vars == <<files, store, live, ptrs, frees, said, cleaned, program>>

Pointers == Addresses \cup {Nil}
NoFiles == [a \in Pointers |-> "none"]
Quiet == <<"", Nil>>

\* A directory that was never there, or with what is left of some other program.
Init == /\ files \in [Pointers -> {"none", "[+]", "[-]"}]
        /\ store \in BOOLEAN
        /\ ~store => files = NoFiles
        /\ cleaned = FALSE
        /\ live = {} /\ ptrs = {Nil} /\ frees = [a \in Pointers |-> 0]
        /\ said = Quiet /\ program = "ended"

\* The program is started, over the directory as it is or without one.
Start == /\ program # "runs"
         /\ live' = {} /\ ptrs' = {Nil} /\ frees' = [a \in Pointers |-> 0]
         /\ \/ cleaned' = TRUE /\ files' = NoFiles /\ store' = FALSE
            \/ cleaned' = FALSE /\ UNCHANGED <<files, store>>
         /\ said' = Quiet /\ program' = "runs"

\* The program returns or is killed.
End == /\ program = "runs"
       /\ program' = "ended"
       /\ UNCHANGED <<files, store, live, ptrs, frees, said, cleaned>>

-----------------------------------------------------------------------------
(* my_malloc                                                                *)

\* Mutant: a file that could not be opened is not written, and the block is used.
MallocUnrecorded(a) ==
    /\ program = "runs" /\ a \in Addresses \ live
    /\ live' = live \cup {a} /\ ptrs' = ptrs \cup {a}
    /\ frees' = [frees EXCEPT ![a] = 0]
    /\ store' = TRUE
    /\ files' = [files EXCEPT ![a] = "[+]"] \/ UNCHANGED files
    /\ said' = Quiet
    /\ UNCHANGED <<cleaned, program>>

\* The C library may hand out an address again that was freed.
Malloc(a) == /\ program = "runs" /\ a \in Addresses \ live
             /\ live' = live \cup {a} /\ ptrs' = ptrs \cup {a}
             /\ frees' = [frees EXCEPT ![a] = 0]
             /\ store' = TRUE
             /\ files' = [files EXCEPT ![a] = "[+]"]
             /\ said' = Quiet
             /\ UNCHANGED <<cleaned, program>>

\* No memory: the directory is made all the same.
MallocFails == /\ program = "runs"
               /\ store' = TRUE /\ said' = Quiet
               /\ UNCHANGED <<files, live, ptrs, frees, program, cleaned>>

\* The directory cannot be made, or the file in it: fwrite(NULL) ends the program.
MallocCrashes == /\ program = "runs"
                 /\ store' \in {store, TRUE}
                 /\ program' = "ended"
                 /\ UNCHANGED <<files, live, ptrs, frees, said, cleaned>>

-----------------------------------------------------------------------------
(* my_free                                                                  *)

FreedOnceMore(a) == frees' = [frees EXCEPT ![a] = IF @ < 2 THEN @ + 1 ELSE @]

\* Without the directory nothing is freed.
FreeRefused(a) == /\ program = "runs" /\ a \in ptrs /\ ~store
                  /\ said' = <<"Please Check", a>>
                  /\ UNCHANGED <<files, store, live, ptrs, frees, program, cleaned>>

\* Mutant: the file is marked, not removed.
FreeMarks(a) ==
    /\ program = "runs" /\ a \in ptrs /\ store
    /\ files[a] # "none"
    /\ files' = [files EXCEPT ![a] = "[-]"]
    /\ program' = (IF a \in live \cup {Nil} THEN program ELSE "undefined")
    /\ live' = live \ {a}
    /\ FreedOnceMore(a)
    /\ said' = Quiet
    /\ UNCHANGED <<store, ptrs, cleaned>>

\* There is a file: it is removed, and the C library frees the block.
Free(a) == /\ program = "runs" /\ a \in ptrs /\ store
           /\ files[a] # "none"
           /\ files' = [files EXCEPT ![a] = "none"]
           /\ program' = (IF a \in live \cup {Nil} THEN program ELSE "undefined")
           /\ live' = live \ {a}
           /\ FreedOnceMore(a)
           /\ said' = Quiet
           /\ UNCHANGED <<store, ptrs, cleaned>>

\* There is none: "Double Free Error", and a file that says so.
FreeReported(a) == /\ program = "runs" /\ a \in ptrs /\ store
                   /\ files[a] = "none"
                   /\ files' = [files EXCEPT ![a] = "[-]"]
                   /\ FreedOnceMore(a)
                   /\ said' = <<"Double Free Error", a>>
                   /\ UNCHANGED <<store, live, ptrs, program, cleaned>>

\* The same, and its file cannot be opened.
FreeCrashes(a) == /\ program = "runs" /\ a \in ptrs /\ store
                  /\ files[a] = "none"
                  /\ said' = <<"Double Free Error", a>>
                  /\ program' = "ended"
                  /\ UNCHANGED <<files, store, live, ptrs, frees, cleaned>>

Next == \/ Start \/ End \/ MallocFails \/ MallocCrashes
        \/ \E a \in Addresses : Malloc(a)
        \/ \E a \in Pointers : FreeRefused(a) \/ Free(a) \/ FreeReported(a) \/ FreeCrashes(a)

Spec == Init /\ [][Next]_vars
-----------------------------------------------------------------------------
\* There is no file without the directory.
TypeOK == /\ files \in [Pointers -> {"none", "[+]", "[-]"}]
          /\ store \in BOOLEAN /\ (~store => files = NoFiles)
          /\ live \subseteq Addresses /\ Nil \in ptrs /\ ptrs \subseteq Pointers
          /\ frees \in [Pointers -> 0..2]
          /\ said \in {"", "Please Check", "Double Free Error"} \X Pointers
          /\ cleaned \in BOOLEAN
          /\ program \in {"runs", "ended", "undefined"}

\* Every block that leaks is reported, whatever earlier runs have left in the
\* directory: a block that was not freed has a file that says it was allocated.
LeaksReported == program # "undefined" => \A a \in live : files[a] = "[+]"

\* A block that is freed for the second time in a row is reported, and does not
\* reach the C library, also when an earlier run has left a file of its address.
SecondFreeReported ==
    [][\A a \in Addresses : frees[a] = 1 /\ frees'[a] = 2
          => said' = <<"Double Free Error", a>> /\ program' = "runs"]_vars

\* Over a directory of its own a run reports nothing that did not leak.
OnlyLeaksReported == program = "runs" /\ cleaned =>
                        \A a \in Pointers : files[a] = "[+]" => a \in live

\* The files tell what leaks: all of it, and nothing else where nobody else's
\* files are.
FilesTellLeaks == LeaksReported /\ OnlyLeaksReported
=============================================================================
