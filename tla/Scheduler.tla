------------------------------ MODULE Scheduler ------------------------------
(***************************************************************************)
(* What the threads of the library promise (src/compiler/library.scm):     *)
(* one thread runs, the others wait in a line.  A thread that spawns goes  *)
(* to the head of the line and its child runs; a thread that yields goes   *)
(* to the end of it; a thread that exits leaves.  The program after the    *)
(* first thread, the root, is entered once.                                *)
(***************************************************************************)
EXTENDS Naturals, Sequences

CONSTANTS Thread,    \* the threads
          First,     \* the first thread, which is the program itself
          None       \* no thread

VARIABLES ready,     \* the threads that wait, the next one to run first
          running,   \* the thread that runs
          born,      \* the threads there have been
          root       \* how often the rest of the program was entered

svars == <<ready, running, born, root>>

SInit == ready = <<>> /\ running = First /\ born = {} /\ root = 0

SStart ==
  /\ born = {} \/ (running = First /\ root = 1)
  /\ born' = born \cup {First}
  /\ running' = First
  /\ ready' = <<>>
  /\ root' = 0

SSpawn ==
  /\ running \in born
  /\ \E t \in Thread \ born :
       /\ born' = born \cup {t}
       /\ running' = t
  /\ ready' = <<running>> \o ready
  /\ root' = root

SYield ==
  /\ running \in born
  /\ ready # <<>>
  /\ running' = Head(ready)
  /\ ready' = Append(Tail(ready), running)
  /\ UNCHANGED <<born, root>>

SExit ==
  /\ running \in born
  /\ ready # <<>>
  /\ running' = Head(ready)
  /\ ready' = Tail(ready)
  /\ UNCHANGED <<born, root>>

\* The first thread ends, or the last of the others does.
SRoot ==
  /\ running \in born /\ root = 0
  /\ running = First \/ ready = <<>>
  /\ running' = First
  /\ root' = 1
  /\ UNCHANGED <<ready, born>>

SHalt == running = First /\ root = 1 /\ running' = None /\ UNCHANGED <<ready, born, root>>

SSpec == SInit /\ [][SStart \/ SSpawn \/ SYield \/ SExit \/ SRoot \/ SHalt]_svars
=============================================================================
