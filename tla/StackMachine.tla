---------------------------- MODULE StackMachine ----------------------------
(***************************************************************************)
(* The machine a compiled program believes it runs on (src/compiler/ir.rkt *)
(* and code-gen.rkt): the environment of a procedure is a sequence of      *)
(* slots, its arguments and its temporaries, in front of the closed        *)
(* variables of its closure; a call saves the frame of the caller in a     *)
(* continuation and a return brings back exactly that frame.  A frame is a *)
(* value: there are no cells behind it that anything else could share,     *)
(* free or overwrite.  Pairs, closures, strings and continuations are      *)
(* objects of a store without garbage.                                     *)
(*                                                                         *)
(* A continuation is used once: returning to it gives its frame back to    *)
(* the running procedure and leaves a spent object behind.                 *)
(***************************************************************************)
EXTENDS Objects, SequencesExt

CONSTANTS
  Entries,     \* the procedure entry points: their parameters, [params, rest]
  MaxSlots,    \* bound: the slots of a frame
  MaxArgs,     \* bound: the arguments of a call
  MaxIndex     \* bound: the index of a push-stack instruction

VARIABLES
  stack,       \* the slots of the running procedure, the top first
  closed,      \* its closed variables: a list of pairs
  temps,       \* how many of the slots are temporaries; the others are arguments
  cont,        \* the current continuation
  globals,     \* the global variables
  store,       \* the live objects, by their identity
  halted       \* has the machine stopped?

svars == <<stack, closed, temps, cont, globals, store, halted>>

GlobalVars == 0 .. 2 * Reserved - 1

SInit ==
  /\ stack = <<>> /\ closed = NIL /\ temps = 0
  /\ cont = NIL
  /\ globals = [i \in GlobalVars |-> NIL]
  /\ store = <<>>
  /\ halted = FALSE

machine == [stack |-> stack, closed |-> closed, temps |-> temps, cont |-> cont,
            globals |-> globals, store |-> store]

\* The values that machine m holds, from which its objects can be found.
Values(m) == ToSet(m.stack) \cup {m.closed, m.cont} \cup {m.globals[i] : i \in GlobalVars}

\* The machine goes on as m, without the objects that nothing leads to any more.
Become(m) ==
  /\ ~halted
  /\ \E n \in {m} :
       /\ Len(n.stack) <= MaxSlots
       /\ temps' = n.temps /\ cont' = n.cont /\ stack' = n.stack /\ closed' = n.closed
       /\ globals' = n.globals
       /\ store' = Restrict(n.store, Referred(n.store, Values(n)))
  /\ UNCHANGED halted

New(m) == Cell \ DOMAIN m.store
Add(m, id, o) ==
  [m EXCEPT !.store = [c \in {id} \cup DOMAIN @ |-> IF c = id THEN o ELSE @[c]]]
Drop(m, n) == [m EXCEPT !.stack = SubSeq(@, n + 1, Len(@)), !.temps = @ - n]
Put(m, v) == [m EXCEPT !.stack = <<v>> \o @, !.temps = @ + 1]
IsA(m, v, kind) == v \in DOMAIN m.store /\ m.store[v].kind = kind

-----------------------------------------------------------------------------
(***************************************************************************)
(* The instructions, each in the state m of the machine.                   *)
(***************************************************************************)
PushConstant(m) == Become(Put(m, NIL))

\* The slots are followed by the closed variables.
PushStack(m, n) ==
  LET i == n - Len(m.stack)
      next(v) == IF IsA(m, v, "pair") THEN m.store[v].cdr ELSE NIL
      at[j \in 0 .. i] == IF j = 0 THEN m.closed ELSE next(at[j - 1])
  IN \/ i < 0 /\ Become(Put(m, m.stack[n + 1]))
     \/ i >= 0 /\ IsA(m, at[i], "pair") /\ Become(Put(m, m.store[at[i]].car))

PushGlobal(m, i) == Become(Put(m, m.globals[i]))
SetGlobal(m, i) == m.temps > 0 /\ Become([Drop(m, 1) EXCEPT !.globals[i] = m.stack[1]])
Pop(m) == m.temps > 0 /\ Become(Drop(m, 1))

\* The arguments args, the last one first, that are no slots are gathered in a list.
Listed(args, entry) == Len(args) - Fixed(entry, Len(args))

\* The store s, where the first n of the arguments args are the list made of the objects ids.
Gathered(s, args, n, ids) ==
  LET cell(j) == Pair(args[j], IF j = 1 THEN NIL ELSE ids[j - 1])
      list == {ids[j] : j \in 1 .. n}
  IN [c \in list \cup DOMAIN s |-> IF c \in list THEN cell(CHOOSE j \in 1 .. n : ids[j] = c) ELSE s[c]]

\* The machine m that has entered a procedure.
Entered(m, args, entry, env, ids) ==
  LET n == Listed(args, entry)
      rest == IF entry.rest THEN <<IF n = 0 THEN NIL ELSE ids[n]>> ELSE <<>>
  IN [m EXCEPT !.stack = Reverse(SubSeq(args, n + 1, Len(args))) \o rest,
               !.closed = env, !.temps = 0, !.store = Gathered(@, args, n, ids)]

\* The lists of n new objects.
NewList(m, n) == {ids \in [1 .. n -> New(m)] : IsInjective(ids)}

\* Enter a procedure with the arguments args.
Enter(m, args, entry, env) ==
  \E ids \in NewList(m, Listed(args, entry)) : Become(Entered(m, args, entry, env, ids))

\* Enter a procedure, and save the frame m in a continuation.
SaveAndEnter(m, args, entry, env) ==
  \E ids \in NewList(m, Listed(args, entry)) :
    \E n \in {Entered(m, args, entry, env, ids)} :
      \E k \in Cell \ Referred(n.store, Values(m) \cup Values(n)) :
        Become([Add(n, k, Frame(m.stack, m.closed, m.temps, m.cont)) EXCEPT !.cont = k])

CallClosure(m, n) ==
  /\ m.temps > n /\ IsA(m, m.stack[1], "closure")
  /\ LET f == m.store[m.stack[1]]
     IN SaveAndEnter(Drop(m, n + 1), SubSeq(m.stack, 2, n + 1), f.entry, f.env)

JumpClosure(m, n) ==
  /\ m.temps > n /\ IsA(m, m.stack[1], "closure")
  /\ LET f == m.store[m.stack[1]] IN Enter(m, SubSeq(m.stack, 2, n + 1), f.entry, f.env)

\* A procedure that closes over nothing is called by its entry point, by calls that
\* all have as many arguments as it has parameters, none of them a rest argument.
Toplevel(n) == [params |-> n, rest |-> FALSE]
CallToplevel(m, n) ==
  m.temps >= n /\ SaveAndEnter(Drop(m, n), SubSeq(m.stack, 1, n), Toplevel(n), NIL)
JumpToplevel(m, n) ==
  m.temps >= n /\ Enter(m, SubSeq(m.stack, 1, n), Toplevel(n), NIL)

MakeClosure(m, entry) ==
  /\ m.temps > 0 /\ (m.stack[1] = NIL \/ IsA(m, m.stack[1], "pair"))
  /\ \E id \in New(m) : Become(Put(Drop(Add(m, id, Closure(m.stack[1], entry)), 1), id))

\* Give a value to a continuation: its frame is brought back, and it is spent.
Resume(m, k, v) ==
  LET f == m.store[k]
  IN Become([m EXCEPT !.stack = <<v>> \o f.stack, !.closed = f.closed, !.temps = f.temps + 1,
                      !.cont = f.parent, !.store[k] = Spent])

Return(m) == m.temps > 0 /\ IsA(m, m.cont, "cont") /\ Resume(m, m.cont, m.stack[1])
GetCont(m) == IsA(m, m.cont, "cont") /\ Become(Put(m, m.cont))
ReturnToCont(m) ==
  m.temps > 1 /\ IsA(m, m.stack[2], "cont") /\ Resume(m, m.stack[2], m.stack[1])

GraftToCont(m) ==
  /\ m.temps > 1 /\ IsA(m, m.stack[2], "cont") /\ IsA(m, m.stack[1], "closure")
  /\ LET f == m.store[m.stack[1]]
     IN Enter([m EXCEPT !.cont = m.stack[2]], <<>>, f.entry, f.env)

MakePair(m) ==
  /\ m.temps > 1
  /\ \E id \in New(m) : Become(Put(Drop(Add(m, id, Pair(m.stack[2], m.stack[1])), 2), id))

Car(m) ==
  m.temps > 0 /\ IsA(m, m.stack[1], "pair") /\ Become(Put(Drop(m, 1), m.store[m.stack[1]].car))
Cdr(m) ==
  m.temps > 0 /\ IsA(m, m.stack[1], "pair") /\ Become(Put(Drop(m, 1), m.store[m.stack[1]].cdr))
\* A string and the list it was made of, or that is made of it, are one.
ListToString(m) ==
  /\ m.temps > 0 /\ (m.stack[1] = NIL \/ IsA(m, m.stack[1], "pair"))
  /\ \E id \in New(m) : Become(Put(Drop(Add(m, id, Str(m.stack[1])), 1), id))
StringToList(m) ==
  m.temps > 0 /\ IsA(m, m.stack[1], "string") /\ Become(Put(Drop(m, 1), m.store[m.stack[1]].chars))

Test(m) == m.temps > 0 /\ Become(Put(Drop(m, 1), NIL))
SetCar(m) ==
  /\ m.temps > 1 /\ IsA(m, m.stack[2], "pair")
  /\ Become([Drop(m, 2) EXCEPT !.store[m.stack[2]].car = m.stack[1]])
SetCdr(m) ==
  /\ m.temps > 1 /\ IsA(m, m.stack[2], "pair")
  /\ Become([Drop(m, 2) EXCEPT !.store[m.stack[2]].cdr = m.stack[1]])

\* The program ends, or the memory of the virtual machine does not suffice.
Halt == ~halted /\ halted' = TRUE /\ UNCHANGED <<stack, closed, temps, cont, globals, store>>

SNext ==
  \E m \in {machine} :
     \/ Halt
     \/ PushConstant(m) \/ Pop(m) \/ Return(m) \/ GetCont(m) \/ ReturnToCont(m)
     \/ Car(m) \/ Cdr(m) \/ SetCar(m) \/ SetCdr(m) \/ Test(m)
     \/ ListToString(m) \/ StringToList(m)
     \/ \E n \in 0 .. MaxIndex : PushStack(m, n)
     \/ \E i \in GlobalVars : PushGlobal(m, i) \/ SetGlobal(m, i)
     \/ MakePair(m) \/ GraftToCont(m)
     \/ \E entry \in Entries : MakeClosure(m, entry)
     \/ \E n \in 0 .. MaxArgs :
          CallClosure(m, n) \/ JumpClosure(m, n) \/ CallToplevel(m, n) \/ JumpToplevel(m, n)

SSpec == SInit /\ [][SNext]_svars
=============================================================================
