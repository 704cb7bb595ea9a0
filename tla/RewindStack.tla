----------------------------- MODULE RewindStack -----------------------------
(***************************************************************************)
(* What state rewinding promises: a bounded stack of machine states.  A    *)
(* frame that records pushes the state it starts from and forgets the      *)
(* oldest when the stack is full; a frame that rewinds loads the youngest  *)
(* state and drops it, except that the last one is kept and loaded again   *)
(* and again.                                                              *)
(***************************************************************************)
EXTENDS Integers, Sequences

CONSTANTS States,  \* the machine states that can be saved
          Depth    \* how many are kept

VARIABLES running,  \* rewinding is enabled and has not failed
          stack,    \* the kept states, youngest last
          mach      \* the state of the machine

stackvars == <<running, stack, mach>>

Push(s, x) == LET t == Append(s, x)
              IN  IF Len(t) > Depth THEN Tail(t) ELSE t
Top(s) == s[Len(s)]
Pop(s) == IF Len(s) > 1 THEN SubSeq(s, 1, Len(s) - 1) ELSE s

StackInit == running = FALSE /\ stack = <<>> /\ mach \in States

\* By the player, or because a game is loaded.
Start == ~ running /\ running' = TRUE /\ mach' \in States /\ UNCHANGED stack

\* Stopped by the player, or by an error, which may have restored the youngest
\* state first.
Stop == /\ running /\ running' = FALSE
        /\ stack' = <<>>
        /\ mach' \in {mach} \cup {stack[i] : i \in DOMAIN stack \cap {Len(stack)}}

Record == /\ running
          /\ stack' = Push(stack, mach)
          /\ UNCHANGED <<running, mach>>

Rewind == /\ running /\ stack # <<>>
          /\ mach' = Top(stack)
          /\ stack' = Pop(stack)
          /\ UNCHANGED running

\* The machine moves on, whatever rewinding does.
Run == mach' \in States /\ UNCHANGED <<running, stack>>

StackNext == Start \/ Stop \/ Record \/ Rewind \/ Run
StackSpec == StackInit /\ [][StackNext]_stackvars
=============================================================================
