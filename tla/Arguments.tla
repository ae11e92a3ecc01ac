------------------------------- MODULE Arguments -------------------------------
(***************************************************************************)
(* argument_stack (userprog/process.c): the strings of the command line,   *)
(* the pointers to them and a return address, pushed on the new user       *)
(* stack.  Only a string's length matters; character j of argument i is    *)
(* the number 10 * i + j, the zero at its end is 0.                        *)
(***************************************************************************)
EXTENDS Integers, Sequences

CONSTANTS
  ArgLengths,  \* the command lines to try: the lengths of their words
  UserStack,   \* the address the stack grows down from, a multiple of 8
  NULL

VARIABLES
  lens, argv,  \* argc and the words; argv[i] becomes an address
  rsp, stack,
  push         \* what is pushed next, and of which argument

argVars == <<lens, argv, rsp, stack, push>>

ArgsInit ==
  /\ lens \in ArgLengths
  /\ argv = [i \in 1..Len(lens) |-> NULL]
  /\ rsp = UserStack /\ stack = [a \in 0..(UserStack - 1) |-> -1]
  /\ push = [what |-> "string", i |-> Len(lens), j |-> lens[Len(lens)]]

Char(i, j) == IF j = lens[i] THEN 0 ELSE 10 * i + j

(* One character, the last one first. *)
PushChar ==
  /\ push.what = "string"
  /\ rsp' = rsp - 1
  /\ stack' = [stack EXCEPT ![rsp'] = Char(push.i, push.j)]
  /\ IF push.j > 0 THEN push' = [push EXCEPT !.j = @ - 1] /\ UNCHANGED argv
     ELSE /\ argv' = [argv EXCEPT ![push.i] = rsp']
          /\ push' = IF push.i > 1 THEN [push EXCEPT !.i = @ - 1, !.j = lens[push.i - 1]]
                     ELSE [push EXCEPT !.what = "pad"]
  /\ UNCHANGED lens

Pad == rsp % 8

PushPad ==
  /\ push.what = "pad"
  /\ rsp' = rsp - Pad
  /\ stack' = [a \in DOMAIN stack |-> IF a \in rsp'..(rsp - 1) THEN 0 ELSE stack[a]]
  /\ push' = [push EXCEPT !.what = "null"]
  /\ UNCHANGED <<lens, argv>>

(* The bytes of a pointer: 1000 + 10 times the address, and which byte.    *)
PtrByte(v, k) == IF v = 0 THEN 0 ELSE 1000 + 10 * v + k
PushWord(v) ==
  /\ rsp' = rsp - 8
  /\ stack' = [a \in DOMAIN stack |-> IF a \in rsp'..(rsp - 1) THEN PtrByte(v, a - rsp')
                                      ELSE stack[a]]
  /\ UNCHANGED <<lens, argv>>

PushNull ==
  push.what = "null" /\ PushWord(0) /\ push' = [push EXCEPT !.what = "argv", !.i = Len(lens)]
PushArgv ==
  /\ push.what = "argv" /\ PushWord(argv[push.i])
  /\ push' = IF push.i > 1 THEN [push EXCEPT !.i = @ - 1] ELSE [push EXCEPT !.what = "return"]
PushReturn ==
  push.what = "return" /\ PushWord(0) /\ push' = [push EXCEPT !.what = "done"]

ArgumentsNext == PushChar \/ PushPad \/ PushNull \/ PushArgv \/ PushReturn

ArgumentsSpec == ArgsInit /\ [][ArgumentsNext]_argVars

-------------------------------------------------------------------------------
PointerAt(a, v) == \A k \in 0..7 : stack[a + k] = PtrByte(v, k)
StringAt(a, i) == \A j \in 0..lens[i] : stack[a + j] = Char(i, j)

(* What a new program finds: rsp a multiple of 8 with a null return        *)
(* address, and from rsp + 8 on, the rsi it is given, a pointer to each    *)
(* word, whole and in order, and a null pointer.                           *)
ProgramFindsArguments ==
  push.what = "done" =>
    /\ rsp % 8 = 0 /\ PointerAt(rsp, 0)
    /\ \A i \in 1..Len(lens) :
         PointerAt(rsp + 8 * i, argv[i]) /\ argv[i] >= rsp /\ StringAt(argv[i], i)
    /\ PointerAt(rsp + 8 * (Len(lens) + 1), 0)
================================================================================
