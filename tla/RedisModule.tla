----------------------------- MODULE RedisModule -----------------------------
(***************************************************************************)
(* The EXAMPLE.PARSE command of database/redis/module.  ParseCommand       *)
(* looks for SUM and then for PROD among its arguments and reads the two   *)
(* integers after the word it finds.  An argument is one of the two words, *)
(* some other text, or an integer that fits a long long of Bits bits.      *)
(***************************************************************************)
EXTENDS Integers, Sequences

CONSTANTS Bits,      \* width of a long long
          Arguments, \* what a client may send
          MaxArgs    \* bound: arguments after the name of the command

Long == -(2^(Bits - 1)) .. 2^(Bits - 1) - 1

\* Signed addition and multiplication as the machine does them (the overflow is
\* undefined in C, and nothing in the build traps it).
Wrap(v) == ((v + 2^(Bits - 1)) % 2^Bits) - 2^(Bits - 1)

IsLong(a) == a[1] = "long"

ASSUME RedisAssumption ==
  /\ Bits \in Nat \ {0} /\ MaxArgs \in Nat
  /\ \A a \in Arguments : IsLong(a) => a \in {"long"} \X Long

VARIABLES argv,    \* the arguments of the last call, the name of the command first
          reply    \* none, arity, invalid or <<"number", n>>

redisVars == <<argv, reply>>

RedisInit == argv = <<>> /\ reply = <<"none">>

\* Whether format letter c takes argument a: 'l' and 'd' want a number, 'c', 'b' and
\* 's' take any string, '*' skips one; other letters are refused.
Takes(c, a) == \/ c \in {"c", "b", "s", "*"}
               \/ c \in {"l", "d"} /\ IsLong(a)

\* Letters 1..k of fmt take the arguments i, i + 1, ... one by one.
Taken(args, i, fmt, k) ==
  \A j \in 1..k : i + j - 1 <= Len(args) /\ Takes(fmt[j], args[i + j - 1])

\* Mutant: letters that are left when the arguments end are no error.
vparseArgsLenient(args, i, fmt, out) ==
  [rc  |-> IF \A j \in 1..Len(fmt) :
                i + j - 1 <= Len(args) => Takes(fmt[j], args[i + j - 1])
           THEN "OK" ELSE "ERR",
   out |-> [k \in DOMAIN out |->
              IF Taken(args, i, fmt, k) THEN args[i + k - 1][2] ELSE out[k]]]

\* It is an error if a letter is refused, or if letters are left when the arguments
\* end; the variables of the letters before that have been written by then.  out[k] is
\* the variable of letter k (every letter in use has one: the only format is "ll").
vparseArgs(args, i, fmt, out) ==
  [rc  |-> IF Taken(args, i, fmt, Len(fmt)) THEN "OK" ELSE "ERR",
   out |-> [k \in DOMAIN out |->
              IF Taken(args, i, fmt, k) THEN args[i + k - 1][2] ELSE out[k]]]

\* The place of the first argument that is the word, 0 if there is none.
argIndex(arg, args) ==
  LET at == {i \in DOMAIN args : args[i] = arg}
  IN IF at = {} THEN 0 ELSE CHOOSE i \in at : \A j \in at : i <= j

parseArgsAfter(token, args, fmt, out) ==
  LET pos == argIndex(<<token>>, args)
  IN IF pos = 0 THEN [rc |-> "ERR", out |-> out]
     ELSE vparseArgs(args, pos + 1, fmt, out)

\* xy are the variables x and y, which nobody initializes: the attempt for PROD finds
\* there what the attempt for SUM left.
ParseCommand(args, xy) ==
  LET sum  == parseArgsAfter("SUM", args, <<"l", "l">>, xy)
      prod == parseArgsAfter("PROD", args, <<"l", "l">>, sum.out)
  IN IF Len(args) < 4 THEN <<"arity">>
     ELSE IF sum.rc = "OK" THEN <<"number", Wrap(sum.out[1] + sum.out[2])>>
     ELSE IF prod.rc = "OK" THEN <<"number", Wrap(prod.out[1] * prod.out[2])>>
     ELSE <<"invalid">>

\* A client sends the command with n arguments.
Command ==
  \E n \in 0..MaxArgs : \E a \in [1..n -> Arguments], xy \in [1..2 -> Long] :
    /\ argv' = <<<<"EXAMPLE.PARSE">>>> \o a
    /\ reply' = ParseCommand(argv', xy)

RedisSpec == RedisInit /\ [][Command]_redisVars
-----------------------------------------------------------------------------
\* Integers x and y follow the first occurrence of the word.
Operands(word, x, y) ==
  \E i \in DOMAIN argv :
    /\ argv[i] = <<word>> /\ \A j \in 1..i - 1 : argv[j] # <<word>>
    /\ i + 2 <= Len(argv) /\ argv[i + 1] = <<"long", x>> /\ argv[i + 2] = <<"long", y>>

\* A number is answered exactly when two integers follow the first SUM, or else the
\* first PROD, wherever the words stand, and it is the sum or product of those two,
\* wrapped to a long long: never of a value that a failed attempt for SUM, or nobody,
\* left in x or y (example.c:8-32, utils.h:7-49).
RepliesFollowFirstWord ==
  LET answers(word) == \E x, y \in Long : Operands(word, x, y)
  IN /\ reply = <<"invalid">> => ~answers("SUM") /\ ~answers("PROD")
     /\ reply[1] = "number" =>
          \E x, y \in Long :
            \/ Operands("SUM", x, y) /\ reply[2] = Wrap(x + y)
            \/ ~answers("SUM") /\ Operands("PROD", x, y) /\ reply[2] = Wrap(x * y)
==============================================================================
