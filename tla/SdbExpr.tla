------------------------------ MODULE SdbExpr ------------------------------
(***************************************************************************)
(* The expressions of the debuggers: what command p prints and what a      *)
(* watchpoint watches.  NEMU (monitor/sdb/expr.c) and the NPC's harness    *)
(* (csrc/main.cpp) hold the same code: eval splits a line of tokens at the *)
(* rightmost operator of the lowest precedence outside parentheses.        *)
(***************************************************************************)
EXTENDS Integers, Sequences, FiniteSets

CONSTANTS
  IntBits,        \* width of int32_t
  NrToken,        \* places in tokens[]
  Numeral,        \* numeral token |-> the number it denotes
  RegValue,       \* register token the machine knows |-> the value it holds
  Keyboards       \* bound: pairs of a set of tokens and a longest line of them

ASSUME SdbAssumption == IntBits \in Nat \ {0} /\ NrToken \in Nat

VARIABLES
  keyboard,       \* auxiliary: the tokens that may be typed, and how many
  tokens,         \* the line, by tokens
  answer          \* of expr(), once it has been called

sdbVars == <<keyboard, tokens, answer>>

Modulus == 2 ^ IntBits
ToInt(n) == ((n + Modulus \div 2) % Modulus) - Modulus \div 2

NoAnswer == [kind |-> "none", val |-> 0]
Refused == [kind |-> "refused", val |-> 0]
Trap == [kind |-> "trap", val |-> 0]          \* SIGFPE
ValueOf(n) == [kind |-> "value", val |-> n]

Flag(b) == IF b THEN 1 ELSE 0
Abs(n) == IF n < 0 THEN -n ELSE n
QuotientOf(a, b) ==                             \* C rounds towards zero
  LET q == Abs(a) \div Abs(b) IN IF (a < 0) = (b < 0) THEN q ELSE -q

\* The switch at the end of eval, on two values.  The overflow of a quotient is
\* undefined in C and traps on the x86 hosts.
Apply(op, a, b) ==
  CASE op = "+" -> ValueOf(ToInt(a + b))
    [] op = "-" -> ValueOf(ToInt(a - b))
    [] op = "*" -> ValueOf(ToInt(a * b))
    [] op = "/" -> IF b = 0 THEN Refused
                   ELSE IF ToInt(QuotientOf(a, b)) # QuotientOf(a, b) THEN Trap
                   ELSE ValueOf(QuotientOf(a, b))
    [] op = "==" -> ValueOf(Flag(a = b))
    [] op = "!=" -> ValueOf(Flag(a # b))
    [] op = "&&" -> ValueOf(Flag(a # 0 /\ b # 0))

\* Both operands are evaluated, the left one first.
Combine(op, x, y) ==
  IF x.kind # "value" THEN x ELSE IF y.kind # "value" THEN y ELSE Apply(op, x.val, y.val)

\* op_precedence
Prec(t) == CASE t = "&&" -> 0
             [] t \in {"==", "!="} -> 1
             [] t \in {"+", "-"} -> 2
             [] t \in {"*", "/"} -> 3
             [] OTHER -> -1

Operand(t) ==
  IF t \in DOMAIN Numeral THEN ValueOf(ToInt(Numeral[t]))     \* atoi
  ELSE IF t \in DOMAIN RegValue THEN ValueOf(ToInt(RegValue[t]))
  ELSE Refused

\* The rules of the lexer (expr.c:29) give each token one type.
ASSUME LexerAssumption ==
  \A t \in DOMAIN Numeral \cup DOMAIN RegValue : t \notin {"(", ")"} /\ Prec(t) = -1

\* Parentheses opened less parentheses closed in toks[p .. q].
Depth(toks, p, q) ==
  Cardinality({i \in p .. q : toks[i] = "("}) - Cardinality({i \in p .. q : toks[i] = ")"})

CheckParentheses(toks, p, q) ==
  /\ toks[p] = "(" /\ toks[q] = ")"
  /\ \A i \in p .. q - 1 : Depth(toks, p, i) # 0
  /\ Depth(toks, p, q) = 0

\* The operators the loop of eval looks at.
Candidates(toks, p, q) == {i \in p .. q : Prec(toks[i]) # -1 /\ Depth(toks, p, i) <= 0}

\* (bug: "<" for "<=", the leftmost of equals)
SplitAtLeftmost(toks, p, q) ==
  CHOOSE i \in Candidates(toks, p, q) :
    \A j \in Candidates(toks, p, q) :
      Prec(toks[i]) <= Prec(toks[j]) /\ (Prec(toks[i]) = Prec(toks[j]) => i <= j)
SplitAt(toks, p, q) ==
  CHOOSE i \in Candidates(toks, p, q) :
    \A j \in Candidates(toks, p, q) :
      Prec(toks[i]) <= Prec(toks[j]) /\ (Prec(toks[i]) = Prec(toks[j]) => i >= j)

\* p, q: the first and the last token of a part of the line.
Parts(toks) == (1 .. Len(toks) + 1) \X (0 .. Len(toks))
Eval(toks) ==
  LET eval[pq \in Parts(toks)] ==
        LET p == pq[1] q == pq[2] IN
        IF p > q THEN Refused
        ELSE IF p = q THEN Operand(toks[p])
        ELSE IF CheckParentheses(toks, p, q) THEN eval[<<p + 1, q - 1>>]
        ELSE IF Candidates(toks, p, q) = {} THEN Refused
        ELSE LET op == SplitAt(toks, p, q)
             IN Combine(toks[op], eval[<<p, op - 1>>], eval[<<op + 1, q>>])
  IN eval[<<1, Len(toks)>>]

\* expr
Expr(toks) == IF Len(toks) > NrToken THEN Refused ELSE Eval(toks)

-----------------------------------------------------------------------------
SdbInit == keyboard \in Keyboards /\ tokens = <<>> /\ answer = NoAnswer

TypeToken ==
  /\ answer = NoAnswer /\ Len(tokens) < keyboard[2]
  /\ \E t \in keyboard[1] : tokens' = Append(tokens, t)
  /\ UNCHANGED <<keyboard, answer>>

\* Command p with the line as its argument; without one it explains itself.
CmdP ==
  /\ answer = NoAnswer /\ tokens # <<>>
  /\ answer' = Expr(tokens)
  /\ UNCHANGED <<keyboard, tokens>>

\* A trap has ended the debugger.
NextPrompt ==
  /\ answer \notin {NoAnswer, Trap} /\ tokens' = <<>> /\ answer' = NoAnswer
  /\ UNCHANGED keyboard

SdbNext == TypeToken \/ CmdP \/ NextPrompt

SdbSpec == SdbInit /\ [][SdbNext]_sdbVars

-----------------------------------------------------------------------------
CombineAll(op, X, Y) == {Combine(op, x, y) : x \in X, y \in Y}

\* The grammar of C for these operators, one level per precedence, each
\* associating to the left: all the meanings of a line, were it ambiguous.
Meanings(toks) ==
  LET meaning[lpq \in (0 .. 4) \X Parts(toks)] ==
        LET l == lpq[1] p == lpq[2][1] q == lpq[2][2] IN
        IF l = 4
        THEN {Operand(toks[i]) : i \in {j \in {p} : p = q /\ toks[j] \notin {"(", ")"} /\ Prec(toks[j]) = -1}}
             \cup (IF q > p + 1 /\ toks[p] = "(" /\ toks[q] = ")" THEN meaning[<<0, <<p + 1, q - 1>>>>] ELSE {})
        ELSE meaning[<<l + 1, <<p, q>>>>] \cup
             UNION {CombineAll(toks[k], meaning[<<l, <<p, k - 1>>>>], meaning[<<l + 1, <<k + 1, q>>>>]) :
                      k \in {i \in p + 1 .. q - 1 : Prec(toks[i]) = l}}
  IN meaning[<<0, <<1, Len(toks)>>>>]

\* A line is answered as gen-expr.c has the C compiler answer it: with the
\* value of its one meaning, or refused if it has none, for any line the token
\* buffer holds (expr.c:191, unbalanced parentheses included) -- except that a
\* quotient may overflow before the end of a meaningless line is looked at.
AnswersAsC ==
  answer # NoAnswer =>
    IF Len(tokens) > NrToken THEN answer = Refused
    ELSE IF Meanings(tokens) = {} THEN answer \in {Refused, Trap}
    ELSE Meanings(tokens) = {answer}
=============================================================================
