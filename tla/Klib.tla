-------------------------------- MODULE Klib --------------------------------
(***************************************************************************)
(* The C library of programs on the abstract machine (klib): string.c,     *)
(* stdio.c and the heap of stdlib.c.  It is sequential: a call maps a      *)
(* memory to a memory and a result.  A run makes one call on any memory,   *)
(* with any arguments for which C defines it, or a series of mallocs.      *)
(***************************************************************************)
EXTENDS Integers, SequencesExt

CONSTANTS
  MemSize, Byte,     \* memory: 0 .. MemSize - 1, of these bytes, 0 among them
  Ints,              \* bound: the ints printed
  IntMax,            \* 2^31 - 1
  BufSize,           \* 4096, of vsnprintf's buf
  Digit,             \* 0 .. 15 |-> the character of that digit
  Minus, LetterX, Space,
  HeapStart,         \* heap.start
  HeapSize,          \* heap.end - heap.start
  AddrSpace,         \* 2^32
  AlignTo,           \* 8
  MaxBlocks          \* bound: calls of malloc

ASSUME KlibAssumption ==
  /\ MemSize \in Nat /\ 0 \in Byte /\ Byte \subseteq Nat
  /\ {IntMax, BufSize} \subseteq Nat /\ Ints \subseteq -IntMax - 1 .. IntMax
  /\ {HeapSize, MaxBlocks, AddrSpace} \subseteq Nat /\ {HeapStart, AlignTo} \subseteq Nat \ {0}
  /\ HeapStart + HeapSize < AddrSpace
  /\ HeapStart % AlignTo = 0 /\ AddrSpace % AlignTo = 0
  /\ Space # 0 /\ \A v \in 0 .. 9 : Digit[v] # 0

VARIABLES
  mem,               \* the bytes in reach of the call
  call,              \* the function and its arguments, or NoCall
  ret,               \* <<what it returned>>, <<>> before
  addr,              \* malloc's addr, 0 before its first call
  blocks             \* auxiliary: what malloc returned, and the sizes asked for

stringVars == <<mem, call, ret>>
heapVars == <<addr, blocks>>
klibVars == <<stringVars, heapVars>>

Addr == 0 .. MemSize - 1

-----------------------------------------------------------------------------
(* What a caller may rely on: the memory as sequences of bytes.            *)
Bytes(m, a, n) == [i \in 1 .. n |-> m[a + i - 1]]
Ends(m, a) == {n \in 0 .. MemSize - 1 - a : m[a + n] = 0}
IsString(m, a) == Ends(m, a) # {}
StrLen(m, a) == CHOOSE n \in Ends(m, a) : \A k \in Ends(m, a) : n <= k   \* strlen
Str(m, a) == Bytes(m, a, StrLen(m, a))
Put(m, a, s) == [x \in Addr |-> IF x \in a .. a + Len(s) - 1 THEN s[x - a + 1] ELSE m[x]]
Take(s, n) == SubSeq(s, 1, IF n < Len(s) THEN n ELSE Len(s))
Sign(n) == IF n < 0 THEN -1 ELSE IF n > 0 THEN 1 ELSE 0

\* -1, 0 or 1 as s comes before, is or comes after t in the dictionary.
Before(s, t) ==
  \E k \in 1 .. Len(t) :
    /\ \A i \in 1 .. k - 1 : i <= Len(s) /\ s[i] = t[i]
    /\ k <= Len(s) => s[k] < t[k]
Compare(s, t) == IF Before(s, t) THEN -1 ELSE IF Before(t, s) THEN 1 ELSE 0

Power(base, k) == LET power[i \in 0 .. k] == IF i = 0 THEN 1 ELSE base * power[i - 1] IN power[k]

\* The digit of 10^k or 16^k counted from the left, by position.
NumeralOf(n, base) ==
  LET len == CHOOSE l \in 1 .. n + 1 : n < Power(base, l) /\ (l = 1 \/ n >= Power(base, l - 1))
  IN [i \in 1 .. len |-> Digit[(n \div Power(base, len - i)) % base]]

\* The number a series of decimal digits denotes, by position.
DigitValue(c) == IF \E v \in 0 .. 9 : Digit[v] = c THEN CHOOSE v \in 0 .. 9 : Digit[v] = c ELSE -1
Denoted(s) ==
  LET sum[i \in 0 .. Len(s)] ==
        IF i = 0 THEN 0 ELSE sum[i - 1] + DigitValue(s[i]) * Power(10, Len(s) - i)
  IN sum[Len(s)]
Printed(v) == IF v < 0 THEN <<Minus>> \o NumeralOf(-v, 10) ELSE NumeralOf(v, 10)
PrintedPtr(p) == <<Digit[0], LetterX>> \o NumeralOf(p, 16)

-----------------------------------------------------------------------------
(* string.c: its loops over memory.                                        *)
CopyUp(m, d, s, n) ==
  LET after[i \in 0 .. n] ==
        IF i = 0 THEN m ELSE [after[i - 1] EXCEPT ![d + i - 1] = after[i - 1][s + i - 1]]
  IN after[n]
CopyDown(m, d, s, n) ==
  LET after[i \in 0 .. n] ==
        IF i = 0 THEN m ELSE [after[i - 1] EXCEPT ![d + n - i] = after[i - 1][s + n - i]]
  IN after[n]
Fill(m, d, b, n) == [x \in Addr |-> IF x \in d .. d + n - 1 THEN b ELSE m[x]]

MemmoveAlwaysUp(m, d, s, n) == CopyUp(m, d, s, n)             \* (bug: one direction)
Memmove(m, d, s, n) ==
  IF d < s THEN CopyUp(m, d, s, n) ELSE IF d > s THEN CopyDown(m, d, s, n) ELSE m

Strcpy(m, d, s) == CopyUp(m, d, s, StrLen(m, s) + 1)
Strncpy(m, d, s, n) ==
  LET copied == IF IsString(m, s) /\ StrLen(m, s) < n THEN StrLen(m, s) ELSE n
  IN Fill(CopyUp(m, d, s, copied), d + copied, 0, n - copied)
Strcat(m, d, s) == CopyUp(m, d + StrLen(m, d), s, StrLen(m, s) + 1)

\* strncmp, and strcmp with no bound: the first difference, or the end.
Strncmp(m, a, b, n) ==
  LET cmp[i \in Nat] ==
        IF i = n THEN 0
        ELSE IF m[a + i] # m[b + i] THEN m[a + i] - m[b + i]
        ELSE IF m[a + i] = 0 THEN 0 ELSE cmp[i + 1]
  IN cmp[0]
Strcmp(m, a, b) ==
  LET cmp[i \in Nat] ==
        IF m[a + i] = 0 \/ m[b + i] = 0 \/ m[a + i] # m[b + i] THEN m[a + i] - m[b + i]
        ELSE cmp[i + 1]
  IN cmp[0]
Memcmp(m, a, b, n) ==
  LET cmp[i \in Nat] ==
        IF i = n THEN 0
        ELSE IF m[a + i] # m[b + i] THEN m[a + i] - m[b + i] ELSE cmp[i + 1]
  IN cmp[0]

-----------------------------------------------------------------------------
(* stdio.c and atoi: digits are found from the last one.                   *)
DigitsOf(n, base) ==
  LET digits[k \in 0 .. n] ==
        IF k = 0 THEN <<>> ELSE Append(digits[k \div base], Digit[k % base])
  IN IF n = 0 THEN <<Digit[0]>> ELSE digits[n]

\* vsprintf of "%d", "%s" and "%p".
Vsprintf(m, conv, v) ==
  CASE conv = "%d" -> IF v < 0 THEN <<Minus>> \o DigitsOf(-v, 10) ELSE DigitsOf(v, 10)
    [] conv = "%s" -> Str(m, v)
    [] conv = "%p" -> <<Digit[0], LetterX>> \o DigitsOf(v, 16)

Vsnprintf(m, out, n, s) ==
  LET count == IF Len(s) + 1 < n THEN Len(s) ELSE n - 1
  IN [x \in Addr |-> IF n # 0 /\ x = out + count THEN 0
                     ELSE IF x \in out .. out + count - 1 THEN s[x - out + 1] ELSE m[x]]

\* Leading spaces, then digits up to something else.
SkipOver(m, a, bytes) ==
  CHOOSE b \in a .. MemSize - 1 : m[b] \notin bytes /\ \A x \in a .. b - 1 : m[x] \in bytes
Atoi(m, s) ==
  LET first == SkipOver(m, s, {Space})
      last == SkipOver(m, first, {Digit[v] : v \in 0 .. 9})
      value[a \in first .. last] ==
        IF a = first THEN 0 ELSE value[a - 1] * 10 + DigitValue(m[a - 1])
  IN value[last]

-----------------------------------------------------------------------------
Within(a, n) == a + n <= MemSize
Apart(a, n, b, k) == a + n <= b \/ b + k <= a

\* C defines the call, and the text printed fits in buf.
Defined(m, c) ==
  CASE c.fn = "memset" -> Within(c.d, c.n) /\ c.s \in Byte
    [] c.fn \in {"memmove", "memcmp"} -> Within(c.d, c.n) /\ Within(c.s, c.n)
    [] c.fn = "memcpy" -> Within(c.d, c.n) /\ Within(c.s, c.n) /\ Apart(c.d, c.n, c.s, c.n)
    [] c.fn = "strlen" -> IsString(m, c.s) /\ c.d = 0 /\ c.n = 0
    [] c.fn = "atoi" -> IsString(m, c.s) /\ c.d = 0 /\ c.n = 0 /\ Atoi(m, c.s) <= IntMax
    [] c.fn = "strcmp" -> IsString(m, c.d) /\ IsString(m, c.s) /\ c.n = 0
    [] c.fn = "strncmp" -> \A a \in {c.d, c.s} : IsString(m, a) \/ Within(a, c.n)
    [] c.fn = "strcpy" ->
         /\ IsString(m, c.s) /\ c.n = 0
         /\ LET n == StrLen(m, c.s) + 1 IN Within(c.d, n) /\ Apart(c.d, n, c.s, n)
    [] c.fn = "strncpy" ->
         /\ Within(c.d, c.n) /\ (IsString(m, c.s) \/ Within(c.s, c.n))
         /\ Apart(c.d, c.n, c.s, IF IsString(m, c.s) THEN StrLen(m, c.s) + 1 ELSE c.n)
    [] c.fn = "strcat" ->
         /\ IsString(m, c.d) /\ IsString(m, c.s) /\ c.n = 0
         /\ LET n == StrLen(m, c.d) + StrLen(m, c.s) + 1
            IN Within(c.d, n) /\ Apart(c.d, n, c.s, StrLen(m, c.s) + 1)
    [] c.fn \in {"%d", "%p"} -> Within(c.d, c.n) /\ (c.fn = "%p" => c.s >= 0)
    [] c.fn = "%s" ->
         /\ Within(c.d, c.n) /\ c.s \in Addr /\ IsString(m, c.s) /\ StrLen(m, c.s) < BufSize
         /\ Apart(c.d, c.n, c.s, StrLen(m, c.s) + 1)

Fns == {"memset", "memmove", "memcpy", "memcmp", "strlen", "strcpy", "strncpy", "strcat",
        "strcmp", "strncmp", "atoi", "%d", "%p", "%s"}
\* "%d" and so on stand for snprintf(d, n, "%d", s).
Calls ==
  {c \in [fn : Fns, d : Addr, s : Addr \cup Byte \cup Ints, n : 0 .. MemSize] :
     /\ c.fn \in {"%d", "%p"} => c.s \in Ints
     /\ c.fn \notin {"%d", "%p", "memset"} => c.s \in Addr}

\* The memory and the result the code leaves.
Effect(m, c) ==
  CASE c.fn = "memset" -> <<Fill(m, c.d, c.s, c.n), c.d>>
    [] c.fn = "memmove" -> <<Memmove(m, c.d, c.s, c.n), c.d>>
    [] c.fn = "memcpy" -> <<CopyUp(m, c.d, c.s, c.n), c.d>>
    [] c.fn = "strcpy" -> <<Strcpy(m, c.d, c.s), c.d>>
    [] c.fn = "strncpy" -> <<Strncpy(m, c.d, c.s, c.n), c.d>>
    [] c.fn = "strcat" -> <<Strcat(m, c.d, c.s), c.d>>
    [] c.fn = "strlen" -> <<m, StrLen(m, c.s)>>
    [] c.fn = "memcmp" -> <<m, Memcmp(m, c.d, c.s, c.n)>>
    [] c.fn = "strcmp" -> <<m, Strcmp(m, c.d, c.s)>>
    [] c.fn = "strncmp" -> <<m, Strncmp(m, c.d, c.s, c.n)>>
    [] c.fn = "atoi" -> <<m, Atoi(m, c.s)>>
    [] OTHER -> LET s == Vsprintf(m, c.fn, c.s) IN <<Vsnprintf(m, c.d, c.n, s), Len(s)>>

NoCall == [fn |-> "none", d |-> 0, s |-> 0, n |-> 0]

CallInit ==
  /\ mem \in [Addr -> Byte] /\ ret = <<>>
  /\ call \in Calls /\ Defined(mem, call)

Call ==
  /\ call # NoCall /\ ret = <<>>
  /\ mem' = Effect(mem, call)[1] /\ ret' = <<Effect(mem, call)[2]>>
  /\ UNCHANGED call

-----------------------------------------------------------------------------
(* stdlib.c: the heap.  free does nothing.                                 *)
HeapInit == addr = 0 /\ blocks = <<>>

RoundedDown(size) == (size \div AlignTo) * AlignTo         \* (bug)
Rounded(size) == (((size + AlignTo - 1) \div AlignTo) * AlignTo) % AddrSpace

Top == IF addr = 0 THEN HeapStart ELSE addr

Malloc ==
  /\ Len(blocks) < MaxBlocks
  /\ \E size \in 0 .. AddrSpace - 1 :
       /\ blocks' = Append(blocks, [at |-> Top, size |-> size])
       /\ addr' = (Top + Rounded(size)) % AddrSpace

HeapSpec == HeapInit /\ [][Malloc]_heapVars

-----------------------------------------------------------------------------
(* What C promises of a call, on sequences of bytes.                       *)
UpTo(m, a, n) == IF IsString(m, a) THEN Take(Str(m, a), n) ELSE Bytes(m, a, n)
Text(m, c) == CASE c.fn = "%d" -> Printed(c.s)
                [] c.fn = "%p" -> PrintedPtr(c.s)
                [] c.fn = "%s" -> Str(m, c.s)

\* The bytes it writes from c.d on.
Written(m, c) ==
  CASE c.fn = "memset" -> [i \in 1 .. c.n |-> c.s]
    [] c.fn \in {"memmove", "memcpy"} -> Bytes(m, c.s, c.n)
    [] c.fn = "strcpy" -> Append(Str(m, c.s), 0)
    [] c.fn = "strncpy" ->
         LET s == UpTo(m, c.s, c.n) IN s \o [i \in 1 .. c.n - Len(s) |-> 0]
    [] c.fn = "strcat" -> Str(m, c.d) \o Append(Str(m, c.s), 0)
    [] c.fn \in {"%d", "%p", "%s"} ->
         IF c.n = 0 THEN <<>> ELSE Append(Take(Text(m, c), c.n - 1), 0)
    [] OTHER -> <<>>

IsResult(m, c, r) ==
  CASE c.fn = "strlen" -> r = Len(Str(m, c.s))
    [] c.fn = "memcmp" -> Sign(r) = Compare(Bytes(m, c.d, c.n), Bytes(m, c.s, c.n))
    [] c.fn = "strcmp" -> Sign(r) = Compare(Str(m, c.d), Str(m, c.s))
    [] c.fn = "strncmp" -> Sign(r) = Compare(UpTo(m, c.d, c.n), UpTo(m, c.s, c.n))
    [] c.fn = "atoi" ->
         \E k, l \in 0 .. Len(Str(m, c.s)) :
           /\ k <= l
           /\ \A i \in 1 .. k : Str(m, c.s)[i] = Space
           /\ k < Len(Str(m, c.s)) => Str(m, c.s)[k + 1] # Space
           /\ \A i \in k + 1 .. l : DigitValue(Str(m, c.s)[i]) # -1
           /\ l < Len(Str(m, c.s)) => DigitValue(Str(m, c.s)[l + 1]) = -1
           /\ r = Denoted(Bytes(m, c.s + k, l - k))
    [] c.fn \in {"%d", "%p", "%s"} -> r = Len(Text(m, c))
    [] OTHER -> r = c.d

\* A call writes what C says it writes and not one byte more: memmove on
\* ranges that overlap either way (string.c:127), strncpy with and without
\* room for the terminator, snprintf cut short (stdio.c:89).  It returns what C
\* says: strings compare as in the dictionary, up to their terminators and no
\* further, whatever lies behind (string.c:103).
CallsDoWhatCSays ==
  [][Call => /\ mem' = Put(mem, call.d, Written(mem, call))
             /\ IsResult(mem, call, ret'[1])]_klibVars

\* What the blocks take when each is rounded up.
Needed(bs) ==
  LET sum[k \in 0 .. Len(bs)] == IF k = 0 THEN 0 ELSE sum[k - 1] + bs[k].size + (AlignTo - 1)
  IN  sum[Len(bs)]

\* Blocks are aligned, inside the heap and share no byte, as long as all that
\* was asked for, rounded up, fits it; malloc itself never looks (stdlib.c:37).
BlocksApart ==
  Needed(blocks) <= HeapSize =>
    /\ \A b \in Range(blocks) :
         /\ b.at % AlignTo = 0
         /\ HeapStart <= b.at /\ b.at + b.size <= HeapStart + HeapSize
    /\ \A i, j \in DOMAIN blocks :
         i < j => Apart(blocks[i].at, blocks[i].size, blocks[j].at, blocks[j].size)
=============================================================================
