--------------------------- MODULE ResearchProofs ---------------------------
(* Machine-checked proofs about Disclosures, for any snapshot age, event   *)
(* window and bounds; and about TradeIdeas, for any universes of funds,    *)
(* disclosures, edges and proposals.                                       *)
EXTENDS Disclosures, TradeIdeas, Sums

-----------------------------------------------------------------------------
(* Powers of two.                                                          *)

\* What PowerOfTwo is, of the exponents there are.
LEMMA PowersDouble ==
  /\ PowerOfTwo[0] = 1
  /\ \A n \in 0..2 * MaxEvents : PowerOfTwo[n] \in Nat \ {0}
  /\ \A n \in 0..2 * MaxEvents : n # 0 => PowerOfTwo[n] = 2 * PowerOfTwo[n - 1]
<1> DEFINE N == 2 * MaxEvents
           step == [n \in 1..N |-> [v \in Nat \ {0} |-> 2 * v]]
           Solves(g) == g = [n \in 0..N |-> IF n = 0 THEN 1 ELSE 2 * g[n - 1]]
<1>1. N \in Nat
  BY DisclosuresAssumption
<1> HIDE DEF N
<1>2. PICK g \in [0..N -> Nat \ {0}] : Steps(N, 1, step, g)
  <2>1. \A n \in 1..N : \A v \in Nat \ {0} : step[n][v] \in Nat \ {0}
    <3> SUFFICES ASSUME NEW n \in 1..N, NEW v \in Nat \ {0} PROVE step[n][v] \in Nat \ {0}
      OBVIOUS
    <3>1. step[n] = [w \in Nat \ {0} |-> 2 * w]
      OBVIOUS
    <3>2. step[n][v] = 2 * v
      BY <3>1
    <3> QED
      BY <3>2
  <2>2. 1 \in Nat \ {0}
    OBVIOUS
  <2> HIDE DEF step
  <2> QED
    BY <1>1, <2>1, <2>2, StepByStep
<1>3. Solves(g)
  <2>1. \A n \in 0..N : n # 0 => n \in 1..N /\ g[n - 1] \in Nat \ {0}
    BY <1>1, <1>2
  <2>2. \A n \in 0..N : g[n] = IF n = 0 THEN 1 ELSE step[n][g[n - 1]]
    <3> HIDE DEF step
    <3> DEFINE f == [n \in 0..N |-> IF n = 0 THEN 1 ELSE step[n][g[n - 1]]]
    <3>1. \A n \in 0..N : f[n] = IF n = 0 THEN 1 ELSE step[n][g[n - 1]]
      OBVIOUS
    <3>2. g = f
      BY <1>2 DEF Steps
    <3> HIDE DEF f
    <3> QED
      BY <3>1, <3>2
  <2>3. \A n \in 0..N : g[n] = IF n = 0 THEN 1 ELSE 2 * g[n - 1]
    BY <2>1, <2>2
  <2> HIDE DEF step
  <2> QED
    BY <1>2, <2>3
<1>4. PowerOfTwo = CHOOSE h : Solves(h)
  BY DEF PowerOfTwo, N
<1>5. Solves(PowerOfTwo)
  <2> HIDE DEF Solves
  <2> QED
    BY <1>3, <1>4
<1>6. /\ \A n \in 0..N : PowerOfTwo[n] = IF n = 0 THEN 1 ELSE 2 * PowerOfTwo[n - 1]
      /\ 0 \in 0..N
  <2>1. 0 \in 0..N
    BY <1>1
  <2> HIDE DEF N
  <2>2. PowerOfTwo = [n \in 0..N |-> IF n = 0 THEN 1 ELSE 2 * PowerOfTwo[n - 1]]
    BY <1>5
  <2> QED
    BY <2>1, <2>2
<1>7. \A n \in 0..N : PowerOfTwo[n] \in Nat \ {0}
  <2> DEFINE good == {n \in Nat : n <= N => PowerOfTwo[n] \in Nat \ {0}}
  <2> HIDE DEF N
  <2>1. 0 \in good
    BY <1>1, <1>6
  <2>2. ASSUME NEW n \in Nat, n \in good PROVE n + 1 \in good
    <3> SUFFICES ASSUME n + 1 <= N PROVE PowerOfTwo[n + 1] \in Nat \ {0}
      OBVIOUS
    <3>1. n + 1 \in 0..N /\ n + 1 # 0 /\ n + 1 - 1 = n
      BY <1>1
    <3>2. PowerOfTwo[n + 1] = 2 * PowerOfTwo[n]
      BY <1>6, <3>1
    <3>3. PowerOfTwo[n] \in Nat \ {0}
      BY <1>1, <2>2
    <3> QED
      BY <3>2, <3>3
  <2>3. Nat \subseteq good
    <3> HIDE DEF good
    <3> QED
      BY <2>1, <2>2, CountingUp
  <2> QED
    BY <1>1, <2>3
<1> QED
  BY <1>6, <1>7 DEF N

-----------------------------------------------------------------------------
(* Shares of a fund, of one line.                                          *)

\* One line of held shares at n units of the fund, and a later one, and what
\* the traders in between allow of the two.
Fits(h, n, held, out, by) ==
  /\ by = {} => held * n = h * out
  /\ by = {"BUY"} => held * n > h * out
  /\ by = {"SELL"} => held * n < h * out

\* A line fits itself, when nobody traded.
LEMMA FitsTheSame ==
  ASSUME NEW h \in Int, NEW n \in Int
  PROVE  Fits(h, n, h, n, {})
BY DEF Fits

\* A split of the security or of the fund is of both, and so is a creation of the later one.
LEMMA FitsAfterDoubling ==
  ASSUME NEW h \in Int, NEW n \in Int, NEW held \in Int, NEW out \in Int, NEW by
  PROVE  /\ Fits(2 * h, n, 2 * held, out, by) <=> Fits(h, n, held, out, by)
         /\ Fits(h, 2 * n, held, 2 * out, by) <=> Fits(h, n, held, out, by)
         /\ Fits(h, n, 2 * held, 2 * out, by) <=> Fits(h, n, held, out, by)
<1> DEFINE x == held * n
           y == h * out
<1>1. x \in Int /\ y \in Int
  OBVIOUS
<1>2. /\ (2 * held) * n = 2 * x /\ (2 * h) * out = 2 * y
      /\ held * (2 * n) = 2 * x /\ h * (2 * out) = 2 * y
  OBVIOUS
<1> HIDE DEF x, y
<1>3. /\ 2 * x = 2 * y <=> x = y
      /\ 2 * x > 2 * y <=> x > y
      /\ 2 * x < 2 * y <=> x < y
  BY <1>1
<1>4. Fits(2 * h, n, 2 * held, out, by) <=> Fits(h, n, held, out, by)
  BY <1>2, <1>3 DEF Fits, x, y
<1>5. Fits(h, 2 * n, held, 2 * out, by) <=> Fits(h, n, held, out, by)
  BY <1>2, <1>3 DEF Fits, x, y
<1>6. Fits(h, n, 2 * held, 2 * out, by) <=> Fits(h, n, held, out, by)
  BY <1>2, <1>3 DEF Fits, x, y
<1> QED
  BY <1>4, <1>5, <1>6

\* Who buys adds to a line, who sells takes from it, and an index does either.
LEMMA FitsAfterTrade ==
  ASSUME NEW h \in Nat, NEW n \in Nat \ {0}, NEW held \in Nat, NEW out \in Nat \ {0},
         NEW by, Fits(h, n, held, out, by), NEW unit \in Nat \ {0}
  PROVE  /\ Fits(h, n, held + unit, out, by \union {"BUY"})
         /\ Fits(h, n, held - unit, out, by \union {"SELL"})
         /\ \A new \in Int : Fits(h, n, new, out, by \union {"INDEX"})
<1> DEFINE x == held * n
           y == h * out
           u == unit * n
<1>1. x \in Int /\ y \in Int /\ u \in Int /\ u > 0
  OBVIOUS
<1>2. (held + unit) * n = x + u /\ (held - unit) * n = x - u
  OBVIOUS
<1>3. "BUY" # "SELL" /\ "BUY" # "INDEX" /\ "SELL" # "INDEX"
  OBVIOUS
<1> HIDE DEF x, y, u
<1>4. by = {} \/ by = {"BUY"} => x >= y
  BY <1>1 DEF Fits, x, y
<1>5. by = {} \/ by = {"SELL"} => x <= y
  BY <1>1 DEF Fits, x, y
<1>6. Fits(h, n, held + unit, out, by \union {"BUY"})
  <2>1. by \union {"BUY"} = {"BUY"} => by = {} \/ by = {"BUY"}
    OBVIOUS
  <2>2. by \union {"BUY"} # {} /\ by \union {"BUY"} # {"SELL"}
    BY <1>3
  <2>3. by \union {"BUY"} = {"BUY"} => x + u > y
    BY <1>1, <1>4, <2>1
  <2> QED
    BY <1>2, <2>2, <2>3 DEF Fits, y
<1>7. Fits(h, n, held - unit, out, by \union {"SELL"})
  <2>1. by \union {"SELL"} = {"SELL"} => by = {} \/ by = {"SELL"}
    OBVIOUS
  <2>2. by \union {"SELL"} # {} /\ by \union {"SELL"} # {"BUY"}
    BY <1>3
  <2>3. by \union {"SELL"} = {"SELL"} => x - u < y
    BY <1>1, <1>5, <2>1
  <2> QED
    BY <1>2, <2>2, <2>3 DEF Fits, y
<1>8. \A new \in Int : Fits(h, n, new, out, by \union {"INDEX"})
  <2>1. /\ by \union {"INDEX"} # {} /\ by \union {"INDEX"} # {"BUY"}
        /\ by \union {"INDEX"} # {"SELL"}
    BY <1>3
  <2> QED
    BY <2>1 DEF Fits
<1> QED
  BY <1>6, <1>7, <1>8

\* A later line is held, when an earlier was and nobody sold; an earlier one was,
\* when a later is and nobody bought.
LEMMA FitsWhileHeld ==
  ASSUME NEW h \in Nat, NEW n \in Nat \ {0}, NEW held \in Nat, NEW out \in Nat \ {0},
         NEW by, Fits(h, n, held, out, by)
  PROVE  /\ h > 0 /\ (by = {} \/ by = {"BUY"}) => held > 0
         /\ held > 0 /\ (by = {} \/ by = {"SELL"}) => h > 0
<1> DEFINE x == held * n
           y == h * out
<1>1. /\ x \in Nat /\ y \in Nat
      /\ held = 0 => x = 0
      /\ h = 0 => y = 0
      /\ held > 0 => x > 0
      /\ h > 0 => y > 0
  OBVIOUS
<1> HIDE DEF x, y
<1>2. /\ by = {} \/ by = {"BUY"} => x >= y
      /\ by = {} \/ by = {"SELL"} => x <= y
  BY <1>1 DEF Fits, x, y
<1>3. ASSUME h > 0, by = {} \/ by = {"BUY"} PROVE held > 0
  <2>1. x > 0
    BY <1>1, <1>2, <1>3
  <2>2. held # 0
    BY <2>1, <1>1
  <2> QED
    BY <2>2
<1>4. ASSUME held > 0, by = {} \/ by = {"SELL"} PROVE h > 0
  <2>1. y > 0
    BY <1>1, <1>2, <1>4
  <2>2. h # 0
    BY <2>1, <1>1
  <2> QED
    BY <2>2
<1> QED
  BY <1>3, <1>4

(* Lines at dates, in order, the last of them the holding of today: any    *)
(* two fit what the traders in between allow, and an index that is one of  *)
(* them has been rebalanced in between.                                    *)
Following(len, h, o, c, d, R) ==
  \A j \in 1..len, k \in 1..len + 1 : j < k =>
    /\ Fits(h[j], o[j], h[k], o[k], UNION {c[i] : i \in j + 1..k})
    /\ "INDEX" \in UNION {c[i] : i \in j + 1..k} => \E r \in R : d[j] < r /\ r <= d[k]

AreLines(len, h, o) ==
  \A k \in 1..len + 1 : h[k] \in Nat /\ o[k] \in Nat \ {0}

\* Splits double the shares held, or the fund's, in all of them or, the other way, halve.
LEMMA SplitsFollow ==
  ASSUME NEW len \in Nat, NEW h, NEW o, AreLines(len, h, o), NEW g, NEW p, AreLines(len, g, p),
         NEW c, NEW d, NEW R, Following(len, h, o, c, d, R),
         \/ \A k \in 1..len + 1 : g[k] = 2 * h[k] /\ p[k] = o[k]
         \/ \A k \in 1..len + 1 : h[k] = 2 * g[k] /\ p[k] = o[k]
         \/ \A k \in 1..len + 1 : g[k] = h[k] /\ p[k] = 2 * o[k]
         \/ \A k \in 1..len + 1 : g[k] = h[k] /\ o[k] = 2 * p[k]
  PROVE  Following(len, g, p, c, d, R)
<1> SUFFICES ASSUME NEW j \in 1..len, NEW k \in 1..len + 1, j < k
             PROVE  Fits(g[j], p[j], g[k], p[k], UNION {c[i] : i \in j + 1..k})
  BY DEF Following
<1> DEFINE by == UNION {c[i] : i \in j + 1..k}
<1>1. Fits(h[j], o[j], h[k], o[k], by)
  BY DEF Following
<1>2. j \in 1..len + 1 /\ k \in 1..len + 1
  OBVIOUS
<1>3. /\ h[j] \in Int /\ o[j] \in Int /\ h[k] \in Int /\ o[k] \in Int
      /\ g[j] \in Int /\ p[j] \in Int /\ g[k] \in Int /\ p[k] \in Int
  BY <1>2 DEF AreLines
<1> HIDE DEF by
<1>4. CASE g[j] = 2 * h[j] /\ g[k] = 2 * h[k] /\ p[j] = o[j] /\ p[k] = o[k]
  <2>1. Fits(2 * h[j], o[j], 2 * h[k], o[k], by) <=> Fits(h[j], o[j], h[k], o[k], by)
    BY <1>3, FitsAfterDoubling
  <2> QED
    BY <1>1, <1>4, <2>1 DEF by
<1>5. CASE h[j] = 2 * g[j] /\ h[k] = 2 * g[k] /\ p[j] = o[j] /\ p[k] = o[k]
  <2>1. Fits(2 * g[j], p[j], 2 * g[k], p[k], by) <=> Fits(g[j], p[j], g[k], p[k], by)
    BY <1>3, FitsAfterDoubling
  <2> QED
    BY <1>1, <1>5, <2>1 DEF by
<1>6. CASE p[j] = 2 * o[j] /\ p[k] = 2 * o[k] /\ g[j] = h[j] /\ g[k] = h[k]
  <2>1. Fits(h[j], 2 * o[j], h[k], 2 * o[k], by) <=> Fits(h[j], o[j], h[k], o[k], by)
    BY <1>3, FitsAfterDoubling
  <2> QED
    BY <1>1, <1>6, <2>1 DEF by
<1>7. CASE o[j] = 2 * p[j] /\ o[k] = 2 * p[k] /\ g[j] = h[j] /\ g[k] = h[k]
  <2>1. Fits(g[j], 2 * p[j], g[k], 2 * p[k], by) <=> Fits(g[j], p[j], g[k], p[k], by)
    BY <1>3, FitsAfterDoubling
  <2> QED
    BY <1>1, <1>7, <2>1 DEF by
<1> QED
  BY <1>2, <1>4, <1>5, <1>6, <1>7

\* A trade, a creation or a redemption is of today's line only, and so is a day that passes.
OfToday(len, h, o, c, d, R, g, p, b, e, S, more) ==
  /\ len \in Nat /\ R \subseteq S /\ R \subseteq Int
  /\ \A k \in 1..len + 1 : d[k] \in Int /\ e[k] \in Int
  /\ \A k \in 1..len : g[k] = h[k] /\ p[k] = o[k] /\ b[k] = c[k] /\ e[k] = d[k]
  /\ b[len + 1] = c[len + 1] \union more /\ d[len + 1] <= e[len + 1]
  /\ "INDEX" \in more => \E r \in S : r <= e[len + 1] /\ \A k \in 1..len : d[k] < r
  /\ \A j \in 1..len : \A by : Fits(h[j], o[j], h[len + 1], o[len + 1], by) =>
       Fits(h[j], o[j], g[len + 1], p[len + 1], by \union more)

LEMMA TodayFollows ==
  ASSUME NEW len, NEW h, NEW o, NEW c, NEW d, NEW R, NEW g, NEW p, NEW b, NEW e, NEW S, NEW more,
         OfToday(len, h, o, c, d, R, g, p, b, e, S, more), Following(len, h, o, c, d, R)
  PROVE  Following(len, g, p, b, e, S)
<1> USE DEF OfToday
<1> SUFFICES ASSUME NEW j \in 1..len, NEW k \in 1..len + 1, j < k
             PROVE  /\ Fits(g[j], p[j], g[k], p[k], UNION {b[i] : i \in j + 1..k})
                    /\ "INDEX" \in UNION {b[i] : i \in j + 1..k} =>
                         \E r \in S : e[j] < r /\ r <= e[k]
  BY DEF Following
<1> DEFINE by == UNION {c[i] : i \in j + 1..k}
           bx == UNION {b[i] : i \in j + 1..k}
<1>1. /\ Fits(h[j], o[j], h[k], o[k], by)
      /\ "INDEX" \in by => \E r \in R : d[j] < r /\ r <= d[k]
  BY DEF Following
<1>2. CASE k # len + 1
  <2>1. k \in 1..len /\ \A i \in j + 1..k : b[i] = c[i]
    BY <1>2
  <2>2. bx = by
    BY <2>1
  <2> QED
    BY <1>1, <2>1, <2>2
<1>3. CASE k = len + 1
  <2>1. /\ len + 1 \in j + 1..k
        /\ \A i \in j + 1..k : i = len + 1 \/ i \in 1..len
    BY <1>3
  <2>2. bx = by \union more
    <3>1. \A i \in j + 1..k : b[i] = IF i = len + 1 THEN c[i] \union more ELSE c[i]
      BY <2>1
    <3>2. ASSUME NEW x \in bx PROVE x \in by \union more
      BY <3>1
    <3>3. ASSUME NEW x \in by PROVE x \in bx
      BY <3>1
    <3>4. ASSUME NEW x \in more PROVE x \in bx
      BY <2>1, <3>1
    <3> QED
      BY <3>2, <3>3, <3>4
  <2> HIDE DEF by, bx
  <2>3. Fits(g[j], p[j], g[k], p[k], bx)
    BY <1>1, <1>3, <2>2
  <2>4. ASSUME "INDEX" \in bx PROVE \E r \in S : e[j] < r /\ r <= e[k]
    <3>1. CASE "INDEX" \in by
      <4>1. PICK r \in R : d[j] < r /\ r <= d[k]
        BY <1>1, <3>1
      <4>2. r \in Int /\ d[k] \in Int /\ e[k] \in Int /\ d[k] <= e[k] /\ e[j] = d[j] /\ r \in S
        BY <1>3
      <4>3. r <= e[k]
        BY <4>1, <4>2
      <4> QED
        BY <4>1, <4>2, <4>3
    <3>2. CASE "INDEX" \in more
      BY <1>3, <3>2
    <3> QED
      BY <2>2, <2>4, <3>1, <3>2
  <2> QED
    BY <2>3, <2>4 DEF bx
<1> QED
  BY <1>2, <1>3

\* A day ends, and the line is filed: it is one of those before, and today's.
LEMMA FilingFollows ==
  ASSUME NEW len \in Nat, NEW h, NEW o, AreLines(len, h, o), NEW g, NEW p,
         NEW c, NEW b, NEW d, NEW e, NEW R, Following(len, h, o, c, d, R),
         \A k \in 1..len + 1 : g[k] = h[k] /\ p[k] = o[k] /\ b[k] = c[k] /\ e[k] = d[k],
         g[len + 2] = h[len + 1], p[len + 2] = o[len + 1], b[len + 2] = {},
         \A k \in 1..len + 1 : d[k] \in Int, R \subseteq Int,
         e[len + 2] \in Int, d[len + 1] <= e[len + 2]
  PROVE  Following(len + 1, g, p, b, e, R)
<1> SUFFICES ASSUME NEW j \in 1..len + 1, NEW k \in 1..len + 2, j < k
             PROVE  /\ Fits(g[j], p[j], g[k], p[k], UNION {b[i] : i \in j + 1..k})
                    /\ "INDEX" \in UNION {b[i] : i \in j + 1..k} =>
                         \E r \in R : e[j] < r /\ r <= e[k]
  <2>1. len + 1 + 1 = len + 2
    OBVIOUS
  <2> QED
    BY <2>1 DEF Following
<1> DEFINE bx == UNION {b[i] : i \in j + 1..k}
<1>1. CASE k # len + 2
  <2>1. j \in 1..len /\ k \in 1..len + 1 /\ \A i \in j + 1..k : b[i] = c[i]
    BY <1>1
  <2>2. bx = UNION {c[i] : i \in j + 1..k}
    BY <2>1
  <2>3. j \in 1..len + 1
    BY <2>1
  <2> QED
    BY <2>1, <2>2, <2>3 DEF Following
<1>2. CASE k = len + 2 /\ j = len + 1
  <2>1. \A i \in j + 1..k : i = len + 2
    BY <1>2
  <2>2. bx = {}
    BY <2>1
  <2>3. h[len + 1] \in Int /\ o[len + 1] \in Int
    BY DEF AreLines
  <2>4. Fits(h[len + 1], o[len + 1], h[len + 1], o[len + 1], {})
    BY <2>3, FitsTheSame
  <2>5. g[j] = h[len + 1] /\ p[j] = o[len + 1] /\ g[k] = h[len + 1] /\ p[k] = o[len + 1]
    BY <1>2
  <2> QED
    BY <2>2, <2>4, <2>5
<1>3. CASE k = len + 2 /\ j # len + 1
  <2>1. /\ j \in 1..len /\ len + 1 \in 1..len + 1 /\ j < len + 1 /\ j \in 1..len + 1
        /\ \A i \in j + 1..k : i = len + 2 \/ i \in j + 1..len + 1
        /\ \A i \in j + 1..len + 1 : i \in j + 1..k /\ b[i] = c[i]
    BY <1>3
  <2>2. bx = UNION {c[i] : i \in j + 1..len + 1}
    <3>1. ASSUME NEW x \in bx PROVE x \in UNION {c[i] : i \in j + 1..len + 1}
      <4>1. PICK i \in j + 1..k : x \in b[i]
        OBVIOUS
      <4>2. i \in j + 1..len + 1
        BY <2>1, <4>1
      <4> QED
        BY <2>1, <4>1, <4>2
    <3>2. ASSUME NEW x \in UNION {c[i] : i \in j + 1..len + 1} PROVE x \in bx
      BY <2>1
    <3> QED
      BY <3>1, <3>2
  <2>3. /\ Fits(h[j], o[j], h[len + 1], o[len + 1], UNION {c[i] : i \in j + 1..len + 1})
        /\ "INDEX" \in UNION {c[i] : i \in j + 1..len + 1} =>
             \E r \in R : d[j] < r /\ r <= d[len + 1]
    BY <2>1 DEF Following
  <2> HIDE DEF bx
  <2>4. Fits(g[j], p[j], g[k], p[k], bx)
    BY <1>3, <2>1, <2>2, <2>3
  <2>5. ASSUME "INDEX" \in bx PROVE \E r \in R : e[j] < r /\ r <= e[k]
    <3>1. PICK r \in R : d[j] < r /\ r <= d[len + 1]
      BY <2>2, <2>3, <2>5
    <3>2. r \in Int /\ d[len + 1] \in Int /\ e[k] \in Int /\ e[j] = d[j] /\ d[len + 1] <= e[k]
      BY <1>3, <2>1
    <3>3. r <= e[k]
      BY <3>1, <3>2
    <3> QED
      BY <3>1, <3>2, <3>3
  <2> QED
    BY <2>4, <2>5 DEF bx
<1> QED
  BY <1>1, <1>2, <1>3

-----------------------------------------------------------------------------
(* The world.                                                              *)

HoldingType == [held : Nat, outstanding : Nat \ {0}]
FilingType ==
  [date : Nat, held : Nat, outstanding : Nat \ {0}, causes : SUBSET Causes]
SplitType == [of : Lines, date : Nat, doublings : {-1, 1}]

WorldType ==
  /\ today \in Nat \ {0}
  /\ holding \in HoldingType
  /\ filings \in Seq(FilingType)
  /\ splits \in Seq(SplitType)
  /\ rebalances \subseteq Nat
  /\ causes \subseteq Causes
  /\ events \in Nat /\ events <= MaxEvents /\ Len(splits) <= events
  /\ ingested \subseteq DOMAIN filings

\* The doublings of a line since a date.
Since(of, date) ==
  SumFunctionOnSet([k \in DOMAIN splits |-> splits[k].doublings],
                   {k \in DOMAIN splits : splits[k].of = of /\ splits[k].date > date})

InOrder ==
  /\ \A j \in DOMAIN filings :
       /\ filings[j].date < today
       /\ \A k \in DOMAIN filings : j < k => filings[j].date < filings[k].date
       /\ \A of \in Lines : /\ Since(of, filings[j].date) \in Int
                            /\ -Len(splits) <= Since(of, filings[j].date)
                            /\ Since(of, filings[j].date) <= Len(splits)
  /\ \A k \in DOMAIN splits : splits[k].date <= today

\* The lines of the filings and, last, of today, in units that every split leaves whole.
HeldAt ==
  [k \in 1..Len(filings) + 1 |->
     IF k = Len(filings) + 1 THEN holding.held * PowerOfTwo[MaxEvents]
     ELSE filings[k].held * PowerOfTwo[MaxEvents + Since("SECURITY", filings[k].date)]]

OutAt ==
  [k \in 1..Len(filings) + 1 |->
     IF k = Len(filings) + 1 THEN holding.outstanding * PowerOfTwo[MaxEvents]
     ELSE filings[k].outstanding * PowerOfTwo[MaxEvents + Since("FUND", filings[k].date)]]

CausesAt ==
  [k \in 1..Len(filings) + 1 |-> IF k = Len(filings) + 1 THEN causes ELSE filings[k].causes]

DateAt ==
  [k \in 1..Len(filings) + 1 |-> IF k = Len(filings) + 1 THEN today ELSE filings[k].date]

WorldInv ==
  /\ WorldType
  /\ InOrder
  /\ Following(Len(filings), HeldAt, OutAt, CausesAt, DateAt, rebalances)

LEMMA FilingsAreTyped ==
  ASSUME filings \in Seq(FilingType), NEW k \in DOMAIN filings
  PROVE  /\ filings[k].date \in Nat
         /\ filings[k].held \in Nat /\ filings[k].outstanding \in Nat \ {0}
         /\ filings[k].causes \subseteq Causes
<1>1. filings[k] \in FilingType
  <2> HIDE DEF FilingType
  <2> QED
    OBVIOUS
<1> QED
  BY <1>1 DEF FilingType

LEMMA SplitsAreTyped ==
  ASSUME splits \in Seq(SplitType), NEW k \in DOMAIN splits
  PROVE  splits[k].of \in Lines /\ splits[k].date \in Nat /\ splits[k].doublings \in Int
<1>1. splits[k] \in SplitType
  <2> HIDE DEF SplitType
  <2> QED
    OBVIOUS
<1> QED
  BY <1>1 DEF SplitType

\* No split is later than the day.
LEMMA NoneSinceToday ==
  ASSUME WorldType, InOrder, NEW of, NEW date \in Nat, today <= date
  PROVE  Since(of, date) = 0
<1>1. {k \in DOMAIN splits : splits[k].of = of /\ splits[k].date > date} = {}
  <2> SUFFICES ASSUME NEW k \in DOMAIN splits, splits[k].date > date PROVE FALSE
    OBVIOUS
  <2>1. splits[k].date \in Nat /\ splits[k].date <= today /\ today \in Nat
    BY SplitsAreTyped DEF WorldType, InOrder
  <2> QED
    BY <2>1
<1> QED
  BY <1>1, SumOfNone DEF Since

\* A split of today counts for what was filed before.
LEMMA OneMoreSplit ==
  ASSUME WorldType, NEW of, NEW line \in Lines, NEW doublings \in {-1, 1},
         splits' = Append(splits, [of |-> line, date |-> today, doublings |-> doublings]),
         NEW date \in Nat, date < today, Since(of, date) \in Int
  PROVE  Since(of, date)' = Since(of, date) + (IF line = of THEN doublings ELSE 0)
<1> DEFINE n == Len(splits)
           f == [k \in DOMAIN splits |-> splits[k].doublings]
           g == [k \in DOMAIN splits' |-> splits'[k].doublings]
           later == {k \in DOMAIN splits : splits[k].of = of /\ splits[k].date > date}
           now == {k \in DOMAIN splits' : splits'[k].of = of /\ splits'[k].date > date}
<1>1. /\ splits \in Seq(SplitType) /\ n \in Nat /\ DOMAIN splits = 1..n /\ today \in Nat
      /\ DOMAIN splits' = 1..n + 1
      /\ \A k \in 1..n : splits'[k] = splits[k]
      /\ splits'[n + 1].of = line /\ splits'[n + 1].date = today
      /\ splits'[n + 1].doublings = doublings
  BY DEF WorldType
<1>2. /\ \A k \in 1..n : f[k] \in Int /\ g[k] = f[k]
      /\ g[n + 1] = doublings /\ n + 1 \notin 1..n
  <2>1. \A k \in DOMAIN splits : splits[k].doublings \in Int
    BY <1>1, SplitsAreTyped
  <2>2. \A k \in DOMAIN splits : f[k] = splits[k].doublings
    OBVIOUS
  <2>3. \A k \in DOMAIN splits' : g[k] = splits'[k].doublings
    OBVIOUS
  <2>4. n + 1 \in 1..n + 1 /\ n + 1 \notin 1..n /\ \A k \in 1..n : k \in 1..n + 1
    BY <1>1
  <2> HIDE DEF n, f, g
  <2>5. ASSUME NEW k \in 1..n PROVE f[k] \in Int /\ g[k] = f[k]
    BY <1>1, <2>1, <2>2, <2>3, <2>4, Zenon
  <2>6. g[n + 1] = doublings
    BY <1>1, <2>3, <2>4, Zenon
  <2> QED
    BY <2>4, <2>5, <2>6, Zenon
<1> HIDE DEF n
<1>3. later \subseteq 1..n /\ IsFiniteSet(later)
  <2>1. IsFiniteSet(1..n)
    BY <1>1, FS_Interval
  <2>2. later \subseteq 1..n
    BY <1>1
  <2> HIDE DEF later
  <2> QED
    BY <2>1, <2>2, FS_Subset
<1>4. now = IF line = of THEN later \union {n + 1} ELSE later
  <2>1. \A k \in 1..n : k \in now <=> k \in later
    BY <1>1
  <2>2. n + 1 \in now <=> line = of
    BY <1>1
  <2>3. \A k : k \in now => k \in 1..n \/ k = n + 1
    BY <1>1
  <2> HIDE DEF now, later
  <2>4. CASE line = of
    <3>1. \A k : k \in now <=> k \in later \union {n + 1}
      BY <1>2, <1>3, <2>1, <2>2, <2>3, <2>4
    <3>2. now = later \union {n + 1}
      BY <3>1
    <3> QED
      BY <2>4, <3>2
  <2>5. CASE line # of
    <3>1. \A k : k \in now <=> k \in later
      BY <1>2, <1>3, <2>1, <2>2, <2>3, <2>5
    <3>2. now = later
      BY <3>1
    <3> QED
      BY <2>5, <3>2
  <2> QED
    BY <2>4, <2>5
<1>5. Since(of, date) = SumFunctionOnSet(f, later) /\ Since(of, date)' = SumFunctionOnSet(g, now)
  BY DEF Since
<1>6. SumFunctionOnSet(f, later) = SumFunctionOnSet(g, later)
  <2> HIDE DEF f, g, later
  <2>1. \A k \in later : f[k] \in Int /\ g[k] = f[k]
    BY <1>2, <1>3
  <2> QED
    BY <1>3, <2>1, SumOfTheSame
<1>7. line = of => SumFunctionOnSet(g, later \union {n + 1}) = g[n + 1] + SumFunctionOnSet(g, later)
  <2>1. doublings \in Int
    OBVIOUS
  <2> HIDE DEF f, g, later
  <2>2. n + 1 \notin later /\ \A k \in later \union {n + 1} : g[k] \in Int
    <3>1. n + 1 \notin later
      BY <1>2, <1>3
    <3>2. ASSUME NEW k \in later \union {n + 1} PROVE g[k] \in Int
      BY <1>2, <1>3, <2>1
    <3> QED
      BY <3>1, <3>2
  <2> QED
    BY <1>3, <2>2, SumOfOneMore
<1>8. doublings \in Int
  OBVIOUS
<1> HIDE DEF f, g, later, now
<1>9. CASE line = of
  <2>1. Since(of, date)' = doublings + Since(of, date)
    BY <1>2, <1>4, <1>5, <1>6, <1>7, <1>9
  <2> QED
    BY <1>8, <1>9, <2>1
<1>10. CASE line # of
  BY <1>4, <1>5, <1>6, <1>10
<1> QED
  BY <1>9, <1>10

\* An exponent is one of a power's.
LEMMA Exponents ==
  ASSUME WorldType, NEW d \in Int, -Len(splits) <= d, d <= Len(splits)
  PROVE  MaxEvents + d \in 0..2 * MaxEvents /\ PowerOfTwo[MaxEvents + d] \in Nat \ {0}
<1>1. Len(splits) \in Nat /\ Len(splits) <= MaxEvents /\ MaxEvents \in Nat
  BY DisclosuresAssumption DEF WorldType
<1>2. MaxEvents + d \in 0..2 * MaxEvents
  BY <1>1
<1> QED
  BY <1>2, PowersDouble

LEMMA Products ==
  ASSUME NEW a \in Nat, NEW b \in Nat \ {0}
  PROVE  a * b \in Nat /\ (a # 0 => a * b # 0)
OBVIOUS

LEMMA LinesAtDates ==
  ASSUME WorldType, InOrder
  PROVE  /\ AreLines(Len(filings), HeldAt, OutAt)
         /\ \A k \in 1..Len(filings) + 1 : DateAt[k] \in Nat
         /\ Len(filings) \in Nat /\ DOMAIN filings = 1..Len(filings)
<1> DEFINE len == Len(filings)
<1>1. len \in Nat /\ DOMAIN filings = 1..len
  BY DEF WorldType
<1>2. ASSUME NEW k \in 1..len + 1
      PROVE  HeldAt[k] \in Nat /\ OutAt[k] \in Nat \ {0} /\ DateAt[k] \in Nat
  <2>1. CASE k = len + 1
    <3>1. PowerOfTwo[MaxEvents] \in Nat \ {0}
      <4>1. MaxEvents + 0 = MaxEvents /\ 0 \in Int /\ -Len(splits) <= 0 /\ 0 <= Len(splits)
        BY DisclosuresAssumption DEF WorldType
      <4> QED
        BY <4>1, Exponents
    <3>2. holding.held \in Nat /\ holding.outstanding \in Nat \ {0} /\ today \in Nat
      BY DEF WorldType, HoldingType
    <3>3. /\ HeldAt[k] = holding.held * PowerOfTwo[MaxEvents]
          /\ OutAt[k] = holding.outstanding * PowerOfTwo[MaxEvents]
          /\ DateAt[k] = today
      BY <2>1 DEF HeldAt, OutAt, DateAt
    <3>4. /\ holding.held * PowerOfTwo[MaxEvents] \in Nat
          /\ holding.outstanding * PowerOfTwo[MaxEvents] \in Nat \ {0}
      BY <3>1, <3>2, Products
    <3> QED
      BY <3>2, <3>3, <3>4, Zenon
  <2>2. CASE k # len + 1
    <3>1. k \in DOMAIN filings
      BY <1>1, <2>2
    <3>2. \A of \in Lines : PowerOfTwo[MaxEvents + Since(of, filings[k].date)] \in Nat \ {0}
      BY <3>1, Exponents DEF InOrder
    <3>3. /\ filings[k].held \in Nat /\ filings[k].outstanding \in Nat \ {0}
          /\ filings[k].date \in Nat
      BY <3>1, FilingsAreTyped DEF WorldType
    <3>4. /\ HeldAt[k] = filings[k].held * PowerOfTwo[MaxEvents + Since("SECURITY", filings[k].date)]
          /\ OutAt[k] = filings[k].outstanding * PowerOfTwo[MaxEvents + Since("FUND", filings[k].date)]
          /\ DateAt[k] = filings[k].date
      BY <2>2 DEF HeldAt, OutAt, DateAt
    <3>5. "SECURITY" \in Lines /\ "FUND" \in Lines
      BY DEF Lines
    <3>6. /\ filings[k].held * PowerOfTwo[MaxEvents + Since("SECURITY", filings[k].date)] \in Nat
          /\ filings[k].outstanding * PowerOfTwo[MaxEvents + Since("FUND", filings[k].date)]
               \in Nat \ {0}
      BY <3>2, <3>3, <3>5, Products
    <3> QED
      BY <3>3, <3>4, <3>6, Zenon
  <2> QED
    BY <2>1, <2>2
<1> QED
  BY <1>1, <1>2 DEF AreLines

LEMMA LinesAreTyped ==
  WorldType /\ InOrder => AreLines(Len(filings), HeldAt, OutAt)
BY LinesAtDates

\* What happens on a day, or the end of it without a filing, is of today's line only.
LEMMA WorldAfter ==
  ASSUME WorldInv, WorldType', filings' = filings, splits' = splits,
         today <= today', rebalances \subseteq rebalances',
         NEW more, causes' = causes \union more, "INDEX" \in more => today \in rebalances',
         \A j \in DOMAIN filings : \A by :
           Fits(HeldAt[j], OutAt[j], holding.held * PowerOfTwo[MaxEvents],
                holding.outstanding * PowerOfTwo[MaxEvents], by) =>
           Fits(HeldAt[j], OutAt[j], holding'.held * PowerOfTwo[MaxEvents],
                holding'.outstanding * PowerOfTwo[MaxEvents], by \union more)
  PROVE  WorldInv'
<1> DEFINE len == Len(filings)
<1>1. /\ WorldType /\ InOrder
      /\ Following(len, HeldAt, OutAt, CausesAt, DateAt, rebalances)
      /\ AreLines(len, HeldAt, OutAt) /\ \A k \in 1..len + 1 : DateAt[k] \in Nat
      /\ len \in Nat /\ DOMAIN filings = 1..len
  BY LinesAtDates DEF WorldInv
<1>2. /\ today \in Nat /\ today' \in Nat /\ rebalances \subseteq Nat
      /\ \A j \in DOMAIN filings : filings[j].date \in Nat
  BY <1>1, FilingsAreTyped DEF WorldType
<1>3. \A of, date : Since(of, date)' = Since(of, date)
  BY DEF Since
<1>4. InOrder'
  <2>1. ASSUME NEW j \in DOMAIN filings
        PROVE  filings[j].date < today'
    <3>1. filings[j].date < today /\ filings[j].date \in Nat
      BY <1>1, <1>2 DEF InOrder
    <3> QED
      BY <1>2, <3>1
  <2>2. \A k \in DOMAIN splits : splits[k].date <= today'
    <3> SUFFICES ASSUME NEW k \in DOMAIN splits PROVE splits[k].date <= today'
      OBVIOUS
    <3>1. splits[k].date <= today /\ splits[k].date \in Nat
      BY <1>1, SplitsAreTyped DEF InOrder, WorldType
    <3> QED
      BY <1>2, <3>1
  <2>3. \A j \in DOMAIN filings :
          /\ \A k \in DOMAIN filings : j < k => filings[j].date < filings[k].date
          /\ \A of \in Lines : /\ Since(of, filings[j].date) \in Int
                               /\ -Len(splits) <= Since(of, filings[j].date)
                               /\ Since(of, filings[j].date) <= Len(splits)
    BY <1>1 DEF InOrder
  <2> QED
    BY <1>3, <2>1, <2>2, <2>3 DEF InOrder
<1>5. ASSUME NEW k \in 1..len
      PROVE  /\ HeldAt'[k] = HeldAt[k] /\ OutAt'[k] = OutAt[k]
             /\ CausesAt'[k] = CausesAt[k] /\ DateAt'[k] = DateAt[k] /\ DateAt[k] = filings[k].date
  <2>1. k # len + 1 /\ k \in 1..len + 1
    BY <1>1
  <2>2. /\ HeldAt[k] = filings[k].held * PowerOfTwo[MaxEvents + Since("SECURITY", filings[k].date)]
        /\ HeldAt'[k] = filings[k].held * PowerOfTwo[MaxEvents + Since("SECURITY", filings[k].date)]
    BY <1>3, <2>1 DEF HeldAt
  <2>3. /\ OutAt[k] = filings[k].outstanding * PowerOfTwo[MaxEvents + Since("FUND", filings[k].date)]
        /\ OutAt'[k] = filings[k].outstanding * PowerOfTwo[MaxEvents + Since("FUND", filings[k].date)]
    BY <1>3, <2>1 DEF OutAt
  <2>4. CausesAt[k] = filings[k].causes /\ CausesAt'[k] = filings[k].causes
    BY <2>1 DEF CausesAt
  <2>5. DateAt[k] = filings[k].date /\ DateAt'[k] = filings[k].date
    BY <2>1 DEF DateAt
  <2> QED
    BY <2>2, <2>3, <2>4, <2>5, Zenon
<1>6. /\ len + 1 \in 1..len + 1
      /\ HeldAt[len + 1] = holding.held * PowerOfTwo[MaxEvents]
      /\ OutAt[len + 1] = holding.outstanding * PowerOfTwo[MaxEvents]
      /\ CausesAt[len + 1] = causes /\ DateAt[len + 1] = today
  BY <1>1 DEF HeldAt, OutAt, CausesAt, DateAt
<1>7. /\ HeldAt'[len + 1] = holding'.held * PowerOfTwo[MaxEvents]
      /\ OutAt'[len + 1] = holding'.outstanding * PowerOfTwo[MaxEvents]
      /\ CausesAt'[len + 1] = causes' /\ DateAt'[len + 1] = today'
  BY <1>1, <1>6 DEF HeldAt, OutAt, CausesAt, DateAt
<1>8. Following(len, HeldAt', OutAt', CausesAt', DateAt', rebalances')
  <2>1. rebalances \subseteq Int /\ \A k \in 1..len + 1 : DateAt[k] \in Int /\ DateAt'[k] \in Int
    <3>1. \A k \in 1..len + 1 : k \in 1..len \/ k = len + 1
      BY <1>1
    <3> QED
      BY <1>1, <1>2, <1>5, <1>7, <3>1
  <2>2. CausesAt'[len + 1] = CausesAt[len + 1] \union more /\ DateAt[len + 1] <= DateAt'[len + 1]
    BY <1>6, <1>7
  <2>3. "INDEX" \in more => \E r \in rebalances' :
          r <= DateAt'[len + 1] /\ \A k \in 1..len : DateAt[k] < r
    BY <1>1, <1>5, <1>7 DEF InOrder
  <2>4. \A j \in 1..len : \A by :
          Fits(HeldAt[j], OutAt[j], HeldAt[len + 1], OutAt[len + 1], by) =>
          Fits(HeldAt[j], OutAt[j], HeldAt'[len + 1], OutAt'[len + 1], by \union more)
    BY <1>1, <1>6, <1>7
  <2>5. \A k \in 1..len : /\ HeldAt'[k] = HeldAt[k] /\ OutAt'[k] = OutAt[k]
                          /\ CausesAt'[k] = CausesAt[k] /\ DateAt'[k] = DateAt[k]
    BY <1>5
  <2>6. /\ len \in Nat /\ Following(len, HeldAt, OutAt, CausesAt, DateAt, rebalances)
        /\ rebalances \subseteq rebalances'
    BY <1>1
  <2> HIDE DEF len
  <2>7. OfToday(len, HeldAt, OutAt, CausesAt, DateAt, rebalances,
                HeldAt', OutAt', CausesAt', DateAt', rebalances', more)
    BY <2>1, <2>2, <2>3, <2>4, <2>5, <2>6 DEF OfToday
  <2> QED
    BY <2>6, <2>7, TodayFollows
<1> QED
  BY <1>4, <1>8 DEF WorldInv

\* The line of today is bounded, whatever happens to it.
LEMMA TypeOfToday ==
  ASSUME WorldType, Event, Bounded(holding'),
         holding' \in [held : {holding'.held}, outstanding : {holding'.outstanding}]
  PROVE  /\ holding' \in HoldingType /\ events' \in Nat /\ events' <= MaxEvents
         /\ holding'.held \in Nat /\ holding'.outstanding \in Nat \ {0}
<1>1. holding'.held \in Nat /\ holding'.outstanding \in Nat \ {0}
  BY DisclosuresAssumption DEF Bounded
<1>2. events' \in Nat /\ events' <= MaxEvents
  BY DisclosuresAssumption DEF WorldType, Event
<1>3. holding' \in HoldingType
  BY <1>1 DEF HoldingType
<1> QED
  BY <1>1, <1>2, <1>3

\* A line, in today's units.
LEMMA UnitOfToday ==
  ASSUME WorldType, InOrder
  PROVE  /\ PowerOfTwo[MaxEvents] \in Nat \ {0}
         /\ holding.held \in Nat /\ holding.outstanding \in Nat \ {0}
         /\ holding.held * PowerOfTwo[MaxEvents] \in Nat
         /\ holding.outstanding * PowerOfTwo[MaxEvents] \in Nat \ {0}
         /\ \A j \in DOMAIN filings : HeldAt[j] \in Nat /\ OutAt[j] \in Nat \ {0}
<1>1. MaxEvents + 0 = MaxEvents /\ 0 \in Int /\ -Len(splits) <= 0 /\ 0 <= Len(splits)
  BY DisclosuresAssumption DEF WorldType
<1>2. PowerOfTwo[MaxEvents] \in Nat \ {0}
  BY <1>1, Exponents
<1>3. holding.held \in Nat /\ holding.outstanding \in Nat \ {0}
  BY DEF WorldType, HoldingType
<1>4. /\ holding.held * PowerOfTwo[MaxEvents] \in Nat
      /\ holding.outstanding * PowerOfTwo[MaxEvents] \in Nat
      /\ holding.outstanding * PowerOfTwo[MaxEvents] # 0
  BY <1>2, <1>3, Products
<1>5. ASSUME NEW j \in DOMAIN filings PROVE HeldAt[j] \in Nat /\ OutAt[j] \in Nat \ {0}
  <2>1. j \in 1..Len(filings) + 1
    BY LinesAtDates
  <2> QED
    BY <2>1, LinesAtDates DEF AreLines
<1> QED
  BY <1>2, <1>3, <1>4, <1>5, Zenon

LEMMA TradesStay ==
  ASSUME WorldInv, NEW by \in Causes, NEW shares \in {-1, 1}, Traded(by, shares), Bounded(holding'),
         by = "BUY" => shares = 1, by = "SELL" => shares = -1
  PROVE  WorldInv'
<1>1. WorldType /\ InOrder
  BY DEF WorldInv
<1>2. /\ Event /\ holding' = [holding EXCEPT !.held = @ + shares]
      /\ causes' = causes \union {by}
      /\ rebalances' = IF by = "INDEX" THEN rebalances \union {today} ELSE rebalances
      /\ today' = today /\ filings' = filings /\ splits' = splits
      /\ ingested' = ingested
  BY DEF Traded
<1>3. /\ holding'.held = holding.held + shares
      /\ holding'.outstanding = holding.outstanding
      /\ holding' \in [held : {holding'.held},
                       outstanding : {holding'.outstanding}]
  BY <1>1, <1>2 DEF WorldType, HoldingType
<1>4. WorldType'
  <2>1. /\ holding' \in HoldingType /\ events' \in Nat /\ events' <= MaxEvents
    BY <1>1, <1>2, <1>3, TypeOfToday
  <2>2. Len(splits) <= events'
    BY <1>1, <1>2 DEF WorldType, Event
  <2>3. rebalances' \subseteq Nat /\ causes' \subseteq Causes
    BY <1>1, <1>2 DEF WorldType
  <2> QED
    BY <1>1, <1>2, <1>3, <2>1, <2>2, <2>3 DEF WorldType
<1>5. ASSUME NEW j \in DOMAIN filings, NEW b,
             Fits(HeldAt[j], OutAt[j], holding.held * PowerOfTwo[MaxEvents],
                  holding.outstanding * PowerOfTwo[MaxEvents], b)
      PROVE  Fits(HeldAt[j], OutAt[j], holding'.held * PowerOfTwo[MaxEvents],
                  holding'.outstanding * PowerOfTwo[MaxEvents], b \union {by})
  <2> DEFINE unit == PowerOfTwo[MaxEvents]
             held == holding.held * unit
             out == holding.outstanding * unit
             h == HeldAt[j]
             n == OutAt[j]
  <2>1. /\ unit \in Nat \ {0} /\ held \in Nat /\ out \in Nat \ {0} /\ h \in Nat /\ n \in Nat \ {0}
        /\ holding.held \in Nat
    BY <1>1, UnitOfToday
  <2>2. Fits(h, n, held, out, b)
    BY <1>5
  <2>3. (holding.held + 1) * unit = held + unit /\ (holding.held - 1) * unit = held - unit
    <3>1. \A x \in Nat, u \in Nat \ {0} : (x + 1) * u = x * u + u /\ (x - 1) * u = x * u - u
      OBVIOUS
    <3> HIDE DEF unit
    <3> QED
      BY <2>1, <3>1
  <2>4. holding'.outstanding * unit = out
    BY <1>3
  <2>5. holding.held + shares \in Int /\ (holding.held + shares) * unit \in Int
    <3>1. \A x \in Int, u \in Int : x * u \in Int
      OBVIOUS
    <3>2. holding.held + shares \in Int /\ unit \in Int
      BY <2>1
    <3> HIDE DEF unit
    <3> QED
      BY <3>1, <3>2
  <2>6. holding'.held * unit = (holding.held + shares) * unit
    BY <1>3
  <2> HIDE DEF unit, held, out, h, n
  <2>7. /\ Fits(h, n, held + unit, out, b \union {"BUY"})
        /\ Fits(h, n, held - unit, out, b \union {"SELL"})
        /\ \A new \in Int : Fits(h, n, new, out, b \union {"INDEX"})
    BY <2>1, <2>2, FitsAfterTrade
  <2>8. Fits(h, n, holding'.held * unit, out, b \union {by})
    <3>1. CASE by = "BUY"
      <4>1. holding'.held * unit = held + unit
        BY <2>3, <2>6, <3>1
      <4> QED
        BY <2>7, <3>1, <4>1
    <3>2. CASE by = "SELL"
      <4>1. holding.held + -1 = holding.held - 1
        BY <2>1
      <4>2. holding'.held * unit = held - unit
        BY <2>3, <2>6, <3>2, <4>1
      <4> QED
        BY <2>7, <3>2, <4>2
    <3>3. CASE by = "INDEX"
      BY <2>5, <2>6, <2>7, <3>3
    <3> QED
      BY <3>1, <3>2, <3>3 DEF Causes
  <2> QED
    BY <2>4, <2>8 DEF unit, h, n
<1>6. /\ today <= today' /\ rebalances \subseteq rebalances'
      /\ "INDEX" \in {by} => today \in rebalances'
  BY <1>1, <1>2 DEF WorldType
<1> QED
  BY <1>2, <1>4, <1>5, <1>6, WorldAfter

LEMMA FlowsStay ==
  ASSUME WorldInv, Created \/ Redeemed, Bounded(holding')
  PROVE  WorldInv'
<1>1. WorldType /\ InOrder
  BY DEF WorldInv
<1>2. /\ Event
      /\ today' = today /\ filings' = filings /\ splits' = splits
      /\ ingested' = ingested /\ rebalances' = rebalances /\ causes' = causes
  BY DEF Created, Redeemed
<1>3. /\ holding' \in [held : {holding'.held},
                       outstanding : {holding'.outstanding}]
      /\ \/ holding'.held = 2 * holding.held /\ holding'.outstanding = 2 * holding.outstanding
         \/ holding.held = 2 * holding'.held /\ holding.outstanding = 2 * holding'.outstanding
  <2>1. holding.held \in Nat /\ holding.outstanding \in Nat /\ holding \in HoldingType
    BY <1>1, UnitOfToday DEF WorldType
  <2>2. CASE Created
    BY <2>1, <2>2 DEF Created, HoldingType
  <2>3. CASE Redeemed
    <3>1. /\ holding.held % 2 = 0 /\ holding.outstanding % 2 = 0
          /\ holding'.held = holding.held \div 2
          /\ holding'.outstanding = holding.outstanding \div 2
      BY <2>1, <2>3 DEF Redeemed, HoldingType
    <3>2. holding.held = 2 * holding'.held /\ holding.outstanding = 2 * holding'.outstanding
      BY <2>1, <3>1
    <3> QED
      BY <2>1, <2>3, <3>2 DEF Redeemed, HoldingType
  <2> QED
    BY <2>2, <2>3
<1>4. holding'.held \in Nat /\ holding'.outstanding \in Nat \ {0}
  BY <1>1, <1>2, <1>3, TypeOfToday
<1>5. WorldType'
  <2>1. holding' \in HoldingType /\ events' \in Nat /\ events' <= MaxEvents
    BY <1>1, <1>2, <1>3, TypeOfToday
  <2>2. Len(splits) <= events'
    BY <1>1, <1>2 DEF WorldType, Event
  <2> QED
    BY <1>1, <1>2, <1>3, <2>1, <2>2 DEF WorldType
<1>6. ASSUME NEW j \in DOMAIN filings, NEW b,
             Fits(HeldAt[j], OutAt[j], holding.held * PowerOfTwo[MaxEvents],
                  holding.outstanding * PowerOfTwo[MaxEvents], b)
      PROVE  Fits(HeldAt[j], OutAt[j], holding'.held * PowerOfTwo[MaxEvents],
                  holding'.outstanding * PowerOfTwo[MaxEvents], b \union {})
  <2> DEFINE unit == PowerOfTwo[MaxEvents]
             h == HeldAt[j]
             n == OutAt[j]
  <2>1. /\ unit \in Nat \ {0} /\ h \in Int /\ n \in Int
        /\ holding.held \in Nat /\ holding.outstanding \in Nat
        /\ holding'.held \in Nat /\ holding'.outstanding \in Nat
    BY <1>1, <1>4, UnitOfToday
  <2>2. Fits(h, n, holding.held * unit, holding.outstanding * unit, b)
    BY <1>6
  <2>3. \A x \in Nat, u \in Nat : x * u \in Int /\ (2 * x) * u = 2 * (x * u)
    OBVIOUS
  <2>4. b \union {} = b
    OBVIOUS
  <2> HIDE DEF unit, h, n
  <2>5. CASE holding'.held = 2 * holding.held /\ holding'.outstanding = 2 * holding.outstanding
    <3>1. /\ holding.held * unit \in Int /\ holding.outstanding * unit \in Int
          /\ holding'.held * unit = 2 * (holding.held * unit)
          /\ holding'.outstanding * unit = 2 * (holding.outstanding * unit)
      BY <2>1, <2>3, <2>5
    <3>2. Fits(h, n, holding'.held * unit, holding'.outstanding * unit, b)
      BY <2>1, <2>2, <3>1, FitsAfterDoubling
    <3> QED
      BY <2>4, <3>2 DEF unit, h, n
  <2>6. CASE holding.held = 2 * holding'.held /\ holding.outstanding = 2 * holding'.outstanding
    <3>1. /\ holding'.held * unit \in Int /\ holding'.outstanding * unit \in Int
          /\ holding.held * unit = 2 * (holding'.held * unit)
          /\ holding.outstanding * unit = 2 * (holding'.outstanding * unit)
      BY <2>1, <2>3, <2>6
    <3>2. Fits(h, n, holding'.held * unit, holding'.outstanding * unit, b)
      BY <2>1, <2>2, <3>1, FitsAfterDoubling
    <3> QED
      BY <2>4, <3>2 DEF unit, h, n
  <2> QED
    BY <1>3, <2>5, <2>6
<1>7. today <= today' /\ causes' = causes \union {} /\ "INDEX" \notin {}
  BY <1>1, <1>2 DEF WorldType
<1> QED
  BY <1>2, <1>5, <1>6, <1>7, WorldAfter

\* Neither a day without a filing, nor an ingestion changes what was traded.
LEMMA OthersStay ==
  ASSUME WorldInv,
         \/ DayEnds(FALSE)
         \/ \E k \in DOMAIN filings : Ingest(k)
         \/ UNCHANGED disclosureVars
  PROVE  WorldInv'
<1>1. WorldType /\ InOrder /\ today \in Nat \ {0} /\ holding \in HoldingType
  BY DEF WorldInv, WorldType
<1>2. /\ filings' = filings /\ splits' = splits /\ causes' = causes /\ rebalances' = rebalances
      /\ today' \in {today, today + 1}
  BY DEF DayEnds, Ingest, disclosureVars, worldVars
<1>3. holding'.held = holding.held /\ holding'.outstanding = holding.outstanding
  BY <1>1 DEF DayEnds, Ingest, disclosureVars, worldVars, HoldingType
<1>4. WorldType'
  <2>2. CASE DayEnds(FALSE)
    BY <1>1, <2>2 DEF DayEnds, WorldType
  <2>3. CASE \E k \in DOMAIN filings : Ingest(k)
    BY <1>1, <2>3 DEF Ingest, worldVars, WorldType
  <2>4. CASE UNCHANGED disclosureVars
    BY <1>1, <2>4 DEF disclosureVars, worldVars, WorldType
  <2> QED
    BY <2>2, <2>3, <2>4
<1>5. /\ today <= today' /\ causes' = causes \union {} /\ "INDEX" \notin {}
      /\ rebalances \subseteq rebalances'
  BY <1>1, <1>2
<1>6. \A j \in DOMAIN filings : \A b :
        Fits(HeldAt[j], OutAt[j], holding.held * PowerOfTwo[MaxEvents],
             holding.outstanding * PowerOfTwo[MaxEvents], b) =>
        Fits(HeldAt[j], OutAt[j], holding'.held * PowerOfTwo[MaxEvents],
             holding'.outstanding * PowerOfTwo[MaxEvents], b \union {})
  <2>1. \A b : b \union {} = b
    OBVIOUS
  <2> QED
    BY <1>3, <2>1
<1> QED
  BY <1>2, <1>4, <1>5, <1>6, WorldAfter

\* A split two for one, or one for two, doubles, or halves.
Scaled(new, old, doublings) ==
  /\ doublings = 1 => new = 2 * old
  /\ doublings = -1 => old = 2 * new

LEMMA UnitsAreScaled ==
  ASSUME NEW a \in Nat, NEW doublings \in {-1, 1}, NEW n \in Int,
         MaxEvents + n \in 0..2 * MaxEvents, MaxEvents + (n + doublings) \in 0..2 * MaxEvents
  PROVE  Scaled(a * PowerOfTwo[MaxEvents + (n + doublings)], a * PowerOfTwo[MaxEvents + n], doublings)
<1>1. \A x \in Nat : a * (2 * x) = 2 * (a * x)
  OBVIOUS
<1>2. MaxEvents \in Nat
  BY DisclosuresAssumption
<1>3. CASE doublings = 1
  <2> DEFINE m == MaxEvents + (n + doublings)
  <2>1. m \in 0..2 * MaxEvents /\ m # 0 /\ m - 1 = MaxEvents + n /\ m - 1 \in 0..2 * MaxEvents
    BY <1>2, <1>3
  <2> HIDE DEF m
  <2>2. PowerOfTwo[m] = 2 * PowerOfTwo[m - 1] /\ PowerOfTwo[m - 1] \in Nat
    BY <2>1, PowersDouble
  <2>3. a * PowerOfTwo[m] = 2 * (a * PowerOfTwo[m - 1])
    BY <1>1, <2>2
  <2>4. a * PowerOfTwo[m] = 2 * (a * PowerOfTwo[MaxEvents + n])
    BY <2>1, <2>3
  <2> QED
    BY <1>3, <2>4 DEF Scaled, m
<1>4. CASE doublings = -1
  <2> DEFINE m == MaxEvents + n
  <2>1. /\ m \in 0..2 * MaxEvents /\ m # 0 /\ m - 1 = MaxEvents + (n + doublings)
        /\ m - 1 \in 0..2 * MaxEvents
    BY <1>2, <1>4
  <2> HIDE DEF m
  <2>2. PowerOfTwo[m] = 2 * PowerOfTwo[m - 1] /\ PowerOfTwo[m - 1] \in Nat
    BY <2>1, PowersDouble
  <2>3. a * PowerOfTwo[m] = 2 * (a * PowerOfTwo[m - 1])
    BY <1>1, <2>2
  <2>4. a * PowerOfTwo[m] = 2 * (a * PowerOfTwo[MaxEvents + (n + doublings)])
    BY <2>1, <2>3
  <2> QED
    BY <1>4, <2>4 DEF Scaled, m
<1> QED
  BY <1>3, <1>4

LEMMA SplitsStay ==
  ASSUME WorldInv, NEW line \in Lines, NEW doublings \in {-1, 1},
         Split(line, doublings), Bounded(holding')
  PROVE  WorldInv'
<1> DEFINE len == Len(filings)
           held == line = "SECURITY"
<1>1. /\ WorldType /\ InOrder
      /\ Following(len, HeldAt, OutAt, CausesAt, DateAt, rebalances)
      /\ AreLines(len, HeldAt, OutAt)
      /\ len \in Nat /\ DOMAIN filings = 1..len
  BY LinesAtDates DEF WorldInv
<1>2. /\ Event
      /\ splits' = Append(splits, [of |-> line, date |-> today, doublings |-> doublings])
      /\ today' = today /\ filings' = filings
      /\ ingested' = ingested /\ rebalances' = rebalances /\ causes' = causes
  BY DEF Split
<1>3. /\ holding' \in [held : {holding'.held},
                       outstanding : {holding'.outstanding}]
      /\ IF held THEN Scaled(holding'.held, holding.held, doublings)
                 ELSE holding'.held = holding.held
      /\ IF held THEN holding'.outstanding = holding.outstanding
                 ELSE Scaled(holding'.outstanding, holding.outstanding, doublings)
  <2>1. holding.held \in Nat /\ holding.outstanding \in Nat /\ holding \in HoldingType
    BY <1>1, UnitOfToday DEF WorldType
  <2>2. \A n \in Nat : (doublings = -1 => n % 2 = 0) => Scaled(Doubled(n, doublings), n, doublings)
    BY DEF Scaled, Doubled
  <2>3. CASE held
    <3>1. /\ holding' = [holding EXCEPT !["held"] = Doubled(@, doublings)]
          /\ doublings = -1 => holding["held"] % 2 = 0
      BY <2>3 DEF Split
    <3>2. /\ holding'.held = Doubled(holding.held, doublings)
          /\ holding'.outstanding = holding.outstanding
          /\ holding' \in [held : {holding'.held},
                           outstanding : {holding'.outstanding}]
      BY <2>1, <3>1 DEF HoldingType
    <3>3. Scaled(holding'.held, holding.held, doublings)
      BY <2>1, <2>2, <3>1, <3>2
    <3> QED
      BY <2>3, <3>2, <3>3
  <2>4. CASE ~held
    <3>1. /\ holding' = [holding EXCEPT !["outstanding"] = Doubled(@, doublings)]
          /\ doublings = -1 => holding["outstanding"] % 2 = 0
      BY <2>4 DEF Split
    <3>2. /\ holding'.held = holding.held
          /\ holding'.outstanding = Doubled(holding.outstanding, doublings)
          /\ holding' \in [held : {holding'.held},
                           outstanding : {holding'.outstanding}]
      BY <2>1, <3>1 DEF HoldingType
    <3>3. Scaled(holding'.outstanding, holding.outstanding, doublings)
      BY <2>1, <2>2, <3>1, <3>2
    <3> QED
      BY <2>4, <3>2, <3>3
  <2> QED
    BY <2>3, <2>4
<1>4. WorldType' /\ Len(splits') = Len(splits) + 1
  <2>1. holding' \in HoldingType /\ events' \in Nat /\ events' <= MaxEvents
    BY <1>1, <1>2, <1>3, TypeOfToday
  <2>2. splits \in Seq(SplitType) /\ Len(splits) \in Nat /\ Len(splits) <= events /\ today \in Nat
    BY <1>1 DEF WorldType
  <2>3. [of |-> line, date |-> today, doublings |-> doublings] \in SplitType
    BY <2>2 DEF SplitType
  <2>4. splits' \in Seq(SplitType) /\ Len(splits') = Len(splits) + 1
    <3> HIDE DEF SplitType
    <3> QED
      BY <1>2, <2>2, <2>3
  <2>5. Len(splits') <= events'
    BY <1>1, <1>2, <2>2, <2>4 DEF WorldType, Event
  <2> QED
    BY <1>1, <1>2, <1>3, <2>1, <2>4, <2>5 DEF WorldType
<1>5. ASSUME NEW j \in DOMAIN filings, NEW of \in Lines
      PROVE  /\ Since(of, filings[j].date) \in Int
             /\ -Len(splits) <= Since(of, filings[j].date)
             /\ Since(of, filings[j].date) <= Len(splits)
             /\ Since(of, filings[j].date)' =
                  Since(of, filings[j].date) + (IF line = of THEN doublings ELSE 0)
  <2>1. filings[j].date \in Nat /\ filings[j].date < today /\ Since(of, filings[j].date) \in Int
    BY <1>1, FilingsAreTyped DEF InOrder, WorldType
  <2>2. \A date : date = filings[j].date =>
          Since(of, date)' = Since(of, date) + (IF line = of THEN doublings ELSE 0)
    BY <1>1, <1>2, <2>1, OneMoreSplit
  <2>3. Since(of, filings[j].date)' = Since(of, filings[j].date) + (IF line = of THEN doublings ELSE 0)
    BY <1>2, <2>2 DEF Since
  <2> QED
    BY <1>1, <2>3 DEF InOrder
<1>6. InOrder'
  <2>1. ASSUME NEW j \in DOMAIN filings, NEW of \in Lines
        PROVE  /\ Since(of, filings[j].date)' \in Int
               /\ -Len(splits') <= Since(of, filings[j].date)'
               /\ Since(of, filings[j].date)' <= Len(splits')
    <3> DEFINE s == Since(of, filings[j].date)
               n == Len(splits)
    <3>1. /\ s \in Int /\ -n <= s /\ s <= n
          /\ Since(of, filings[j].date)' = s + (IF line = of THEN doublings ELSE 0)
          /\ n \in Nat /\ Len(splits') = n + 1 /\ doublings \in {-1, 1}
      BY <1>1, <1>4, <1>5 DEF WorldType
    <3> HIDE DEF s, n
    <3> QED
      BY <3>1
  <2>2. ASSUME NEW k \in DOMAIN splits' PROVE splits'[k].date <= today
    <3>1. splits \in Seq(SplitType) /\ today \in Nat
      BY <1>1 DEF WorldType
    <3>2. \/ k \in DOMAIN splits /\ splits'[k] = splits[k]
          \/ splits'[k].date = today
      <4> HIDE DEF SplitType
      <4> QED
        BY <1>2, <3>1
    <3> QED
      BY <1>1, <3>1, <3>2 DEF InOrder
  <2>3. \A j \in DOMAIN filings :
          /\ filings[j].date < today
          /\ \A k \in DOMAIN filings : j < k => filings[j].date < filings[k].date
    BY <1>1 DEF InOrder
  <2> QED
    BY <1>2, <2>1, <2>2, <2>3 DEF InOrder
<1>7. CausesAt' = CausesAt /\ DateAt' = DateAt /\ AreLines(len, HeldAt', OutAt')
  <2>1. (WorldType /\ InOrder => AreLines(Len(filings), HeldAt, OutAt))'
    BY LinesAreTyped, PTL
  <2>2. AreLines(Len(filings'), HeldAt', OutAt')
    BY <1>4, <1>6, <2>1
  <2> QED
    BY <1>2, <2>2 DEF CausesAt, DateAt
<1>8. ASSUME NEW k \in 1..len + 1
      PROVE  /\ IF held THEN Scaled(HeldAt'[k], HeldAt[k], doublings) ELSE HeldAt'[k] = HeldAt[k]
             /\ IF held THEN OutAt'[k] = OutAt[k] ELSE Scaled(OutAt'[k], OutAt[k], doublings)
  <2>1. CASE k = len + 1
    <3> DEFINE unit == PowerOfTwo[MaxEvents]
    <3>1. /\ HeldAt[k] = holding.held * unit /\ HeldAt'[k] = holding'.held * unit
          /\ OutAt[k] = holding.outstanding * unit /\ OutAt'[k] = holding'.outstanding * unit
      BY <1>2, <2>1 DEF HeldAt, OutAt
    <3>2. /\ unit \in Nat /\ holding.held \in Nat /\ holding.outstanding \in Nat
          /\ holding'.held \in Nat /\ holding'.outstanding \in Nat
      BY <1>1, <1>2, <1>3, UnitOfToday, TypeOfToday
    <3> HIDE DEF unit
    <3>3. \A x \in Nat, u \in Nat : (2 * x) * u = 2 * (x * u)
      OBVIOUS
    <3>4. \A x \in Nat, y \in Nat : Scaled(x, y, doublings) => Scaled(x * unit, y * unit, doublings)
      BY <3>2, <3>3 DEF Scaled
    <3> QED
      BY <1>3, <3>1, <3>2, <3>4
  <2>2. CASE k # len + 1
    <3>1. k \in DOMAIN filings
      BY <1>1, <2>2
    <3> DEFINE sec == Since("SECURITY", filings[k].date)
               fund == Since("FUND", filings[k].date)
    <3>2. /\ HeldAt[k] = filings[k].held * PowerOfTwo[MaxEvents + sec]
          /\ HeldAt'[k] = filings[k].held * PowerOfTwo[MaxEvents + sec']
          /\ OutAt[k] = filings[k].outstanding * PowerOfTwo[MaxEvents + fund]
          /\ OutAt'[k] = filings[k].outstanding * PowerOfTwo[MaxEvents + fund']
      BY <1>2, <2>2 DEF HeldAt, OutAt
    <3>3. filings[k].held \in Nat /\ filings[k].outstanding \in Nat
      BY <1>1, <3>1, FilingsAreTyped DEF WorldType
    <3>4. "SECURITY" \in Lines /\ "FUND" \in Lines /\ "SECURITY" # "FUND"
      BY DEF Lines
    <3>5. /\ sec \in Int /\ MaxEvents + sec \in 0..2 * MaxEvents
          /\ fund \in Int /\ MaxEvents + fund \in 0..2 * MaxEvents
      BY <1>1, <1>5, <3>1, <3>4, Exponents
    <3>6. MaxEvents + sec' \in 0..2 * MaxEvents /\ MaxEvents + fund' \in 0..2 * MaxEvents
      <4>1. /\ sec' \in Int /\ -Len(splits') <= sec' /\ sec' <= Len(splits')
            /\ fund' \in Int /\ -Len(splits') <= fund' /\ fund' <= Len(splits')
        BY <1>2, <1>6, <3>1, <3>4 DEF InOrder
      <4>2. Len(splits') \in Nat /\ Len(splits') <= MaxEvents /\ MaxEvents \in Nat
        <5>1. /\ splits' \in Seq(SplitType) /\ Len(splits') <= events' /\ events' <= MaxEvents
              /\ events' \in Nat
          BY <1>4 DEF WorldType
        <5>2. Len(splits') \in Nat
          BY <5>1
        <5> QED
          BY <5>1, <5>2, DisclosuresAssumption
      <4> HIDE DEF sec, fund
      <4>3. \A n \in Int : -Len(splits') <= n /\ n <= Len(splits') => MaxEvents + n \in 0..2 * MaxEvents
        BY <4>2
      <4> QED
        BY <4>1, <4>3
    <3>7. CASE held
      <4>1. sec' = sec + doublings /\ fund' = fund + 0
        BY <1>5, <3>1, <3>4, <3>7
      <4> HIDE DEF sec, fund
      <4>2. fund' = fund
        BY <3>5, <4>1
      <4>3. MaxEvents + (sec + doublings) \in 0..2 * MaxEvents
        BY <3>6, <4>1
      <4>4. Scaled(HeldAt'[k], HeldAt[k], doublings)
        BY <3>2, <3>3, <3>5, <4>1, <4>3, UnitsAreScaled
      <4>5. OutAt'[k] = OutAt[k]
        BY <3>2, <4>2
      <4> QED
        BY <3>7, <4>4, <4>5
    <3>8. CASE ~held
      <4>1. sec' = sec + 0 /\ fund' = fund + doublings
        BY <1>5, <3>1, <3>4, <3>8 DEF Lines
      <4> HIDE DEF sec, fund
      <4>2. sec' = sec
        BY <3>5, <4>1
      <4>3. MaxEvents + (fund + doublings) \in 0..2 * MaxEvents
        BY <3>6, <4>1
      <4>4. Scaled(OutAt'[k], OutAt[k], doublings)
        BY <3>2, <3>3, <3>5, <4>1, <4>3, UnitsAreScaled
      <4>5. HeldAt'[k] = HeldAt[k]
        BY <3>2, <4>2
      <4> QED
        BY <3>8, <4>4, <4>5
    <3> QED
      BY <3>7, <3>8
  <2> QED
    BY <2>1, <2>2
<1>9. Following(len, HeldAt', OutAt', CausesAt, DateAt, rebalances)
  <2>1. \/ \A k \in 1..len + 1 : HeldAt'[k] = 2 * HeldAt[k] /\ OutAt'[k] = OutAt[k]
        \/ \A k \in 1..len + 1 : HeldAt[k] = 2 * HeldAt'[k] /\ OutAt'[k] = OutAt[k]
        \/ \A k \in 1..len + 1 : HeldAt'[k] = HeldAt[k] /\ OutAt'[k] = 2 * OutAt[k]
        \/ \A k \in 1..len + 1 : HeldAt'[k] = HeldAt[k] /\ OutAt[k] = 2 * OutAt'[k]
    <3>1. CASE doublings = 1
      BY <1>8, <3>1 DEF Scaled
    <3>2. CASE doublings = -1
      BY <1>8, <3>2 DEF Scaled
    <3> QED
      BY <3>1, <3>2
  <2> HIDE DEF len
  <2> QED
    BY <1>1, <1>7, <2>1, SplitsFollow
<1> QED
  BY <1>2, <1>4, <1>6, <1>7, <1>9 DEF WorldInv

LEMMA FilingsStay ==
  ASSUME WorldInv, DayEnds(TRUE)
  PROVE  WorldInv'
<1> DEFINE len == Len(filings)
           filing == [date |-> today, held |-> holding.held,
                      outstanding |-> holding.outstanding, causes |-> causes]
<1>1. /\ WorldType /\ InOrder
      /\ Following(len, HeldAt, OutAt, CausesAt, DateAt, rebalances)
      /\ AreLines(len, HeldAt, OutAt) /\ \A k \in 1..len + 1 : DateAt[k] \in Nat
      /\ len \in Nat /\ DOMAIN filings = 1..len
  BY LinesAtDates DEF WorldInv
<1>2. /\ filings' = Append(filings, filing)
      /\ today' = today + 1 /\ splits' = splits /\ holding' = holding
      /\ ingested' = ingested /\ rebalances' = rebalances /\ causes' = {} /\ events' = events
  BY DEF DayEnds
<1>3. /\ filings \in Seq(FilingType) /\ today \in Nat \ {0} /\ rebalances \subseteq Nat
      /\ holding.held \in Nat /\ holding.outstanding \in Nat \ {0}
      /\ causes \subseteq Causes
  BY <1>1 DEF WorldType, HoldingType
<1>4. filing \in FilingType /\ filing.date = today
      /\ filing.held = holding.held /\ filing.outstanding = holding.outstanding
      /\ filing.causes = causes
  BY <1>3 DEF FilingType
<1>5. /\ filings' \in Seq(FilingType) /\ Len(filings') = len + 1
      /\ DOMAIN filings' = 1..len + 1
      /\ filings'[len + 1] = filing
      /\ \A k \in 1..len : filings'[k] = filings[k]
  <2> HIDE DEF filing, FilingType
  <2> QED
    BY <1>2, <1>3, <1>4
<1> HIDE DEF filing
<1>6. WorldType'
  <2>1. ingested \subseteq DOMAIN filings'
    BY <1>1, <1>5 DEF WorldType
  <2>2. today' \in Nat \ {0}
    BY <1>1, <1>2, <1>3 DEF WorldType
  <2> QED
    BY <1>1, <1>2, <1>5, <2>1, <2>2 DEF WorldType
<1>7. \A of, date : Since(of, date)' = Since(of, date)
  BY <1>2 DEF Since
<1>8. \A of \in Lines : Since(of, today) = 0
  BY <1>1, <1>3, NoneSinceToday
<1>9. \A j \in 1..len : filings[j].date \in Nat /\ filings[j].date < today
  BY <1>1, FilingsAreTyped DEF InOrder, WorldType
<1>10. InOrder'
  <2>1. ASSUME NEW j \in DOMAIN filings'
        PROVE  filings'[j].date < today'
    <3>1. CASE j = len + 1
      BY <1>1, <1>2, <1>3, <1>4, <1>5, <3>1 DEF WorldType
    <3>2. CASE j # len + 1
      <4>1. j \in 1..len /\ filings'[j] = filings[j]
        BY <1>1, <1>5, <3>2
      <4>2. filings[j].date < today'
        BY <1>2, <1>3, <1>9, <4>1
      <4> QED
        BY <1>1, <4>1, <4>2 DEF InOrder
    <3> QED
      BY <3>1, <3>2
  <2>2. ASSUME NEW j \in DOMAIN filings', NEW k \in DOMAIN filings', j < k
        PROVE  filings'[j].date < filings'[k].date
    <3>1. j \in 1..len /\ filings'[j] = filings[j]
      BY <1>1, <1>5, <2>2
    <3>2. CASE k = len + 1
      BY <1>4, <1>5, <1>9, <3>1, <3>2
    <3>3. CASE k # len + 1
      <4>1. k \in 1..len /\ filings'[k] = filings[k]
        BY <1>1, <1>5, <3>3
      <4> QED
        BY <1>1, <2>2, <3>1, <4>1 DEF InOrder
    <3> QED
      BY <3>2, <3>3
  <2>3. ASSUME NEW j \in DOMAIN filings', NEW of \in Lines
        PROVE  /\ Since(of, filings[j].date)' \in Int
               /\ -Len(splits) <= Since(of, filings[j].date)'
               /\ Since(of, filings[j].date)' <= Len(splits)
    <3>1. Since(of, filings[j].date)' = Since(of, filings'[j].date)
      BY <1>2 DEF Since
    <3>2. Len(splits) \in Nat
      BY <1>1 DEF WorldType
    <3>3. CASE j = len + 1
      <4>1. filings'[j].date = today
        BY <1>4, <1>5, <3>3
      <4>2. Since(of, filings[j].date)' = 0
        BY <1>8, <3>1, <4>1
      <4> QED
        BY <3>2, <4>2
    <3>4. CASE j # len + 1
      <4>1. j \in DOMAIN filings /\ filings'[j] = filings[j]
        BY <1>1, <1>5, <3>4
      <4> QED
        BY <1>1, <3>1, <4>1 DEF InOrder
    <3> QED
      BY <3>3, <3>4
  <2>4. ASSUME NEW k \in DOMAIN splits PROVE splits[k].date <= today'
    <3>1. splits[k].date <= today /\ splits[k].date \in Nat
      BY <1>1, SplitsAreTyped DEF InOrder, WorldType
    <3> QED
      BY <1>2, <1>3, <3>1
  <2> QED
    BY <1>2, <2>1, <2>2, <2>3, <2>4 DEF InOrder
<1>11. /\ len + 1 \in 1..len + 1 /\ len + 2 \in 1..len + 2 /\ len + 1 + 1 = len + 2
       /\ \A k \in 1..len + 1 : k \in 1..len + 2 /\ k # len + 2 /\ (k = len + 1 \/ k \in 1..len)
       /\ \A k \in 1..len : k # len + 1
  BY <1>1
<1>12. ASSUME NEW k \in 1..len + 1
       PROVE  /\ HeldAt'[k] = HeldAt[k] /\ OutAt'[k] = OutAt[k]
              /\ CausesAt'[k] = CausesAt[k] /\ DateAt'[k] = DateAt[k]
  <2>1. /\ HeldAt'[k] = filings'[k].held * PowerOfTwo[MaxEvents + Since("SECURITY", filings'[k].date)]
        /\ OutAt'[k] = filings'[k].outstanding * PowerOfTwo[MaxEvents + Since("FUND", filings'[k].date)]
        /\ CausesAt'[k] = filings'[k].causes /\ DateAt'[k] = filings'[k].date
    <3>1. /\ k \in 1..Len(filings') + 1 /\ k # Len(filings') + 1
      BY <1>5, <1>11
    <3>2. /\ Since("SECURITY", filings[k].date)' = Since("SECURITY", filings'[k].date)
          /\ Since("FUND", filings[k].date)' = Since("FUND", filings'[k].date)
      BY <1>2 DEF Since
    <3>3. /\ HeldAt'[k] = filings'[k].held
                            * PowerOfTwo[MaxEvents + Since("SECURITY", filings[k].date)']
          /\ OutAt'[k] = filings'[k].outstanding
                           * PowerOfTwo[MaxEvents + Since("FUND", filings[k].date)']
      BY <3>1 DEF HeldAt, OutAt
    <3>4. CausesAt'[k] = filings'[k].causes /\ DateAt'[k] = filings'[k].date
      BY <3>1 DEF CausesAt, DateAt
    <3> QED
      BY <3>2, <3>3, <3>4
  <2>2. CASE k = len + 1
    <3>1. /\ HeldAt[k] = holding.held * PowerOfTwo[MaxEvents]
          /\ OutAt[k] = holding.outstanding * PowerOfTwo[MaxEvents]
          /\ CausesAt[k] = causes /\ DateAt[k] = today
      BY <1>11, <2>2 DEF HeldAt, OutAt, CausesAt, DateAt
    <3>2. Since("SECURITY", today) = 0 /\ Since("FUND", today) = 0 /\ MaxEvents + 0 = MaxEvents
      BY <1>8, DisclosuresAssumption DEF Lines
    <3> QED
      BY <1>4, <1>5, <2>1, <2>2, <3>1, <3>2
  <2>3. CASE k # len + 1
    <3>1. /\ HeldAt[k] = filings[k].held * PowerOfTwo[MaxEvents + Since("SECURITY", filings[k].date)]
          /\ OutAt[k] = filings[k].outstanding * PowerOfTwo[MaxEvents + Since("FUND", filings[k].date)]
          /\ CausesAt[k] = filings[k].causes /\ DateAt[k] = filings[k].date
      BY <1>11, <2>3 DEF HeldAt, OutAt, CausesAt, DateAt
    <3>2. filings'[k] = filings[k]
      BY <1>5, <1>11, <2>3
    <3> QED
      BY <2>1, <3>1, <3>2
  <2> QED
    BY <2>2, <2>3
<1>13. /\ HeldAt'[len + 2] = HeldAt[len + 1] /\ OutAt'[len + 2] = OutAt[len + 1]
       /\ CausesAt'[len + 2] = {} /\ DateAt'[len + 2] = today + 1 /\ DateAt[len + 1] = today
  <2>1. /\ HeldAt[len + 1] = holding.held * PowerOfTwo[MaxEvents]
        /\ OutAt[len + 1] = holding.outstanding * PowerOfTwo[MaxEvents]
        /\ DateAt[len + 1] = today
    BY <1>11 DEF HeldAt, OutAt, DateAt
  <2>2. len + 2 = Len(filings') + 1 /\ len + 2 \in 1..Len(filings') + 1
    BY <1>5, <1>11
  <2>3. /\ HeldAt'[len + 2] = holding'.held * PowerOfTwo[MaxEvents]
        /\ OutAt'[len + 2] = holding'.outstanding * PowerOfTwo[MaxEvents]
        /\ CausesAt'[len + 2] = causes' /\ DateAt'[len + 2] = today'
    BY <2>2 DEF HeldAt, OutAt, CausesAt, DateAt
  <2> QED
    BY <1>2, <2>1, <2>3
<1>14. Following(len + 1, HeldAt', OutAt', CausesAt', DateAt', rebalances)
  <2>1. /\ \A k \in 1..len + 1 : DateAt[k] \in Int
        /\ rebalances \subseteq Int
        /\ DateAt'[len + 2] \in Int /\ DateAt[len + 1] <= DateAt'[len + 2]
    BY <1>1, <1>3, <1>13
  <2>2. \A k \in 1..len + 1 : HeldAt'[k] = HeldAt[k] /\ OutAt'[k] = OutAt[k]
          /\ CausesAt'[k] = CausesAt[k] /\ DateAt'[k] = DateAt[k]
    BY <1>12
  <2> HIDE DEF len
  <2> QED
    BY <1>1, <1>13, <2>1, <2>2, FilingFollows
<1> QED
  BY <1>2, <1>5, <1>6, <1>10, <1>14 DEF WorldInv

LEMMA WorldStarts ==
  DisclosuresInit => WorldInv
<1> SUFFICES ASSUME DisclosuresInit PROVE WorldInv
  OBVIOUS
<1>1. filings = <<>> /\ splits = <<>> /\ Len(filings) = 0 /\ Len(splits) = 0 /\ DOMAIN filings = {}
  BY DEF DisclosuresInit
<1>2. holding \in HoldingType
  BY DEF DisclosuresInit, HoldingType
<1>3. filings \in Seq(FilingType) /\ splits \in Seq(SplitType)
  <2> HIDE DEF FilingType, SplitType
  <2> QED
    BY <1>1
<1>4. WorldType
  BY <1>1, <1>2, <1>3, DisclosuresAssumption DEF DisclosuresInit, WorldType
<1>5. InOrder
  BY <1>1 DEF InOrder
<1>6. Following(Len(filings), HeldAt, OutAt, CausesAt, DateAt, rebalances)
  <2>1. \A j \in 1..Len(filings) : FALSE
    BY <1>1
  <2> QED
    BY <2>1 DEF Following
<1> QED
  BY <1>4, <1>5, <1>6 DEF WorldInv

LEMMA WorldStays ==
  WorldInv /\ [DisclosuresNext]_disclosureVars => WorldInv'
<1> SUFFICES ASSUME WorldInv, [DisclosuresNext]_disclosureVars PROVE WorldInv'
  OBVIOUS
<1>1. /\ "BUY" \in Causes /\ "SELL" \in Causes /\ "INDEX" \in Causes
      /\ 1 \in {-1, 1} /\ -1 \in {-1, 1} /\ "BUY" # "SELL" /\ "INDEX" # "BUY" /\ "INDEX" # "SELL"
  BY DEF Causes
<1>2. CASE Traded("BUY", 1) /\ Bounded(holding')
  BY <1>1, <1>2, TradesStay
<1>3. CASE Traded("SELL", -1) /\ Bounded(holding')
  BY <1>1, <1>3, TradesStay
<1>4. ASSUME NEW shares \in {-1, 1}, Traded("INDEX", shares), Bounded(holding') PROVE WorldInv'
  BY <1>1, <1>4, TradesStay
<1>5. CASE (Created \/ Redeemed) /\ Bounded(holding')
  BY <1>5, FlowsStay
<1>6. ASSUME NEW of \in Lines, NEW doublings \in {-1, 1}, Split(of, doublings), Bounded(holding')
      PROVE  WorldInv'
  BY <1>6, SplitsStay
<1>8. CASE DayEnds(TRUE)
  BY <1>8, FilingsStay
<1>9. CASE DayEnds(FALSE)
  BY <1>9, OthersStay
<1>10. CASE \E k \in DOMAIN filings : Ingest(k)
  BY <1>10, OthersStay
<1>11. CASE UNCHANGED disclosureVars
  BY <1>11, OthersStay
<1>12. (\E files \in BOOLEAN : DayEnds(files)) => DayEnds(TRUE) \/ DayEnds(FALSE)
  OBVIOUS
<1> QED
  BY <1>2, <1>3, <1>4, <1>5, <1>6, <1>8, <1>9, <1>10, <1>11, <1>12 DEF DisclosuresNext

\* A filing's row, in the panel, is its line in the units of today.
LEMMA RowsAreLines ==
  ASSUME WorldInv, NEW k \in DOMAIN filings
  PROVE  /\ Adjusted(filings[k]).held = HeldAt[k] /\ Adjusted(filings[k]).outstanding = OutAt[k]
         /\ filings[k].causes = CausesAt[k] /\ filings[k].date = DateAt[k]
         /\ HeldAt[k] \in Nat /\ OutAt[k] \in Nat \ {0} /\ DateAt[k] \in Nat
         /\ HeldAt[k] > 0 <=> filings[k].held > 0
<1>1. WorldType /\ InOrder /\ Len(filings) \in Nat /\ DOMAIN filings = 1..Len(filings)
  BY LinesAtDates DEF WorldInv
<1>2. k \in 1..Len(filings) + 1 /\ k # Len(filings) + 1
  BY <1>1
<1>3. filings[k].held \in Nat /\ filings[k].outstanding \in Nat /\ filings[k].date \in Nat
  BY <1>1, FilingsAreTyped DEF WorldType
<1>5. ASSUME NEW of PROVE Doublings(of, filings[k]) = Since(of, filings[k].date)
  BY DEF Doublings, Since, Later
<1>6. /\ HeldAt[k] = filings[k].held * PowerOfTwo[MaxEvents + Since("SECURITY", filings[k].date)]
      /\ OutAt[k] = filings[k].outstanding * PowerOfTwo[MaxEvents + Since("FUND", filings[k].date)]
      /\ CausesAt[k] = filings[k].causes /\ DateAt[k] = filings[k].date
  BY <1>2 DEF HeldAt, OutAt, CausesAt, DateAt
<1>7. /\ Adjusted(filings[k]).held =
           filings[k].held * PowerOfTwo[MaxEvents + Doublings("SECURITY", filings[k])]
      /\ Adjusted(filings[k]).outstanding =
           filings[k].outstanding * PowerOfTwo[MaxEvents + Doublings("FUND", filings[k])]
  BY DEF Adjusted
<1>8. /\ Adjusted(filings[k]).held = HeldAt[k]
      /\ Adjusted(filings[k]).outstanding = OutAt[k]
  BY <1>5, <1>6, <1>7
<1>9. HeldAt[k] \in Nat /\ OutAt[k] \in Nat \ {0} /\ DateAt[k] \in Nat
  BY <1>1, <1>2, LinesAtDates DEF AreLines
<1>10. HeldAt[k] > 0 <=> filings[k].held > 0
  <2>1. "SECURITY" \in Lines
    BY DEF Lines
  <2>2. PowerOfTwo[MaxEvents + Since("SECURITY", filings[k].date)] \in Nat \ {0}
    BY <1>1, <2>1, Exponents DEF InOrder
  <2>3. \A a \in Nat, b \in Nat \ {0} : a * b > 0 <=> a > 0
    OBVIOUS
  <2> QED
    BY <1>3, <1>6, <2>2, <2>3
<1> QED
  BY <1>6, <1>8, <1>9, <1>10

\* What is between a row and one that follows.
LEMMA RowsInOrder ==
  ASSUME WorldInv, NEW j \in DOMAIN filings, NEW k \in DOMAIN filings, j < k,
         NEW by, by = UNION {filings[i].causes : i \in j + 1..k}
  PROVE  /\ Fits(HeldAt[j], OutAt[j], HeldAt[k], OutAt[k], by)
         /\ "INDEX" \in by => \E r \in rebalances : DateAt[j] < r /\ r <= DateAt[k]
         /\ DateAt[j] < DateAt[k]
<1>1. WorldType /\ InOrder /\ Len(filings) \in Nat /\ DOMAIN filings = 1..Len(filings)
  BY LinesAtDates DEF WorldInv
<1>2. \A i \in j + 1..k : i \in DOMAIN filings
  BY <1>1
<1>3. by = UNION {CausesAt[i] : i \in j + 1..k}
  <2>1. \A i \in j + 1..k : filings[i].causes = CausesAt[i]
    BY <1>2, RowsAreLines
  <2> QED
    BY <2>1
<1>4. DateAt[j] < DateAt[k]
  BY <1>1, RowsAreLines DEF InOrder
<1>5. j \in 1..Len(filings) /\ k \in 1..Len(filings) + 1
  BY <1>1
<1> QED
  BY <1>3, <1>4, <1>5 DEF WorldInv, Following

\* Lines that fit fit in other units, too.
LEMMA FitsInOtherUnits ==
  ASSUME NEW h \in Nat, NEW n \in Nat, NEW held \in Nat, NEW out \in Nat, NEW by,
         NEW s \in Nat \ {0}, NEW f \in Nat \ {0}, Fits(h * s, n * f, held * s, out * f, by)
  PROVE  Fits(h, n, held, out, by)
<1> DEFINE x == held * n
           y == h * out
           u == s * f
<1>1. x \in Nat /\ y \in Nat /\ u \in Nat \ {0}
  OBVIOUS
<1>2. (held * s) * (n * f) = x * u /\ (h * s) * (out * f) = y * u
  OBVIOUS
<1> HIDE DEF x, y, u
<1>3. \A a \in Nat, b \in Nat, v \in Nat \ {0} :
        /\ a * v = b * v => a = b
        /\ a * v > b * v => a > b
        /\ a * v < b * v => a < b
  OBVIOUS
<1>4. /\ x * u = y * u => x = y
      /\ x * u > y * u => x > y
      /\ x * u < y * u => x < y
  BY <1>1, <1>3
<1> QED
  BY <1>2, <1>4 DEF Fits, x, y

\* What a deviation is computed as tells those of a line that fits apart.
Tells(by, deviations) ==
  /\ by = {} => \A aqd \in deviations : aqd \in -1..1
  /\ by = {"BUY"} => \A aqd \in deviations : aqd > 1
  /\ by = {"SELL"} => \A aqd \in deviations : aqd < -1

LEMMA ComputedTells ==
  ASSUME NEW h \in Nat, NEW n \in Nat, NEW held \in Nat, NEW out \in Nat, NEW by,
         Fits(h, n, held, out, by)
  PROVE  Tells(by, Computed(held * n - h * out))
<1> DEFINE x == held * n
           y == h * out
           d == x - y
<1>1. x \in Int /\ y \in Int /\ Precision \in Nat /\ Precision > 2
  BY DisclosuresAssumption
<1>2. /\ by = {} => x = y
      /\ by = {"BUY"} => x > y
      /\ by = {"SELL"} => x < y
  BY DEF Fits
<1> HIDE DEF x, y
<1>3. /\ d \in Int
      /\ by = {} => d = 0
      /\ by = {"BUY"} => d >= 1
      /\ by = {"SELL"} => d <= -1
  BY <1>1, <1>2
<1> HIDE DEF d
<1>4. /\ Precision * 0 = 0
      /\ d >= 1 => Precision * d >= Precision
      /\ d <= -1 => Precision * d <= -Precision
      /\ Precision * d \in Int
  <2>1. \A v \in Nat, w \in Nat : w >= 1 => v * w >= v
    OBVIOUS
  <2>2. d >= 1 => Precision * d >= Precision
    BY <1>1, <1>3, <2>1
  <2>3. ASSUME d <= -1 PROVE Precision * d <= -Precision
    <3>1. Precision * (-d) >= Precision
      BY <1>1, <1>3, <2>1, <2>3
    <3>2. \A v \in Nat, w \in Int : v * (-w) = -(v * w) /\ v * w \in Int
      OBVIOUS
    <3>3. Precision * (-d) = -(Precision * d) /\ Precision * d \in Int
      BY <1>1, <1>3, <3>2
    <3> QED
      BY <1>1, <3>1, <3>3
  <2>4. \A v \in Nat, w \in Int : v * w \in Int /\ v * 0 = 0
    OBVIOUS
  <2> QED
    BY <1>1, <1>3, <2>2, <2>3, <2>4
<1>5. SUFFICES ASSUME NEW aqd \in Computed(d)
               PROVE  /\ by = {} => aqd \in -1..1
                      /\ by = {"BUY"} => aqd > 1
                      /\ by = {"SELL"} => aqd < -1
  BY DEF Tells, d, x, y
<1>6. PICK error \in -1..1 : aqd = Precision * d + error
  BY DEF Computed
<1> QED
  BY <1>1, <1>3, <1>4, <1>6

\* Rows with no split between them are in the same units.
LEMMA UnsplitRows ==
  ASSUME WorldInv, NEW p \in DOMAIN filings, NEW k \in DOMAIN filings, p < k,
         \A i \in DOMAIN splits : splits[i].date \notin filings[p].date + 1..filings[k].date,
         NEW by, Fits(HeldAt[p], OutAt[p], HeldAt[k], OutAt[k], by)
  PROVE  Fits(filings[p].held, filings[p].outstanding, filings[k].held, filings[k].outstanding, by)
<1>1. WorldType /\ InOrder /\ Len(filings) \in Nat /\ DOMAIN filings = 1..Len(filings)
  BY LinesAtDates DEF WorldInv
<1>2. \A j \in {p, k} : /\ filings[j].held \in Nat /\ filings[j].outstanding \in Nat
                        /\ filings[j].date \in Nat
  BY <1>1, FilingsAreTyped DEF WorldType
<1>3. filings[p].date < filings[k].date
  BY <1>1 DEF InOrder
<1>4. \A i \in DOMAIN splits : splits[i].date > filings[p].date <=> splits[i].date > filings[k].date
  <2> SUFFICES ASSUME NEW i \in DOMAIN splits
               PROVE  splits[i].date > filings[p].date <=> splits[i].date > filings[k].date
    OBVIOUS
  <2>1. splits[i].date \in Nat /\ splits[i].date \notin filings[p].date + 1..filings[k].date
    BY <1>1, SplitsAreTyped DEF WorldType
  <2> QED
    BY <1>2, <1>3, <2>1
<1>5. \A of : Since(of, filings[p].date) = Since(of, filings[k].date)
  <2> SUFFICES ASSUME NEW of PROVE Since(of, filings[p].date) = Since(of, filings[k].date)
    OBVIOUS
  <2>1. {i \in DOMAIN splits : splits[i].of = of /\ splits[i].date > filings[p].date}
          = {i \in DOMAIN splits : splits[i].of = of /\ splits[i].date > filings[k].date}
    BY <1>4
  <2> QED
    BY <2>1 DEF Since
<1> DEFINE s == PowerOfTwo[MaxEvents + Since("SECURITY", filings[k].date)]
           f == PowerOfTwo[MaxEvents + Since("FUND", filings[k].date)]
<1>6. s \in Nat \ {0} /\ f \in Nat \ {0}
  <2>1. "SECURITY" \in Lines /\ "FUND" \in Lines
    BY DEF Lines
  <2> QED
    BY <1>1, <2>1, Exponents DEF InOrder
<1>7. /\ HeldAt[p] = filings[p].held * s /\ OutAt[p] = filings[p].outstanding * f
      /\ HeldAt[k] = filings[k].held * s /\ OutAt[k] = filings[k].outstanding * f
  <2>1. \A j \in {p, k} : j \in 1..Len(filings) + 1 /\ j # Len(filings) + 1
    BY <1>1
  <2> QED
    BY <1>5, <2>1 DEF HeldAt, OutAt
<1> HIDE DEF s, f
<1>8. Fits(filings[p].held * s, filings[p].outstanding * f,
           filings[k].held * s, filings[k].outstanding * f, by)
  BY <1>7
<1>9. \A h, n, held, out \in Nat :
        Fits(h * s, n * f, held * s, out * f, by) => Fits(h, n, held, out, by)
  BY <1>6, FitsInOtherUnits
<1> QED
  BY <1>2, <1>8, <1>9

LEMMA AdoptionShows ==
  WorldInv => FlowIsNotAdoption
<1> SUFFICES ASSUME WorldInv, NEW k \in Rows, HasPrior(k)
             PROVE  /\ Tells(CausesOf(k), Deviations(k))
                    /\ CausesOf(k) = {"INDEX"}
                       /\ filings[k].date - filings[Prior(k)].date <= WindowDays + 1
                         => Contaminated(filings[k])
  BY DEF FlowIsNotAdoption, Tells
<1>1. /\ WorldType /\ DOMAIN filings = 1..Len(filings) /\ Len(filings) \in Nat
      /\ ingested \subseteq DOMAIN filings
  BY LinesAtDates DEF WorldInv, WorldType
<1>2. k \in DOMAIN filings /\ k \in Int /\ filings[k].held > 0 /\ \A j \in Rows : j \in DOMAIN filings
  BY <1>1 DEF Rows
<1>3. Earlier(k) = {j \in Rows : j < k}
  BY DEF Earlier
<1> DEFINE p == Prior(k)
           before == {j \in ingested : j < k}
           d == Max(before)
           by == CausesOf(k)
<1>5. IsFiniteSet(before) /\ before \in SUBSET Int /\ IsFiniteSet(Earlier(k)) /\ Earlier(k) \in SUBSET Int
  <2>1. IsFiniteSet(1..Len(filings))
    BY <1>1, FS_Interval
  <2>2. before \subseteq 1..Len(filings) /\ Earlier(k) \subseteq before
    BY <1>1, <1>3 DEF Rows
  <2>3. before \subseteq 1..Len(filings) /\ Earlier(k) \subseteq 1..Len(filings)
    BY <2>2
  <2> QED
    BY <2>1, <2>3, FS_Subset
<1>6. p \in Earlier(k) /\ \A j \in Earlier(k) : j <= p
  BY <1>5, GreatestOfFinite DEF HasPrior, Prior
<1>7. p \in Rows /\ p < k /\ p \in DOMAIN filings /\ p \in before /\ filings[p].held > 0
  BY <1>1, <1>3, <1>6 DEF Rows
<1>8. d \in before /\ \A j \in before : j <= d
  <2> HIDE DEF before, p
  <2> QED
    BY <1>5, <1>7, GreatestOfFinite
<1>9. d \in ingested /\ d < k /\ d \in DOMAIN filings /\ p <= d
  BY <1>1, <1>7, <1>8
<1>10. d \in Rows => d = p
  <2>1. d \in Rows => d <= p
    BY <1>3, <1>6, <1>9
  <2>2. d \in Int /\ p \in Int
    BY <1>1, <1>7, <1>9
  <2> HIDE DEF d, p
  <2> QED
    BY <1>9, <2>1, <2>2
<1>11. by = UNION {filings[i].causes : i \in p + 1..k}
  BY DEF CausesOf
<1> HIDE DEF d, p, before, by
<1>12. /\ Fits(HeldAt[p], OutAt[p], HeldAt[k], OutAt[k], by)
       /\ "INDEX" \in by => \E r \in rebalances : DateAt[p] < r /\ r <= DateAt[k]
       /\ DateAt[p] < DateAt[k]
  BY <1>2, <1>7, <1>11, RowsInOrder
<1>13. \A j \in {p, d, k} :
         /\ Adjusted(filings[j]).held = HeldAt[j] /\ Adjusted(filings[j]).outstanding = OutAt[j]
         /\ filings[j].date = DateAt[j]
         /\ HeldAt[j] \in Nat /\ OutAt[j] \in Nat \ {0} /\ DateAt[j] \in Nat
         /\ HeldAt[j] > 0 <=> filings[j].held > 0
  BY <1>2, <1>7, <1>9, RowsAreLines
<1>14. by \in {{}, {"BUY"}, {"SELL"}} => d = p
  <2> SUFFICES ASSUME by \in {{}, {"BUY"}, {"SELL"}}, d # p PROVE FALSE
    OBVIOUS
  <2>1. p < d /\ p \in Int /\ d \in Int /\ k \in Int
    BY <1>1, <1>2, <1>7, <1>9
  <2>2. filings[d].held > 0 => d \in Rows
    BY <1>9 DEF Rows
  <2>3. ~(filings[d].held > 0)
    BY <1>10, <2>2
  <2> DEFINE first == UNION {filings[i].causes : i \in p + 1..d}
             then == UNION {filings[i].causes : i \in d + 1..k}
  <2>4. first \subseteq by /\ then \subseteq by
    <3>1. \A i \in p + 1..d : i \in p + 1..k
      BY <1>9, <2>1
    <3>2. \A i \in d + 1..k : i \in p + 1..k
      BY <2>1
    <3> QED
      BY <1>11, <3>1, <3>2
  <2>5. /\ Fits(HeldAt[p], OutAt[p], HeldAt[d], OutAt[d], first)
        /\ Fits(HeldAt[d], OutAt[d], HeldAt[k], OutAt[k], then)
    BY <1>2, <1>7, <1>9, <2>1, RowsInOrder
  <2> HIDE DEF first, then
  <2>6. CASE by \in {{}, {"BUY"}}
    <3>1. first = {} \/ first = {"BUY"}
      BY <2>4, <2>6
    <3>2. HeldAt[p] > 0
      BY <1>7, <1>13
    <3>3. HeldAt[d] > 0
      BY <1>13, <2>5, <3>1, <3>2, FitsWhileHeld
    <3> QED
      BY <1>13, <2>3, <3>3
  <2>7. CASE by = {"SELL"}
    <3>1. then = {} \/ then = {"SELL"}
      BY <2>4, <2>7
    <3>2. HeldAt[k] > 0
      BY <1>2, <1>13
    <3>3. HeldAt[d] > 0
      BY <1>13, <2>5, <3>1, <3>2, FitsWhileHeld
    <3> QED
      BY <1>13, <2>3, <3>3
  <2> QED
    BY <2>6, <2>7
<1>15. Tells(by, Computed(Normalized(k)))
  <2>1. Normalized(k) = HeldAt[k] * OutAt[p] - HeldAt[p] * OutAt[k]
    BY <1>13 DEF Normalized, Deviation, p
  <2>2. Tells(by, Computed(HeldAt[k] * OutAt[p] - HeldAt[p] * OutAt[k]))
    BY <1>12, <1>13, ComputedTells
  <2> QED
    BY <2>1, <2>2
<1>16. ASSUME Unsplit(k) PROVE Tells(by, Computed(Detected(k)))
  <2>1. CASE by \notin {{}, {"BUY"}, {"SELL"}}
    BY <2>1 DEF Tells
  <2>2. CASE by \in {{}, {"BUY"}, {"SELL"}}
    <3>1. d = p
      BY <1>14, <2>2
    <3>2. Fits(filings[p].held, filings[p].outstanding, filings[k].held, filings[k].outstanding, by)
      BY <1>2, <1>7, <1>12, <1>16, UnsplitRows DEF Unsplit, p
    <3>3. \A j \in {p, k} : filings[j].held \in Nat /\ filings[j].outstanding \in Nat
      BY <1>1, <1>2, <1>7, FilingsAreTyped DEF WorldType
    <3>4. Tells(by, Computed(filings[k].held * filings[p].outstanding
                               - filings[p].held * filings[k].outstanding))
      BY <3>2, <3>3, ComputedTells
    <3>5. Detected(k) = filings[k].held * filings[p].outstanding
                          - filings[p].held * filings[k].outstanding
      BY <3>1 DEF Detected, Deviation, p, d, before
    <3> QED
      BY <3>4, <3>5
  <2> QED
    BY <2>1, <2>2
<1>17. Tells(by, Deviations(k))
  <2>1. CASE Unsplit(k)
    <3>1. Deviations(k) = Computed(Normalized(k)) \union Computed(Detected(k))
      BY <2>1 DEF Deviations
    <3>2. Tells(by, Computed(Normalized(k))) /\ Tells(by, Computed(Detected(k)))
      BY <1>15, <1>16, <2>1
    <3> QED
      BY <3>1, <3>2 DEF Tells
  <2>2. CASE ~Unsplit(k)
    <3>1. Deviations(k) = Computed(Normalized(k))
      BY <2>2 DEF Deviations
    <3> QED
      BY <1>15, <3>1
  <2> QED
    BY <2>1, <2>2
<1>21. by = {"INDEX"} /\ filings[k].date - filings[p].date <= WindowDays + 1 => Contaminated(filings[k])
  <2>1. filings[k].date = DateAt[k] /\ filings[p].date = DateAt[p]
    BY <1>13
  <2> SUFFICES ASSUME by = {"INDEX"}, DateAt[k] - DateAt[p] <= WindowDays + 1
               PROVE  Contaminated(filings[k])
    BY <2>1
  <2>2. PICK r \in rebalances : DateAt[p] < r /\ r <= DateAt[k]
    BY <1>12
  <2>3. r \in Int /\ DateAt[p] \in Int /\ DateAt[k] \in Int /\ WindowDays \in Int
    BY <1>1, <1>13, DisclosuresAssumption DEF WorldType
  <2>4. DateAt[k] \in r - WindowDays..r + WindowDays
    BY <1>12, <2>2, <2>3
  <2> QED
    BY <2>1, <2>4 DEF Contaminated
<1> QED
  BY <1>17, <1>21 DEF p, by

\* Between two rows of the panel a manager who did not trade shows no more than a
\* rounding error, one who only bought more than that above 0 and one who only sold
\* more than that below, whatever creations and redemptions there were - and splits,
\* where the adjuster is used; and what the index alone has caused is tagged
\* (FlowIsNotAdoption).
THEOREM AdoptionIsTheManagers == DisclosuresSpec => []FlowIsNotAdoption
<1>1. DisclosuresInit => WorldInv
  BY WorldStarts
<1>2. WorldInv /\ [DisclosuresNext]_disclosureVars => WorldInv'
  BY WorldStays
<1>3. WorldInv => FlowIsNotAdoption
  BY AdoptionShows
<1> QED
  BY <1>1, <1>2, <1>3, PTL DEF DisclosuresSpec

-----------------------------------------------------------------------------
(* Sorting.                                                                *)

\* The places are those sorted, in another order, in which the figure does not rise.
Order(places, figure, place) ==
  /\ place \in [1..Cardinality(places) -> places]
  /\ \A m, n \in 1..Cardinality(places) : place[m] = place[n] => m = n
  /\ \A k \in places : \E m \in 1..Cardinality(places) : place[m] = k
  /\ \A m, n \in 1..Cardinality(places) : m < n => figure[place[m]] >= figure[place[n]]

LEMMA SortedInOrder ==
  ASSUME NEW seq, NEW places, NEW figure, IsScored(places, figure)
  PROVE  \E place : /\ Order(places, figure, place)
                    /\ Cardinality(places) \in Nat
                    /\ Sorted(seq, places, figure) = [m \in 1..Cardinality(places) |-> seq[place[m]]]
<1> DEFINE len == Cardinality(places)
           place == [m \in 1..len |-> CHOOSE k \in places : Rank(places, figure, k) = m - 1]
<1>1. len \in Nat
  BY FS_CardinalityType DEF IsScored
<1>2. Sorted(seq, places, figure) = [m \in 1..len |-> seq[place[m]]]
  BY DEF Sorted, Rank, Before
<1> HIDE DEF len
<1>3. ASSUME NEW m \in 1..len
      PROVE  place[m] \in places /\ Rank(places, figure, place[m]) = m - 1
  <2>1. m - 1 \in 0..(len - 1)
    BY <1>1
  <2>2. \E k \in places : Rank(places, figure, k) = m - 1
    BY <2>1, OneOfEachRank DEF len
  <2> QED
    BY <2>2
<1>4. place \in [1..len -> places]
  BY <1>3
<1> HIDE DEF place
<1>5. \A m, n \in 1..len : place[m] = place[n] => m = n
  <2> SUFFICES ASSUME NEW m \in 1..len, NEW n \in 1..len, place[m] = place[n] PROVE m = n
    OBVIOUS
  <2>1. m - 1 = n - 1
    BY <1>3
  <2> QED
    BY <1>1, <2>1
<1>6. ASSUME NEW k \in places PROVE \E m \in 1..len : place[m] = k
  <2> DEFINE r == Rank(places, figure, k)
  <2>1. r \in 0..(len - 1)
    BY RankType DEF len
  <2> HIDE DEF r
  <2>2. PICK m \in 1..len : m - 1 = r
    <3>1. \A m : m = r + 1 => m \in 1..len /\ m - 1 = r
      BY <1>1, <2>1
    <3> QED
      BY <3>1
  <2>3. place[m] \in places /\ Rank(places, figure, place[m]) = r
    BY <1>3, <2>2
  <2>4. \A i, j \in places : Rank(places, figure, i) = Rank(places, figure, j) => i = j
    BY OneOfEachRank
  <2>5. place[m] = k
    BY <2>3, <2>4 DEF r
  <2> QED
    BY <2>2, <2>5
<1>7. ASSUME NEW m \in 1..len, NEW n \in 1..len, m < n
      PROVE  figure[place[m]] >= figure[place[n]]
  <2>1. /\ place[m] \in places /\ place[n] \in places
        /\ Rank(places, figure, place[m]) = m - 1 /\ Rank(places, figure, place[n]) = n - 1
    BY <1>3
  <2>2. figure[place[m]] \in Int /\ figure[place[n]] \in Int
    BY <2>1 DEF IsScored
  <2>3. ~(figure[place[m]] < figure[place[n]])
    <3> SUFFICES ASSUME figure[place[m]] < figure[place[n]] PROVE FALSE
      OBVIOUS
    <3>1. place[n] \in Before(places, figure, place[m])
      BY <2>1, <2>2 DEF Before
    <3>2. n - 1 < m - 1
      BY <2>1, <3>1, LowerRank
    <3> QED
      BY <1>1, <1>7, <3>2
  <2> QED
    BY <2>2, <2>3
<1> QED
  BY <1>1, <1>2, <1>4, <1>5, <1>6, <1>7 DEF Order, len

\* A whole sequence, sorted, is one of as many of its elements, with all of them.
LEMMA SortedType ==
  ASSUME NEW T, NEW seq \in Seq(T), NEW figure, \A k \in DOMAIN seq : figure[k] \in Int
  PROVE  /\ Sorted(seq, DOMAIN seq, figure) \in Seq(T)
         /\ Len(Sorted(seq, DOMAIN seq, figure)) = Len(seq)
         /\ \A m \in 1..Len(seq) : \E k \in DOMAIN seq : Sorted(seq, DOMAIN seq, figure)[m] = seq[k]
<1> DEFINE len == Len(seq)
           sorted == Sorted(seq, DOMAIN seq, figure)
<1>1. len \in Nat /\ DOMAIN seq = 1..len /\ \A k \in 1..len : seq[k] \in T
  OBVIOUS
<1> HIDE DEF len
<1>2. IsFiniteSet(1..len) /\ Cardinality(1..len) = len
  BY <1>1, FS_Interval
<1>3. IsScored(DOMAIN seq, figure)
  BY <1>1, <1>2 DEF IsScored
<1>4. PICK place : /\ Order(DOMAIN seq, figure, place)
                   /\ sorted = [m \in 1..Cardinality(DOMAIN seq) |-> seq[place[m]]]
  <2>1. ASSUME NEW places, places = DOMAIN seq
        PROVE  \E place : /\ Order(places, figure, place)
                          /\ Sorted(seq, places, figure)
                               = [m \in 1..Cardinality(places) |-> seq[place[m]]]
    <3>1. IsScored(places, figure)
      BY <1>3, <2>1
    <3> QED
      BY <3>1, SortedInOrder
  <2> QED
    BY <2>1
<1>5. place \in [1..len -> 1..len] /\ sorted = [m \in 1..len |-> seq[place[m]]]
  <2>1. Cardinality(DOMAIN seq) = len
    BY <1>1, <1>2
  <2>2. place \in [1..Cardinality(DOMAIN seq) -> DOMAIN seq]
    BY <1>4 DEF Order
  <2> HIDE DEF sorted
  <2> QED
    BY <1>1, <1>4, <2>1, <2>2
<1> HIDE DEF sorted
<1>6. sorted \in [1..len -> T]
  BY <1>1, <1>5
<1>7. sorted \in Seq(T) /\ Len(sorted) = len
  BY <1>1, <1>6
<1>8. \A m \in 1..len : \E k \in DOMAIN seq : sorted[m] = seq[k]
  BY <1>1, <1>5
<1> QED
  BY <1>7, <1>8 DEF sorted, len

\* A finite set, as a sequence.
LEMMA SetAsSequence ==
  ASSUME NEW S, IsFiniteSet(S)
  PROVE  /\ SetToSeq(S) \in Seq(S) /\ Len(SetToSeq(S)) = Cardinality(S)
         /\ Cardinality(S) \in Nat
<1> DEFINE n == Cardinality(S)
<1>1. n \in Nat /\ ExistsBijection(1..n, S)
  BY FS_CardinalityType
<1> HIDE DEF n
<1>2. \E f \in [1..n -> S] : IsInjective(f)
  BY <1>1 DEF ExistsBijection, Bijection, Injection
<1>3. SetToSeq(S) \in [1..n -> S]
  BY <1>2 DEF SetToSeq, n
<1>4. SetToSeq(S) \in Seq(S) /\ Len(SetToSeq(S)) = n
  <2> HIDE DEF n
  <2> QED
    BY <1>1, <1>3
<1> QED
  BY <1>1, <1>4 DEF n

-----------------------------------------------------------------------------
(* Figures.                                                                *)

\* A rounded quotient; it is not negative only when the dividend nearly is not.
LEMMA RoundType ==
  ASSUME NEW n \in Int, NEW d \in Nat \ {0}
  PROVE  Round(n, d) \in Int /\ (Round(n, d) >= 0 => 2 * n + d >= 0)
<1> DEFINE a == 2 * n + d
           b == 2 * d
<1>1. a \in Int /\ b \in Nat \ {0}
  OBVIOUS
<1> HIDE DEF a, b
<1>2. a \div b \in Int /\ (a \div b >= 0 => a >= 0)
  BY <1>1
<1> QED
  BY <1>2 DEF Round, a, b

\* A percentage, whatever it was.
LEMMA ClampType ==
  ASSUME NEW percent \in Int
  PROVE  Clamp(percent) \in 0..100
<1> DEFINE least == Min({100, percent})
<1>1. least \in {100, percent} /\ least <= 100
  <2>1. 100 \in Int
    OBVIOUS
  <2> QED
    BY <2>1, MaxOfTwo
<1> HIDE DEF least
<1>2. least \in Int
  BY <1>1
<1>3. Max({0, least}) \in {0, least} /\ 0 <= Max({0, least})
  BY <1>2, MaxOfTwo
<1> QED
  BY <1>1, <1>2, <1>3 DEF Clamp, least

\* What a candidate's figures are.
HasFigures(c) ==
  /\ c.fit \in Int /\ c.expected \in Int /\ c.carry \in Int /\ c.liquidity \in Int
  /\ c.downside \in Nat \/ c.downside = Unstated

\* What scores zero or more is not expected to lose more than the score rounds away.
LEMMA ScoreType ==
  ASSUME NEW c, HasFigures(c)
  PROVE  /\ Score(c) \in Int
         /\ Score(c) >= 0 =>
              Unstated \in {c.expected, c.downside} \/ -Weighted(c) <= c.downside
<1> DEFINE carry == IF c.carry = Unstated THEN 0 ELSE c.carry
           liquidity == IF c.liquidity \in {0, Unstated} THEN 50 ELSE c.liquidity
           w == Weighted(c)
<1>1. w \in Int
  <2>1. Weighted(c) = (c.expected - carry) * c.fit * (100 + liquidity)
    BY DEF Weighted
  <2>2. carry \in Int /\ liquidity \in Int /\ c.fit \in Int /\ c.expected \in Int
    BY DEF HasFigures
  <2> HIDE DEF carry, liquidity
  <2>3. \A x \in Int, y \in Int, z \in Int : x * y * z \in Int
    OBVIOUS
  <2>4. c.expected - carry \in Int /\ 100 + liquidity \in Int
    BY <2>2
  <2> QED
    BY <2>1, <2>2, <2>3, <2>4
<1> HIDE DEF w
<1>2. CASE Unstated \in {c.expected, c.downside}
  BY <1>2 DEF Score
<1>3. CASE Unstated \notin {c.expected, c.downside} /\ c.downside = 0
  <2>1. Score(c) = w * 50
    BY <1>3 DEF Score, w
  <2>2. w * 50 \in Int /\ (w * 50 >= 0 => w >= 0)
    BY <1>1
  <2>3. w >= 0 => -w <= 0
    BY <1>1
  <2> QED
    BY <1>3, <2>1, <2>2, <2>3 DEF w
<1>4. CASE Unstated \notin {c.expected, c.downside} /\ c.downside # 0
  <2>1. c.downside \in Nat \ {0} /\ 2 * c.downside \in Nat \ {0}
    BY <1>4 DEF HasFigures
  <2>2. Score(c) = Round(w, 2 * c.downside)
    BY <1>4 DEF Score, w
  <2>3. Score(c) \in Int /\ (Score(c) >= 0 => 2 * w + 2 * c.downside >= 0)
    BY <1>1, <2>1, <2>2, RoundType
  <2>4. 2 * w + 2 * c.downside >= 0 => -w <= c.downside
    BY <1>1, <2>1
  <2> QED
    BY <2>3, <2>4 DEF w
<1> QED
  BY <1>2, <1>3, <1>4

-----------------------------------------------------------------------------
(* What the research names.                                                *)

Funds == UNION Universes
Securities == {r.security : r \in UNION Panels}

IsStrategy(s) == s.vehicles \in Seq(Funds) /\ s.controls \in Seq(Funds)

SecurityType == [ticker : Securities, edge : Int, breadth : Nat, hhi : Int]

\* The first few of a sequence, and some if there are some.
LEMMA UptoType ==
  ASSUME NEW T, NEW seq \in Seq(T), NEW n \in Nat
  PROVE  /\ Upto(seq, n) \in Seq(T)
         /\ Len(Upto(seq, n)) <= Len(seq)
         /\ Len(seq) > 0 /\ n > 0 => Len(Upto(seq, n)) > 0
<1> DEFINE m == Min({n, Len(seq)})
<1>1. Len(seq) \in Nat
  OBVIOUS
<1>2. m \in {n, Len(seq)} /\ m <= n /\ m <= Len(seq)
  <2>1. n \in Int /\ Len(seq) \in Int
    OBVIOUS
  <2> QED
    BY <2>1, MaxOfTwo
<1> HIDE DEF m
<1>3. m \in Nat /\ m <= Len(seq)
  BY <1>1, <1>2
<1>4. SubSeq(seq, 1, m) \in Seq(T) /\ Len(SubSeq(seq, 1, m)) = m
  BY <1>1, <1>3
<1> QED
  BY <1>1, <1>2, <1>3, <1>4 DEF Upto, m

\* Funds of a universe, by liquidity, are funds.
LEMMA ByLiquidityType ==
  ASSUME NEW universe \in Universes, NEW funds \in SUBSET universe
  PROVE  ByLiquidity(funds) \in Seq(Funds)
<1>1. IsFiniteSet(funds) /\ \A f \in funds : f \in Funds /\ f.liquidity \in Int
  BY IdeasAssumption, FS_Subset DEF Funds
<1> DEFINE all == SetToSeq(funds)
           figure == [k \in DOMAIN all |-> all[k].liquidity]
<1>2. all \in Seq(funds)
  BY <1>1, SetAsSequence
<1> HIDE DEF all
<1>3. all \in Seq(Funds)
  BY <1>1, <1>2
<1>4. \A k \in DOMAIN all : figure[k] \in Int
  BY <1>1, <1>2
<1>5. ByLiquidity(funds) = Sorted(all, DOMAIN all, figure)
  BY DEF ByLiquidity, all
<1> HIDE DEF figure
<1> QED
  BY <1>3, <1>4, <1>5, SortedType

\* The vehicles and the controls of a strategy are funds of its universe.
LEMMA StrategyIsTyped ==
  ASSUME NEW universe \in Universes
  PROVE  IsStrategy(Strategy(universe))
<1> DEFINE expresses(f) == Function \in f.functions
           signal == {f \in universe : /\ f.theme = Theme /\ expresses(f)
                                       /\ f.class \in SIGNAL_CLASSIFICATIONS}
           dedicated == {f \in universe : /\ f.class = "implementation_etf"
                                          /\ f.theme = Theme \/ expresses(f)}
           vehicles == ByLiquidity(dedicated) \o ByLiquidity(signal)
           passive == {f \in universe : f.class = "broad_passive_control"}
           rejections ==
             (IF signal = {} THEN {"NO_DISCLOSING_SIGNAL_FUNDS"} ELSE {})
             \union (IF Cardinality(ClustersOf(signal)) < MIN_INDEPENDENT_CLUSTERS
                     THEN {"INSUFFICIENT_MANAGER_BREADTH"} ELSE {})
             \union (IF vehicles = <<>> THEN {"NO_IMPLEMENTATION_VEHICLE"} ELSE {})
<1>1. signal \in SUBSET universe /\ dedicated \in SUBSET universe /\ passive \in SUBSET universe
  OBVIOUS
<1>2. universe \in SUBSET Funds
  BY DEF Funds
<1>3. ByLiquidity(dedicated) \in Seq(Funds) /\ ByLiquidity(signal) \in Seq(Funds)
  <2> HIDE DEF signal, dedicated
  <2> QED
    BY <1>1, ByLiquidityType
<1>4. Strategy(universe) = [signal |-> signal, vehicles |-> Upto(vehicles, 5),
                            controls |-> Upto(SetToSeq(passive), 3), rejections |-> rejections]
  BY DEF Strategy
<1> HIDE DEF rejections
<1>5. vehicles \in Seq(Funds)
  <2> HIDE DEF signal, dedicated
  <2> QED
    BY <1>3
<1> HIDE DEF signal, dedicated, passive, vehicles
<1>6. Upto(vehicles, 5) \in Seq(Funds)
  <2>1. 5 \in Nat
    OBVIOUS
  <2> QED
    BY <1>5, <2>1, UptoType
<1>7. Upto(SetToSeq(passive), 3) \in Seq(Funds)
  <2>1. IsFiniteSet(passive)
    BY <1>1, IdeasAssumption, FS_Subset
  <2>2. SetToSeq(passive) \in Seq(passive)
    BY <2>1, SetAsSequence
  <2>3. SetToSeq(passive) \in Seq(Funds) /\ 3 \in Nat
    BY <1>1, <1>2, <2>2
  <2> QED
    BY <2>3, UptoType
<1> QED
  BY <1>4, <1>6, <1>7 DEF IsStrategy

\* What is disclosed of a security is of some shares held.
LEMMA SecurityIsTyped ==
  ASSUME NEW panel, IsFiniteSet(panel), \A r \in panel : r.units \in Nat \ {0},
         panel \subseteq UNION Panels,
         NEW id \in {r.security : r \in panel}, NEW edge \in Int
  PROVE  Security(panel, id, edge) \in SecurityType
<1> DEFINE rows == {r \in panel : r.security = id}
           cluster(r) == (CHOOSE f \in strategy.signal : f.ticker = r.fund).cluster
           clusters == {cluster(r) : r \in rows}
           of(c) == [r \in rows |-> IF cluster(r) = c THEN r.units ELSE 0]
           units == [c \in clusters |-> SumFunctionOnSet(of(c), rows)]
           total == SumFunctionOnSet(units, clusters)
           square == [c \in clusters |-> units[c] * units[c]]
           squares == SumFunctionOnSet(square, clusters)
<1>1. /\ IsFiniteSet(rows) /\ \A r \in rows : r.units \in Nat \ {0}
      /\ \E r \in rows : TRUE
  BY FS_Subset
<1>2. Security(panel, id, edge) = [ticker |-> id, edge |-> edge, breadth |-> Cardinality(clusters),
                                   hhi |-> (100 * squares) \div (total * total)]
  BY DEF Security
<1>3. id \in Securities
  BY DEF Securities
<1> HIDE DEF rows
<1>4. IsFiniteSet(clusters)
  <2> DEFINE image == [r \in rows |-> cluster(r)]
  <2>1. image \in Surjection(rows, clusters)
    BY DEF Surjection
  <2> HIDE DEF image, clusters
  <2> QED
    BY <1>1, <2>1, FS_Surjection
<1>5. ASSUME NEW c PROVE \A r \in rows : of(c)[r] \in Nat /\ (cluster(r) = c => of(c)[r] > 0)
  BY <1>1
<1>6. ASSUME NEW c \in clusters
      PROVE  SumFunctionOnSet(of(c), rows) \in Nat /\ SumFunctionOnSet(of(c), rows) > 0
  <2>1. PICK r \in rows : cluster(r) = c
    OBVIOUS
  <2> DEFINE f == of(c)
  <2>2. (\A x \in rows : f[x] \in Nat) /\ f[r] > 0
    BY <1>5, <2>1
  <2> HIDE DEF f
  <2>3. SumFunctionOnSet(f, rows) \in Nat /\ SumFunctionOnSet(f, rows) > 0
    BY <1>1, <2>2, SumIsPositive
  <2> QED
    BY <2>3 DEF f
<1>7. \A c \in clusters : units[c] \in Nat /\ units[c] > 0
  <2> HIDE DEF clusters, of
  <2> QED
    BY <1>6
<1>8. \E c \in clusters : TRUE
  <2>1. \A r \in rows : cluster(r) \in clusters
    OBVIOUS
  <2> HIDE DEF clusters
  <2> QED
    BY <1>1, <2>1
<1> HIDE DEF clusters, units
<1>9. total \in Nat /\ total > 0
  BY <1>4, <1>7, <1>8, SumIsPositive
<1>10. squares \in Nat
  <2>1. \A c \in clusters : square[c] \in Nat
    <3>1. \A n \in Nat : n * n \in Nat
      OBVIOUS
    <3> QED
      BY <1>7, <3>1
  <2> HIDE DEF square
  <2> QED
    BY <1>4, <2>1, SumIsNat
<1> HIDE DEF total, squares
<1>11. (100 * squares) \div (total * total) \in Int
  <2>1. total * total \in Nat \ {0}
    BY <1>9
  <2>2. 100 * squares \in Int
    BY <1>10
  <2>3. \A a \in Int, b \in Nat \ {0} : a \div b \in Int
    OBVIOUS
  <2> QED
    BY <2>1, <2>2, <2>3
<1>12. Cardinality(clusters) \in Nat
  BY <1>4, FS_CardinalityType
<1> QED
  BY <1>2, <1>3, <1>11, <1>12 DEF SecurityType

ResearchTyped == IsStrategy(strategy) /\ synthesis.securities \in Seq(SecurityType)

\* Ranked, they are the securities of the synthesis, and may be named.
LEMMA SecuritiesAreRanked ==
  ASSUME ResearchTyped
  PROVE  /\ RankedSecurities \in Seq(SecurityType)
         /\ Len(RankedSecurities) = Len(synthesis.securities)
         /\ \A k \in DOMAIN RankedSecurities : RankedSecurities[k].ticker \in permitted_tickers
         /\ HasLeader => Leader \in SecurityType /\ Leader.ticker \in permitted_tickers
<1> DEFINE all == synthesis.securities
           edges == [k \in DOMAIN all |-> all[k].edge]
           ranked == RankedSecurities
<1>1. all \in Seq(SecurityType)
  BY DEF ResearchTyped
<1>2. \A k \in DOMAIN all : all[k] \in SecurityType /\ all[k].ticker \in permitted_tickers
  <2>1. \A k \in DOMAIN all : all[k] \in SecurityType
    <3> HIDE DEF SecurityType
    <3> QED
      BY <1>1
  <2> QED
    BY <2>1 DEF permitted_tickers
<1>3. \A k \in DOMAIN all : edges[k] \in Int
  BY <1>2 DEF SecurityType
<1>4. ranked = Sorted(all, DOMAIN all, edges)
  BY DEF RankedSecurities
<1> HIDE DEF all, edges, ranked
<1>5. /\ ranked \in Seq(SecurityType) /\ Len(ranked) = Len(all)
      /\ \A m \in 1..Len(all) : \E k \in DOMAIN all : ranked[m] = all[k]
  <2> HIDE DEF SecurityType
  <2> QED
    BY <1>1, <1>3, <1>4, SortedType
<1>6. DOMAIN ranked = 1..Len(all) /\ Len(all) \in Nat
  <2> HIDE DEF SecurityType
  <2> QED
    BY <1>1, <1>5
<1>7. \A k \in DOMAIN ranked : ranked[k] \in SecurityType /\ ranked[k].ticker \in permitted_tickers
  BY <1>2, <1>5, <1>6
<1>8. all # <<>> => Head(ranked) \in SecurityType /\ Head(ranked).ticker \in permitted_tickers
  <2> SUFFICES ASSUME all # <<>> PROVE Head(ranked) = ranked[1] /\ 1 \in DOMAIN ranked
    BY <1>7
  <2> HIDE DEF SecurityType
  <2>1. Len(all) > 0
    BY <1>1
  <2> QED
    BY <1>5, <1>6, <2>1
<1> QED
  BY <1>5, <1>7, <1>8 DEF all, ranked, HasLeader, Leader

-----------------------------------------------------------------------------
(* The menu of what was accepted, and the null option.                     *)

\* The null option is EDGE's own and scores nothing.
LEMMA NullOptionType ==
  ASSUME ResearchTyped
  PROVE  /\ NullOption.kind = "NO_TRADE" /\ NullOption.by = "EDGE"
         /\ HasFigures(NullOption) /\ Score(NullOption) = 0
<1> DEFINE edge == IF HasLeader THEN Leader.edge ELSE 0
           fit == 100 - (IF edge < 0 THEN -edge ELSE edge)
<1>1. edge \in Int
  BY SecuritiesAreRanked DEF SecurityType
<1>2. fit \in Int
  BY <1>1
<1>3. NullOption = Candidate("NO_TRADE", fit, 0, 0, 0, 100, {})
  BY DEF NullOption, NoTrade
<1> HIDE DEF fit, edge
<1>4. Clamp(fit) \in Int
  BY <1>2, ClampType
<1>5. /\ NullOption.kind = "NO_TRADE" /\ NullOption.by = "EDGE" /\ NullOption.fit = Clamp(fit)
      /\ NullOption.expected = 0 /\ NullOption.downside = 0 /\ NullOption.carry = 0
      /\ NullOption.liquidity = 100
  BY <1>3 DEF Candidate
<1>6. HasFigures(NullOption)
  BY <1>4, <1>5 DEF HasFigures
<1>7. Weighted(NullOption) = 0
  BY <1>4, <1>5 DEF Weighted
<1>8. Unstated # 0
  BY DEF Unstated
<1>9. Score(NullOption) = 0
  BY <1>5, <1>7, <1>8 DEF Score
<1> QED
  BY <1>5, <1>6, <1>9

\* As many as they are, when they are different.
LEMMA AsManyAs ==
  ASSUME NEW S, NEW T, IsFiniteSet(T), NEW f \in [S -> T],
         \A x, y \in S : f[x] = f[y] => x = y, \A y \in T : \E x \in S : f[x] = y
  PROVE  IsFiniteSet(S) /\ Cardinality(S) = Cardinality(T)
<1>1. f \in Injection(S, T)
  BY DEF Injection, IsInjective
<1>2. f \in Surjection(S, T)
  BY DEF Surjection
<1> QED
  BY <1>1, <1>2, FS_Injection

\* What a menu is, but for the proposals it leaves out.
IsMenu(alternatives) ==
  LET kinds == {alternatives[k].kind : k \in DOMAIN alternatives}
      null == CHOOSE k \in DOMAIN alternatives : alternatives[k].kind = "NO_TRADE"
  IN /\ Cardinality(kinds) = Len(alternatives)
     /\ "NO_TRADE" \in kinds /\ alternatives[null].by = "EDGE"
     /\ \A k \in DOMAIN alternatives \ {null} :
          alternatives[k].tickers # {} /\ alternatives[k].tickers \subseteq permitted_tickers
     /\ \A k \in 1..null - 1 :
          \/ Unstated \in {alternatives[k].expected, alternatives[k].downside}
          \/ -Weighted(alternatives[k]) <= alternatives[k].downside

\* What the gate, or the builders, let through.
IsAccepted(candidates) ==
  /\ \A k \in DOMAIN candidates : HasFigures(candidates[k])
  /\ \A k \in Ideas(candidates) :
       candidates[k].tickers # {} /\ candidates[k].tickers \subseteq permitted_tickers
  /\ \A j, k \in DOMAIN candidates : candidates[j].kind = candidates[k].kind => j = k

\* A list that was accepted, closed with the null option and ranked, is a menu; it has
\* the ideas of the list that were not EDGE's own, and no other that is not.
LEMMA ClosedIsMenu ==
  ASSUME ResearchTyped, NEW S, NEW candidates \in Seq(S), IsAccepted(candidates)
  PROVE  /\ IsMenu(Closed(candidates))
         /\ Cardinality({k \in DOMAIN Closed(candidates) : Closed(candidates)[k].by # "EDGE"})
              = Cardinality({k \in Ideas(candidates) : candidates[k].by # "EDGE"})
<1> DEFINE len == Len(candidates)
           all == Append(candidates, NullOption)
           kept == Ideas(candidates) \union {len + 1}
           score == [k \in kept |-> Score(all[k])]
           closed == Closed(candidates)
           n == Cardinality(kept)
<1>1. /\ len \in Nat /\ DOMAIN candidates = 1..len
      /\ all[len + 1] = NullOption
      /\ \A k \in 1..len : all[k] = candidates[k]
  OBVIOUS
<1>2. Ideas(candidates) \subseteq 1..len /\ \A k \in Ideas(candidates) : candidates[k].kind # "NO_TRADE"
  BY <1>1 DEF Ideas
<1>3. closed = Sorted(all, kept, score)
  BY DEF Closed, Ranked
<1> HIDE DEF len, all
<1>4. /\ kept \subseteq 1..len + 1 /\ len + 1 \in kept /\ len + 1 \notin 1..len
      /\ \A k \in kept : k # len + 1 => k \in 1..len /\ k \in Ideas(candidates)
  <2>1. \A k \in 1..len : k \in 1..len + 1
    BY <1>1
  <2>2. len + 1 \in 1..len + 1 /\ len + 1 \notin 1..len
    BY <1>1
  <2>3. \A k \in kept : k = len + 1 \/ k \in Ideas(candidates)
    OBVIOUS
  <2> QED
    BY <1>2, <2>1, <2>2, <2>3
<1> HIDE DEF kept
<1>5. \A k \in kept : HasFigures(all[k])
  BY <1>1, <1>4, NullOptionType DEF IsAccepted
<1>6. \A k \in kept : score[k] = Score(all[k]) /\ score[k] \in Int
  BY <1>5, ScoreType
<1>7. IsScored(kept, score)
  <2>1. IsFiniteSet(1..len + 1)
    BY <1>1, FS_Interval
  <2>2. IsFiniteSet(kept)
    BY <1>4, <2>1, FS_Subset
  <2>3. \A k \in kept : k \in Int
    BY <1>1, <1>4
  <2> HIDE DEF score
  <2> QED
    BY <1>6, <2>2, <2>3 DEF IsScored
<1> HIDE DEF score, closed
<1>8. PICK place : /\ Order(kept, score, place) /\ n \in Nat
                   /\ closed = [m \in 1..n |-> all[place[m]]]
  BY <1>3, <1>7, SortedInOrder
<1>9. /\ place \in [1..n -> kept] /\ \A m \in 1..n : closed[m] = all[place[m]]
      /\ \A m, j \in 1..n : place[m] = place[j] => m = j
      /\ \A k \in kept : \E m \in 1..n : place[m] = k
      /\ \A m, j \in 1..n : m < j => score[place[m]] >= score[place[j]]
      /\ DOMAIN closed = 1..n /\ Len(closed) = n
  BY <1>8 DEF Order
<1>10. PICK last \in 1..n : place[last] = len + 1
  BY <1>4, <1>9
<1>11. \A m \in 1..n : m # last => /\ place[m] \in 1..len /\ place[m] \in Ideas(candidates)
                                  /\ closed[m] = candidates[place[m]]
  <2> SUFFICES ASSUME NEW m \in 1..n, m # last
               PROVE  /\ place[m] \in 1..len /\ place[m] \in Ideas(candidates)
                      /\ closed[m] = candidates[place[m]]
    OBVIOUS
  <2>1. place[m] \in kept /\ place[m] # len + 1 /\ closed[m] = all[place[m]]
    BY <1>9, <1>10
  <2>2. place[m] \in 1..len /\ place[m] \in Ideas(candidates)
    BY <1>4, <2>1
  <2> QED
    BY <1>1, <2>1, <2>2
<1>12. closed[last] = NullOption
  BY <1>1, <1>9, <1>10
<1> HIDE DEF n
<1>13. /\ closed[last].kind = "NO_TRADE" /\ closed[last].by = "EDGE"
       /\ Score(closed[last]) = 0
       /\ \A m \in 1..n : m # last => closed[m].kind # "NO_TRADE"
  BY <1>2, <1>11, <1>12, NullOptionType
<1>14. \A m, j \in 1..n : closed[m].kind = closed[j].kind => m = j
  <2> SUFFICES ASSUME NEW m \in 1..n, NEW j \in 1..n, closed[m].kind = closed[j].kind PROVE m = j
    OBVIOUS
  <2>1. CASE m = last \/ j = last
    BY <1>13, <2>1
  <2>2. CASE m # last /\ j # last
    <3>1. candidates[place[m]].kind = candidates[place[j]].kind
      BY <1>11, <2>2
    <3>2. place[m] = place[j]
      BY <1>1, <1>11, <2>2, <3>1 DEF IsAccepted
    <3> QED
      BY <1>9, <3>2
  <2> QED
    BY <2>1, <2>2
<1> DEFINE kinds == {closed[k].kind : k \in DOMAIN closed}
           null == CHOOSE k \in DOMAIN closed : closed[k].kind = "NO_TRADE"
           gated == {k \in DOMAIN closed : closed[k].by # "EDGE"}
           ideas == {k \in Ideas(candidates) : candidates[k].by # "EDGE"}
<1>15. Cardinality(kinds) = Len(closed)
  <2> DEFINE kind == [m \in 1..n |-> closed[m].kind]
  <2>1. kind \in Bijection(1..n, kinds)
    <3>1. kind \in [1..n -> kinds]
      BY <1>9
    <3>2. \A m, j \in 1..n : kind[m] = kind[j] => m = j
      BY <1>14
    <3>3. \A y \in kinds : \E m \in 1..n : kind[m] = y
      BY <1>9
    <3> HIDE DEF kind, kinds
    <3> QED
      BY <3>1, <3>2, <3>3 DEF Bijection, Injection, Surjection, IsInjective
  <2>2. IsFiniteSet(1..n) /\ Cardinality(1..n) = n
    BY <1>8, FS_Interval DEF n
  <2>3. ExistsBijection(1..n, kinds)
    <3> HIDE DEF kind, kinds
    <3> QED
      BY <2>1 DEF ExistsBijection
  <2>4. Cardinality(kinds) = Cardinality(1..n)
    <3> HIDE DEF kinds
    <3> QED
      BY <2>2, <2>3, FS_Bijection
  <2> QED
    BY <1>9, <2>2, <2>4
<1>16. null = last
  BY <1>9, <1>13
<1>17. "NO_TRADE" \in kinds
  BY <1>9, <1>13
<1>18. ASSUME NEW k \in DOMAIN closed \ {null}
       PROVE  closed[k].tickers # {} /\ closed[k].tickers \subseteq permitted_tickers
  <2>1. k \in 1..n /\ k # last
    BY <1>9, <1>16
  <2>2. place[k] \in Ideas(candidates) /\ closed[k] = candidates[place[k]]
    BY <1>11, <2>1
  <2> QED
    BY <2>2 DEF IsAccepted
<1>19. ASSUME NEW k \in 1..null - 1
       PROVE  \/ Unstated \in {closed[k].expected, closed[k].downside}
              \/ -Weighted(closed[k]) <= closed[k].downside
  <2>1. k \in 1..n /\ k < last
    <3>1. n \in Nat
      BY <1>8 DEF n
    <3> HIDE DEF null
    <3> QED
      BY <1>16, <3>1
  <2>2. score[place[k]] >= score[place[last]] /\ place[k] \in kept /\ place[last] \in kept
    BY <1>9, <2>1
  <2>3. score[place[k]] = Score(closed[k]) /\ score[place[last]] = Score(closed[last])
    BY <1>6, <1>9, <2>1, <2>2
  <2>4. Score(closed[k]) >= 0 /\ HasFigures(closed[k])
    BY <1>5, <1>9, <1>13, <2>1, <2>2, <2>3
  <2> HIDE DEF null
  <2> QED
    BY <2>4, ScoreType
<1>20. Cardinality(gated) = Cardinality(ideas)
  <2> DEFINE at == [m \in gated |-> place[m]]
  <2>1. \A m \in gated : m \in 1..n /\ m # last /\ closed[m].by # "EDGE"
    BY <1>9, <1>13
  <2>2. at \in [gated -> ideas]
    BY <1>11, <2>1
  <2>3. \A x, y \in gated : at[x] = at[y] => x = y
    BY <1>9, <2>1
  <2>4. ASSUME NEW y \in ideas PROVE \E x \in gated : at[x] = y
    <3>1. y \in kept /\ y # len + 1 /\ candidates[y].by # "EDGE"
      BY <1>2, <1>4 DEF kept
    <3>2. PICK m \in 1..n : place[m] = y
      BY <1>9, <3>1
    <3>3. m # last
      BY <1>10, <3>1, <3>2
    <3>4. m \in gated
      BY <1>9, <1>11, <3>1, <3>2, <3>3
    <3> QED
      BY <3>2, <3>4
  <2>5. IsFiniteSet(ideas)
    <3>1. IsFiniteSet(1..len) /\ ideas \subseteq 1..len
      BY <1>1, <1>2, FS_Interval
    <3> QED
      BY <3>1, FS_Subset
  <2> HIDE DEF at, gated, ideas
  <2> QED
    BY <2>2, <2>3, <2>4, <2>5, AsManyAs
<1>21. IsMenu(closed)
  BY <1>13, <1>15, <1>16, <1>17, <1>18, <1>19 DEF IsMenu
<1> QED
  BY <1>20, <1>21 DEF closed

-----------------------------------------------------------------------------
(* What the builders make.                                                 *)

OwnKinds == {"ETF_LONG", "ETF_HEDGED", "OPTIONS", "SINGLE_NAME", "EQUITY_BASKET"}

OwnCandidates ==
  [kind : OwnKinds, by : {"EDGE"}, fit : Int, expected : Int, downside : Nat, carry : Int,
   liquidity : Int, tickers : (SUBSET permitted_tickers) \ {{}}, risks : {TRUE}, roles : {TRUE}]

Buildable(kind, fit, expected, downside, carry, liquidity, tickers) ==
  /\ kind \in OwnKinds
  /\ fit \in Int /\ expected \in Int /\ downside \in Nat /\ carry \in Int /\ liquidity \in Int
  /\ tickers \subseteq permitted_tickers /\ tickers # {}

\* A candidate made of such figures and of named instruments is one of EDGE's own.
LEMMA CandidateIsOwn ==
  ASSUME NEW kind, NEW fit, NEW expected, NEW downside, NEW carry, NEW liquidity, NEW tickers,
         Buildable(kind, fit, expected, downside, carry, liquidity, tickers)
  PROVE  Candidate(kind, fit, expected, downside, carry, liquidity, tickers) \in OwnCandidates
<1>1. Clamp(fit) \in Int
  BY ClampType DEF Buildable
<1> DEFINE at == Clamp(fit)
<1>2. Candidate(kind, fit, expected, downside, carry, liquidity, tickers)
        = [kind |-> kind, by |-> "EDGE", fit |-> at, expected |-> expected,
           downside |-> downside, carry |-> carry, liquidity |-> liquidity, tickers |-> tickers,
           risks |-> TRUE, roles |-> TRUE]
  BY DEF Candidate
<1> HIDE DEF at
<1>3. tickers \in (SUBSET permitted_tickers) \ {{}}
  BY DEF Buildable
<1> QED
  BY <1>1, <1>2, <1>3 DEF OwnCandidates, Buildable, at

IsList(list, kinds) ==
  /\ list \in Seq(OwnCandidates)
  /\ \A k \in DOMAIN list : list[k].kind \in kinds
  /\ \A j, k \in DOMAIN list : list[j].kind = list[k].kind => j = k

\* A builder adds its candidate to the list, or none.
LEMMA OneMoreBuilt ==
  ASSUME NEW list, NEW kinds, IsList(list, kinds), NEW candidate, NEW eligible \in BOOLEAN,
         eligible => candidate \in OwnCandidates,
         NEW kind, candidate.kind = kind, kind \notin kinds
  PROVE  IsList(list \o (IF eligible THEN <<candidate>> ELSE <<>>), kinds \union {kind})
<1>1. CASE ~eligible
  <2>1. list \in Seq(OwnCandidates)
    BY DEF IsList
  <2>2. list \o <<>> = list
    <3> HIDE DEF OwnCandidates
    <3> QED
      BY <2>1
  <2> QED
    BY <1>1, <2>2 DEF IsList
<1>2. CASE eligible
  <2> DEFINE more == list \o <<candidate>>
             len == Len(list)
  <2>1. list \in Seq(OwnCandidates) /\ candidate \in OwnCandidates
    BY <1>2 DEF IsList
  <2> HIDE DEF OwnCandidates
  <2>2. /\ more \in Seq(OwnCandidates) /\ DOMAIN more = 1..len + 1 /\ len \in Nat
        /\ DOMAIN list = 1..len
        /\ more[len + 1] = candidate /\ \A k \in 1..len : more[k] = list[k]
    BY <2>1
  <2> HIDE DEF more, len
  <2>3. \A k \in 1..len + 1 : k # len + 1 => k \in 1..len
    BY <2>2
  <2>4. \A k \in 1..len : more[k].kind \in kinds /\ more[k].kind # kind
    BY <2>2 DEF IsList
  <2>5. more[len + 1].kind = kind
    BY <2>2
  <2>6. ASSUME NEW j \in DOMAIN more, NEW k \in DOMAIN more, more[j].kind = more[k].kind
        PROVE  j = k
    <3>1. CASE j = len + 1 \/ k = len + 1
      BY <2>2, <2>3, <2>4, <2>5, <2>6, <3>1
    <3>2. CASE j # len + 1 /\ k # len + 1
      BY <2>2, <2>3, <2>6, <3>2 DEF IsList
    <3> QED
      BY <3>1, <3>2
  <2>7. \A k \in DOMAIN more : more[k].kind \in kinds \union {kind}
    BY <2>2, <2>3, <2>4, <2>5
  <2>8. IsList(more, kinds \union {kind})
    BY <2>2, <2>6, <2>7 DEF IsList
  <2> QED
    BY <1>2, <2>8 DEF more
<1> QED
  BY <1>1, <1>2

\* A list of the builders needs no gate.
LEMMA ListIsAccepted ==
  ASSUME NEW list, IsList(list, OwnKinds)
  PROVE  /\ list \in Seq(OwnCandidates) /\ IsAccepted(list)
         /\ \A k \in DOMAIN list : list[k].by = "EDGE"
<1>1. list \in Seq(OwnCandidates) /\ \A k \in DOMAIN list : list[k] \in OwnCandidates
  <2>1. list \in Seq(OwnCandidates)
    BY DEF IsList
  <2> HIDE DEF OwnCandidates
  <2> QED
    BY <2>1
<1>2. \A c \in OwnCandidates : /\ HasFigures(c) /\ c.by = "EDGE"
                               /\ c.tickers # {} /\ c.tickers \subseteq permitted_tickers
  BY DEF OwnCandidates, HasFigures
<1> QED
  BY <1>1, <1>2 DEF IsList, IsAccepted, Ideas

\* The builders make each kind once, of instruments the research has named.
LEMMA OwnIsAccepted ==
  ASSUME ResearchTyped, HasLeader
  PROVE  IsList(Own(Leader), OwnKinds)
<1> DEFINE leader == Leader
           horizon == Round(1233 * leader.edge, 100)
           breadth == Min({leader.breadth, 3})
           bullish == Max({0, leader.edge})
           members == Upto(RankedSecurities, 4)
           fund == Head(strategy.vehicles)
           hedge == Head(strategy.controls)
           vehicle == strategy.vehicles # <<>>
           hedged == vehicle /\ strategy.controls # <<>>
           wide == Len(members) >= 2
           etf == Candidate("ETF_LONG", 55 + 15 * breadth - Round(3 * leader.hhi, 10),
                    horizon, 3235, 0, fund.liquidity, {fund.ticker})
           pair == Candidate("ETF_HEDGED", 70 + 10 * breadth - Round(leader.hhi, 5),
                    Round(4 * horizon, 5), 1617, 86,
                    (fund.liquidity + hedge.liquidity) \div 2, {fund.ticker, hedge.ticker})
           options == Candidate("OPTIONS", 25 + Round(3 * bullish, 4), Round(4024 * horizon, 1000),
                    10000, 1371, Round(7 * fund.liquidity, 10), {fund.ticker})
           single == Candidate("SINGLE_NAME", 20 + Round(leader.hhi, 2) + Round(3 * bullish, 10),
                    Round(14 * horizon, 10), 5175, 0, 60, {leader.ticker})
           basket == Candidate("EQUITY_BASKET", 45 + 15 * Len(members) - Round(3 * leader.hhi, 10),
                    Round(115 * horizon, 100), 4043, 0, 55,
                    {members[k].ticker : k \in DOMAIN members})
           built(eligible, candidate) == IF eligible THEN <<candidate>> ELSE <<>>
<1>1. Own(Leader) = built(vehicle, etf) \o built(hedged, pair) \o built(vehicle, options)
                      \o <<single>> \o built(wide, basket)
  BY DEF Own
<1>2. leader \in SecurityType /\ leader.ticker \in permitted_tickers
  BY SecuritiesAreRanked
<1>3. leader.edge \in Int /\ leader.breadth \in Int /\ leader.hhi \in Int
  BY <1>2 DEF SecurityType
<1> HIDE DEF leader
<1>4. \A n \in Int : /\ Round(n, 100) \in Int /\ Round(n, 10) \in Int /\ Round(n, 5) \in Int
                     /\ Round(n, 4) \in Int /\ Round(n, 2) \in Int /\ Round(n, 1000) \in Int
  <2>1. /\ 100 \in Nat \ {0} /\ 10 \in Nat \ {0} /\ 5 \in Nat \ {0} /\ 4 \in Nat \ {0}
        /\ 2 \in Nat \ {0} /\ 1000 \in Nat \ {0}
    OBVIOUS
  <2> QED
    BY <2>1, RoundType
<1>5. horizon \in Int /\ breadth \in Int /\ bullish \in Int
  <2>1. 1233 * leader.edge \in Int /\ 3 \in Int /\ 0 \in Int
    BY <1>3
  <2>2. horizon \in Int
    BY <1>4, <2>1
  <2>3. breadth \in {leader.breadth, 3}
    <3>1. \A a, b \in Int : Min({a, b}) \in {a, b}
      BY MaxOfTwo
    <3> QED
      BY <1>3, <2>1, <3>1
  <2>4. bullish \in {0, leader.edge}
    <3>1. \A a, b \in Int : Max({a, b}) \in {a, b}
      BY MaxOfTwo
    <3> QED
      BY <1>3, <2>1, <3>1
  <2> QED
    BY <1>3, <2>1, <2>2, <2>3, <2>4
<1> HIDE DEF horizon, breadth, bullish
<1>6. vehicle => fund.liquidity \in Int /\ fund.ticker \in permitted_tickers
  <2> SUFFICES ASSUME vehicle PROVE fund.liquidity \in Int /\ fund.ticker \in permitted_tickers
    OBVIOUS
  <2>1. strategy.vehicles \in Seq(Funds)
    BY DEF ResearchTyped, IsStrategy
  <2>2. fund = strategy.vehicles[1] /\ 1 \in DOMAIN strategy.vehicles /\ fund \in Funds
    <3> HIDE DEF fund
    <3>1. 1 \in DOMAIN strategy.vehicles /\ strategy.vehicles[1] \in Funds
      BY <2>1
    <3> QED
      BY <2>1, <3>1 DEF fund
  <2>3. fund.liquidity \in Int
    BY <2>2, IdeasAssumption DEF Funds
  <2> QED
    BY <2>2, <2>3 DEF permitted_tickers
<1>7. hedged => hedge.liquidity \in Int /\ hedge.ticker \in permitted_tickers
  <2> SUFFICES ASSUME strategy.controls # <<>>
               PROVE  hedge.liquidity \in Int /\ hedge.ticker \in permitted_tickers
    OBVIOUS
  <2>1. /\ hedge = strategy.controls[1] /\ 1 \in DOMAIN strategy.controls
        /\ hedge \in Funds
    <3> HIDE DEF hedge
    <3>1. strategy.controls \in Seq(Funds)
      BY DEF ResearchTyped, IsStrategy
    <3>2. 1 \in DOMAIN strategy.controls /\ strategy.controls[1] \in Funds
      BY <3>1
    <3> QED
      BY <3>1, <3>2 DEF hedge
  <2>2. hedge.liquidity \in Int
    BY <2>1, IdeasAssumption DEF Funds
  <2> QED
    BY <2>1, <2>2 DEF permitted_tickers
<1>8. /\ Len(members) \in Int
      /\ \A k \in DOMAIN members : members[k].ticker \in permitted_tickers
      /\ wide => \E k \in DOMAIN members : TRUE
  <2> DEFINE T == {s \in SecurityType : s.ticker \in permitted_tickers}
  <2>1. RankedSecurities \in Seq(T)
    <3>1. RankedSecurities \in Seq(SecurityType)
      BY SecuritiesAreRanked
    <3>2. \A k \in DOMAIN RankedSecurities : RankedSecurities[k].ticker \in permitted_tickers
      BY SecuritiesAreRanked
    <3>3. \A k \in DOMAIN RankedSecurities : RankedSecurities[k] \in SecurityType
      <4> HIDE DEF SecurityType
      <4> QED
        BY <3>1
    <3>4. \A k \in DOMAIN RankedSecurities : RankedSecurities[k] \in T
      BY <3>2, <3>3
    <3> HIDE DEF T, SecurityType
    <3> QED
      BY <3>1, <3>4
  <2>2. 4 \in Nat
    OBVIOUS
  <2>3. \A s \in T : s.ticker \in permitted_tickers
    OBVIOUS
  <2> HIDE DEF T
  <2>4. members \in Seq(T)
    BY <2>1, <2>2, UptoType
  <2> HIDE DEF members
  <2>5. Len(members) \in Nat /\ DOMAIN members = 1..Len(members) /\ \A k \in DOMAIN members : members[k] \in T
    BY <2>4
  <2>6. wide => 1 \in DOMAIN members
    BY <2>5
  <2> QED
    BY <2>3, <2>5, <2>6
<1> HIDE DEF fund, hedge, members
<1>9. /\ "ETF_LONG" \in OwnKinds /\ "ETF_HEDGED" \in OwnKinds /\ "OPTIONS" \in OwnKinds
      /\ "SINGLE_NAME" \in OwnKinds /\ "EQUITY_BASKET" \in OwnKinds
  BY DEF OwnKinds
<1>10. /\ etf.kind = "ETF_LONG" /\ pair.kind = "ETF_HEDGED" /\ options.kind = "OPTIONS"
       /\ single.kind = "SINGLE_NAME" /\ basket.kind = "EQUITY_BASKET"
  BY DEF Candidate
<1>11. ASSUME vehicle PROVE etf \in OwnCandidates
  <2>1. 3 * leader.hhi \in Int
    BY <1>3
  <2>2. Round(3 * leader.hhi, 10) \in Int
    BY <2>1, RoundType
  <2>3. 55 + 15 * breadth - Round(3 * leader.hhi, 10) \in Int
    BY <1>5, <2>2
  <2>4. 3235 \in Nat /\ 0 \in Int
    OBVIOUS
  <2>5. {fund.ticker} \in SUBSET permitted_tickers /\ {fund.ticker} # {}
    BY <1>6, <1>11
  <2>6. Buildable("ETF_LONG", 55 + 15 * breadth - Round(3 * leader.hhi, 10), horizon, 3235, 0, fund.liquidity, {fund.ticker})
    BY <1>5, <1>6, <1>9, <1>11, <2>3, <2>4, <2>5 DEF Buildable
  <2> QED
    BY <2>6, CandidateIsOwn DEF etf
<1>12. ASSUME hedged PROVE pair \in OwnCandidates
  <2>1. Round(leader.hhi, 5) \in Int
    BY <1>3, RoundType
  <2>2. 70 + 10 * breadth - Round(leader.hhi, 5) \in Int
    BY <1>5, <2>1
  <2>3. 4 * horizon \in Int
    BY <1>5
  <2>4. Round(4 * horizon, 5) \in Int
    BY <2>3, RoundType
  <2>5. (fund.liquidity + hedge.liquidity) \div 2 \in Int
    BY <1>6, <1>7, <1>12
  <2>6. 1617 \in Nat /\ 86 \in Int
    OBVIOUS
  <2>7. {fund.ticker, hedge.ticker} \in SUBSET permitted_tickers /\ {fund.ticker, hedge.ticker} # {}
    BY <1>6, <1>7, <1>12
  <2>8. Buildable("ETF_HEDGED", 70 + 10 * breadth - Round(leader.hhi, 5), Round(4 * horizon, 5), 1617, 86,
                (fund.liquidity + hedge.liquidity) \div 2, {fund.ticker, hedge.ticker})
    BY <1>9, <2>2, <2>4, <2>5, <2>6, <2>7 DEF Buildable
  <2> QED
    BY <2>8, CandidateIsOwn DEF pair
<1>13. ASSUME vehicle PROVE options \in OwnCandidates
  <2>1. 3 * bullish \in Int /\ 4024 * horizon \in Int /\ 7 * fund.liquidity \in Int
    BY <1>5, <1>6, <1>13
  <2>2. /\ Round(3 * bullish, 4) \in Int /\ Round(4024 * horizon, 1000) \in Int
        /\ Round(7 * fund.liquidity, 10) \in Int
    <3>1. Round(3 * bullish, 4) \in Int
      BY <2>1, RoundType
    <3>2. Round(4024 * horizon, 1000) \in Int
      BY <2>1, RoundType
    <3>3. Round(7 * fund.liquidity, 10) \in Int
      <4> DEFINE n == 7 * fund.liquidity
      <4>1. n \in Int /\ 10 \in Nat \ {0}
        BY <2>1
      <4> HIDE DEF n
      <4>2. Round(n, 10) \in Int
        BY <4>1, RoundType
      <4> QED BY <4>2 DEF n
    <3> QED
      BY <3>1, <3>2, <3>3
  <2>3. 25 + Round(3 * bullish, 4) \in Int
    BY <2>2
  <2>4. 10000 \in Nat /\ 1371 \in Int
    OBVIOUS
  <2>5. {fund.ticker} \in SUBSET permitted_tickers /\ {fund.ticker} # {}
    BY <1>6, <1>13
  <2>6. Buildable("OPTIONS", 25 + Round(3 * bullish, 4), Round(4024 * horizon, 1000), 10000, 1371,
                Round(7 * fund.liquidity, 10), {fund.ticker})
    BY <1>9, <2>2, <2>3, <2>4, <2>5 DEF Buildable
  <2> QED
    BY <2>6, CandidateIsOwn DEF options
<1>14. single \in OwnCandidates
  <2>1. 3 * bullish \in Int /\ 14 * horizon \in Int
    BY <1>5
  <2>2. /\ Round(leader.hhi, 2) \in Int /\ Round(3 * bullish, 10) \in Int
        /\ Round(14 * horizon, 10) \in Int
    <3>1. Round(leader.hhi, 2) \in Int
      BY <1>3, RoundType
    <3>2. Round(3 * bullish, 10) \in Int
      BY <2>1, RoundType
    <3>3. Round(14 * horizon, 10) \in Int
      BY <2>1, RoundType
    <3> QED
      BY <3>1, <3>2, <3>3
  <2>3. 20 + Round(leader.hhi, 2) + Round(3 * bullish, 10) \in Int
    BY <2>2
  <2>4. 5175 \in Nat /\ 0 \in Int /\ 60 \in Int
    OBVIOUS
  <2>5. {leader.ticker} \in SUBSET permitted_tickers /\ {leader.ticker} # {}
    BY <1>2 DEF leader
  <2>6. Buildable("SINGLE_NAME", 20 + Round(leader.hhi, 2) + Round(3 * bullish, 10), Round(14 * horizon, 10),
                5175, 0, 60, {leader.ticker})
    BY <1>9, <2>2, <2>3, <2>4, <2>5 DEF Buildable
  <2> QED
    BY <2>6, CandidateIsOwn DEF single
<1>15. ASSUME wide PROVE basket \in OwnCandidates
  <2>1. 3 * leader.hhi \in Int /\ 115 * horizon \in Int
    BY <1>3, <1>5
  <2>2. Round(3 * leader.hhi, 10) \in Int /\ Round(115 * horizon, 100) \in Int
    <3>1. Round(3 * leader.hhi, 10) \in Int
      BY <2>1, RoundType
    <3>2. Round(115 * horizon, 100) \in Int
      BY <2>1, RoundType
    <3> QED
      BY <3>1, <3>2
  <2>3. 45 + 15 * Len(members) - Round(3 * leader.hhi, 10) \in Int
    BY <1>8, <2>2
  <2>4. 4043 \in Nat /\ 0 \in Int /\ 55 \in Int
    OBVIOUS
  <2>5. /\ {members[k].ticker : k \in DOMAIN members} \in SUBSET permitted_tickers
        /\ {members[k].ticker : k \in DOMAIN members} # {}
    BY <1>8, <1>15
  <2>6. Buildable("EQUITY_BASKET", 45 + 15 * Len(members) - Round(3 * leader.hhi, 10),
                Round(115 * horizon, 100), 4043, 0, 55, {members[k].ticker : k \in DOMAIN members})
    BY <1>9, <2>2, <2>3, <2>4, <2>5 DEF Buildable
  <2> QED
    BY <2>6, CandidateIsOwn DEF basket
<1> DEFINE l1 == built(vehicle, etf)
           l2 == l1 \o built(hedged, pair)
           l3 == l2 \o built(vehicle, options)
           l4 == l3 \o built(TRUE, single)
           l5 == l4 \o built(wide, basket)
<1> HIDE DEF etf, pair, options, single, basket
<1>16. vehicle \in BOOLEAN /\ hedged \in BOOLEAN /\ wide \in BOOLEAN /\ TRUE \in BOOLEAN
  OBVIOUS
<1> HIDE DEF vehicle, hedged, wide
<1>17. IsList(l1, {"ETF_LONG"})
  <2>1. CASE vehicle
    <3>1. etf \in OwnCandidates /\ etf.kind = "ETF_LONG" /\ l1 = <<etf>>
      BY <1>10, <1>11, <2>1
    <3> HIDE DEF l1, OwnCandidates
    <3>2. /\ l1 \in Seq(OwnCandidates) /\ DOMAIN l1 = {1} /\ l1[1] = etf
      BY <3>1
    <3> QED
      BY <3>1, <3>2 DEF IsList
  <2>2. CASE ~vehicle
    <3>1. l1 = <<>> /\ <<>> \in Seq(OwnCandidates) /\ DOMAIN <<>> = {}
      <4> HIDE DEF OwnCandidates
      <4> QED
        BY <2>2
    <3> QED
      BY <3>1 DEF IsList
  <2> QED
    BY <2>1, <2>2
<1> HIDE DEF l1
<1>18. IsList(l2, {"ETF_LONG"} \union {"ETF_HEDGED"})
  <2>1. "ETF_HEDGED" \notin {"ETF_LONG"}
    OBVIOUS
  <2> QED
    BY <1>10, <1>12, <1>16, <1>17, <2>1, OneMoreBuilt
<1> HIDE DEF l2
<1>19. IsList(l3, {"ETF_LONG"} \union {"ETF_HEDGED"} \union {"OPTIONS"})
  <2>1. "OPTIONS" \notin {"ETF_LONG"} \union {"ETF_HEDGED"}
    OBVIOUS
  <2> QED
    BY <1>10, <1>13, <1>16, <1>18, <2>1, OneMoreBuilt
<1> HIDE DEF l3
<1>20. IsList(l4, {"ETF_LONG"} \union {"ETF_HEDGED"} \union {"OPTIONS"} \union {"SINGLE_NAME"})
  <2>1. "SINGLE_NAME" \notin {"ETF_LONG"} \union {"ETF_HEDGED"} \union {"OPTIONS"}
    OBVIOUS
  <2> QED
    BY <1>10, <1>14, <1>16, <1>19, <2>1, OneMoreBuilt
<1> HIDE DEF l4
<1>21. IsList(l5, {"ETF_LONG"} \union {"ETF_HEDGED"} \union {"OPTIONS"} \union {"SINGLE_NAME"}
                    \union {"EQUITY_BASKET"})
  <2>1. "EQUITY_BASKET" \notin {"ETF_LONG"} \union {"ETF_HEDGED"} \union {"OPTIONS"}
                                 \union {"SINGLE_NAME"}
    OBVIOUS
  <2> QED
    BY <1>10, <1>15, <1>16, <1>20, <2>1, OneMoreBuilt
<1>22. OwnKinds = {"ETF_LONG"} \union {"ETF_HEDGED"} \union {"OPTIONS"} \union {"SINGLE_NAME"}
                    \union {"EQUITY_BASKET"}
  BY DEF OwnKinds
<1>23. Own(Leader) = l5
  BY <1>1 DEF l1, l2, l3, l4
<1> HIDE DEF l5
<1> QED
  BY <1>21, <1>22, <1>23

-----------------------------------------------------------------------------
(* What the gate lets through.                                             *)

\* One more place, and whether it is one of those counted.
LEMMA OneMorePlace ==
  ASSUME NEW S, NEW n \in Nat
  PROVE  /\ IsFiniteSet(S \intersect 1..n) /\ Cardinality(S \intersect 1..n) \in Nat
         /\ Cardinality(S \intersect 1..n + 1)
              = Cardinality(S \intersect 1..n) + (IF n + 1 \in S THEN 1 ELSE 0)
<1> DEFINE before == S \intersect 1..n
           after == S \intersect 1..n + 1
<1>1. IsFiniteSet(before) /\ Cardinality(before) \in Nat
  <2>1. IsFiniteSet(1..n)
    BY FS_Interval
  <2>2. IsFiniteSet(before)
    BY <2>1, FS_Subset
  <2> QED
    BY <2>2, FS_CardinalityType
<1>2. n + 1 \notin before
  OBVIOUS
<1>3. after = IF n + 1 \in S THEN before \union {n + 1} ELSE before
  <2>1. \A k : k \in 1..n + 1 <=> k \in 1..n \/ k = n + 1
    OBVIOUS
  <2> QED
    BY <2>1
<1> HIDE DEF before, after
<1>4. Cardinality(before \union {n + 1}) = Cardinality(before) + 1
  BY <1>1, <1>2, FS_AddElement
<1>5. Cardinality(after) = Cardinality(before) + (IF n + 1 \in S THEN 1 ELSE 0)
  BY <1>1, <1>3, <1>4
<1> QED
  BY <1>1, <1>5 DEF before, after

IsIdea(c) == IF c.kind # "NO_TRADE" THEN 1 ELSE 0

\* A proposal appended is one idea more, if it is not to do nothing.
LEMMA OneMoreIdea ==
  ASSUME NEW S, NEW s \in Seq(S), NEW c \in S
  PROVE  /\ Cardinality(Ideas(s)) \in Nat
         /\ Cardinality(Ideas(Append(s, c))) = Cardinality(Ideas(s)) + IsIdea(c)
<1> DEFINE len == Len(s)
           more == Append(s, c)
           ideas == Ideas(more)
<1>1. /\ len \in Nat /\ DOMAIN s = 1..len /\ DOMAIN more = 1..len + 1
      /\ more[len + 1] = c /\ \A k \in 1..len : more[k] = s[k]
  OBVIOUS
<1> HIDE DEF len, more
<1>2. \A k \in 1..len : k \in 1..len + 1
  BY <1>1
<1>3. len + 1 \in 1..len + 1
  BY <1>1
<1>4. ideas \intersect 1..len = Ideas(s)
  BY <1>1, <1>2 DEF Ideas
<1>5. ideas \intersect 1..len + 1 = ideas /\ (len + 1 \in ideas <=> c.kind # "NO_TRADE")
  <2>1. ideas = {k \in 1..len + 1 : more[k].kind # "NO_TRADE"}
    BY <1>1 DEF Ideas
  <2> HIDE DEF ideas
  <2>2. ideas \intersect 1..len + 1 = ideas
    BY <2>1
  <2>3. len + 1 \in ideas <=> more[len + 1].kind # "NO_TRADE"
    BY <1>3, <2>1
  <2> QED
    BY <1>1, <2>2, <2>3
<1> HIDE DEF ideas
<1>6. /\ Cardinality(Ideas(s)) \in Nat
      /\ Cardinality(ideas) = Cardinality(Ideas(s)) + (IF len + 1 \in ideas THEN 1 ELSE 0)
  <2>1. /\ Cardinality(ideas \intersect 1..len) \in Nat
        /\ Cardinality(ideas \intersect 1..len + 1)
             = Cardinality(ideas \intersect 1..len) + (IF len + 1 \in ideas THEN 1 ELSE 0)
    BY <1>1, OneMorePlace
  <2> QED
    BY <1>4, <1>5, <2>1
<1> QED
  BY <1>5, <1>6 DEF IsIdea, ideas, more

Verdicts == [accepted : Seq(Proposals), refused : Seq(Proposals)]

Counted(verdict) == Cardinality(Ideas(verdict.accepted)) + Cardinality(Ideas(verdict.refused))

\* Proposals have figures, and are not EDGE's own.
LEMMA ProposalHasFigures ==
  ASSUME NEW proposal \in Proposals
  PROVE  HasFigures(proposal) /\ proposal.by # "EDGE"
<1>1. Unstated \in Int
  BY DEF Unstated
<1> QED
  BY <1>1, IdeasAssumption DEF HasFigures

\* The gate puts a proposal on one list or the other, and accepts only what may be.
LEMMA OneMoreJudged ==
  ASSUME NEW verdict \in Verdicts, NEW proposal \in Proposals
  PROVE  /\ Judged(verdict, proposal) \in Verdicts
         /\ IsAccepted(verdict.accepted) => IsAccepted(Judged(verdict, proposal).accepted)
         /\ Counted(Judged(verdict, proposal)) = Counted(verdict) + IsIdea(proposal)
<1> DEFINE accepted == verdict.accepted
           refused == verdict.refused
           judged == Judged(verdict, proposal)
<1>1. accepted \in Seq(Proposals) /\ refused \in Seq(Proposals)
  BY DEF Verdicts
<1>2. verdict = [accepted |-> accepted, refused |-> refused]
  BY DEF Verdicts
<1>3. /\ Cardinality(Ideas(accepted)) \in Nat /\ Cardinality(Ideas(refused)) \in Nat
      /\ Cardinality(Ideas(Append(accepted, proposal))) = Cardinality(Ideas(accepted)) + IsIdea(proposal)
      /\ Cardinality(Ideas(Append(refused, proposal))) = Cardinality(Ideas(refused)) + IsIdea(proposal)
  <2> HIDE DEF accepted, refused
  <2> QED
    BY <1>1, OneMoreIdea
<1>4. IsIdea(proposal) \in Nat
  BY DEF IsIdea
<1>5. CASE Violates(proposal, accepted)
  <2>1. judged = [accepted |-> accepted, refused |-> Append(refused, proposal)]
    BY <1>2, <1>5 DEF Judged
  <2>2. judged.accepted = accepted /\ judged.refused = Append(refused, proposal)
    BY <2>1
  <2>3. Append(refused, proposal) \in Seq(Proposals)
    BY <1>1
  <2>4. judged \in Verdicts
    <3> HIDE DEF accepted, refused, judged
    <3> QED
      BY <1>1, <2>1, <2>3 DEF Verdicts
  <2>5. Counted(judged) = Counted(verdict) + IsIdea(proposal)
    <3> HIDE DEF judged
    <3> QED
      BY <1>3, <1>4, <2>2 DEF Counted
  <2> QED
    BY <2>2, <2>4, <2>5
<1>6. CASE ~Violates(proposal, accepted)
  <2> DEFINE more == Append(accepted, proposal)
             len == Len(accepted)
  <2>1. judged = [accepted |-> more, refused |-> refused]
    BY <1>2, <1>6 DEF Judged
  <2>2. judged.accepted = more /\ judged.refused = refused
    BY <2>1
  <2>3. /\ more \in Seq(Proposals) /\ len \in Nat
        /\ DOMAIN accepted = 1..len /\ DOMAIN more = 1..len + 1
        /\ more[len + 1] = proposal /\ \A k \in 1..len : more[k] = accepted[k]
    <3> HIDE DEF accepted
    <3> QED
      BY <1>1
  <2>4. judged \in Verdicts
    <3> HIDE DEF accepted, refused, judged, more
    <3> QED
      BY <1>1, <2>1, <2>3 DEF Verdicts
  <2>5. Counted(judged) = Counted(verdict) + IsIdea(proposal)
    <3> HIDE DEF judged
    <3> QED
      BY <1>3, <1>4, <2>2 DEF Counted
  <2>6. ASSUME IsAccepted(accepted) PROVE IsAccepted(more)
    <3> HIDE DEF more, len, accepted, judged
    <3>1. /\ \A k \in 1..len : accepted[k].kind # proposal.kind
          /\ proposal.kind # "NO_TRADE" =>
               proposal.tickers # {} /\ proposal.tickers \subseteq permitted_tickers
      BY <1>6, <2>3 DEF Violates
    <3>2. \A k \in 1..len + 1 : k \in 1..len \/ k = len + 1
      BY <2>3
    <3>3. \A k \in DOMAIN more : HasFigures(more[k])
      BY <2>3, <2>6, <3>2, ProposalHasFigures DEF IsAccepted
    <3>4. \A k \in Ideas(more) :
            more[k].tickers # {} /\ more[k].tickers \subseteq permitted_tickers
      <4> SUFFICES ASSUME NEW k \in Ideas(more)
                   PROVE  more[k].tickers # {} /\ more[k].tickers \subseteq permitted_tickers
        OBVIOUS
      <4>1. k \in 1..len + 1 /\ more[k].kind # "NO_TRADE"
        BY <2>3 DEF Ideas
      <4>2. CASE k = len + 1
        BY <2>3, <3>1, <4>1, <4>2
      <4>3. CASE k \in 1..len
        <5>1. k \in Ideas(accepted) /\ more[k] = accepted[k]
          BY <2>3, <4>1, <4>3 DEF Ideas
        <5> QED
          BY <2>6, <5>1 DEF IsAccepted
      <4> QED
        BY <3>2, <4>1, <4>2, <4>3
    <3>5. ASSUME NEW j \in DOMAIN more, NEW k \in DOMAIN more, more[j].kind = more[k].kind
          PROVE  j = k
      <4>1. CASE j = len + 1 \/ k = len + 1
        BY <2>3, <3>1, <3>2, <3>5, <4>1
      <4>2. CASE j \in 1..len /\ k \in 1..len
        BY <2>3, <2>6, <3>5, <4>2 DEF IsAccepted
      <4> QED
        BY <2>3, <3>2, <4>1, <4>2
    <3> QED
      BY <3>3, <3>4, <3>5 DEF IsAccepted
  <2> QED
    BY <2>2, <2>4, <2>5, <2>6
<1> QED
  BY <1>5, <1>6

NothingJudged == [accepted |-> <<>>, refused |-> <<>>]

\* Nothing proposed, nothing judged.
LEMMA NothingIsAccepted ==
  /\ IsAccepted(<<>>) /\ <<>> \in Seq(Proposals) /\ <<>> \in Seq({})
  /\ Ideas(<<>>) = {} /\ Cardinality(Ideas(<<>>)) = 0
  /\ NothingJudged \in Verdicts
<1>1. DOMAIN <<>> = {} /\ <<>> \in Seq(Proposals) /\ <<>> \in Seq({})
  OBVIOUS
<1>2. Ideas(<<>>) = {}
  BY <1>1 DEF Ideas
<1>3. Cardinality(Ideas(<<>>)) = 0
  BY <1>2, FS_EmptySet
<1>4. IsAccepted(<<>>)
  BY <1>1, <1>2 DEF IsAccepted
<1>5. NothingJudged \in Verdicts
  BY <1>1 DEF NothingJudged, Verdicts
<1> QED
  BY <1>1, <1>2, <1>3, <1>4, <1>5

\* The gate accepts only what may be, and every idea proposed is accepted or refused.
LEMMA GateLosesNothing ==
  ASSUME NEW proposed \in SeqOf(Proposals, MaxProposals)
  PROVE  /\ Gate(proposed) \in Verdicts
         /\ IsAccepted(Gate(proposed).accepted)
         /\ Counted(Gate(proposed)) = Cardinality(Ideas(proposed))
<1> DEFINE N == Len(proposed)
           step == [n \in 1..N |-> [v \in Verdicts |-> Judged(v, proposed[n])]]
           next(g, n) == IF n = 0 THEN NothingJudged ELSE Judged(g[n - 1], proposed[n])
           Solves(g) == g = [n \in 0..N |-> next(g, n)]
<1>1. N \in Nat /\ DOMAIN proposed = 1..N /\ \A n \in 1..N : proposed[n] \in Proposals
  <2>1. PICK m \in 0..MaxProposals : proposed \in [1..m -> Proposals]
    BY DEF SeqOf
  <2>2. MaxProposals \in Nat
    BY IdeasAssumption
  <2>3. m \in Nat
    BY <2>1, <2>2
  <2>4. N = m
    BY <2>1, <2>3
  <2> HIDE DEF N
  <2> QED
    BY <2>1, <2>3, <2>4
<1> HIDE DEF N
<1>2. ASSUME NEW n \in 1..N, NEW v \in Verdicts PROVE step[n][v] = Judged(v, proposed[n])
  <2>1. step[n] = [w \in Verdicts |-> Judged(w, proposed[n])]
    OBVIOUS
  <2> QED
    BY <2>1
<1>3. \A n \in 1..N : \A v \in Verdicts : step[n][v] \in Verdicts
  BY <1>1, <1>2, OneMoreJudged
<1> HIDE DEF step
<1>4. PICK g \in [0..N -> Verdicts] : Steps(N, NothingJudged, step, g)
  BY <1>1, <1>3, NothingIsAccepted, StepByStep
<1>5. \A n \in 0..N : g[n] = next(g, n)
  <2>1. \A n \in 0..N : n # 0 => n \in 1..N /\ g[n - 1] \in Verdicts
    BY <1>1, <1>4
  <2>2. \A n \in 0..N : g[n] = IF n = 0 THEN NothingJudged ELSE step[n][g[n - 1]]
    <3> DEFINE f == [n \in 0..N |-> IF n = 0 THEN NothingJudged ELSE step[n][g[n - 1]]]
    <3>1. \A n \in 0..N : f[n] = IF n = 0 THEN NothingJudged ELSE step[n][g[n - 1]]
      OBVIOUS
    <3>2. g = f
      BY <1>4 DEF Steps
    <3> HIDE DEF f
    <3> QED
      BY <3>1, <3>2
  <2> QED
    BY <1>2, <2>1, <2>2
<1>6. Solves(g)
  BY <1>4, <1>5
<1> DEFINE verdict == CHOOSE h : Solves(h)
<1>7. Gate(proposed) = verdict[N] /\ Solves(verdict)
  <2>1. Gate(proposed) = verdict[N]
    BY DEF Gate, NothingJudged, N
  <2>2. Solves(verdict)
    <3> HIDE DEF Solves
    <3> QED
      BY <1>6
  <2> QED
    BY <2>1, <2>2
<1> HIDE DEF verdict
<1>8. \A n \in 0..N : verdict[n] = next(verdict, n)
  <2> DEFINE f == [n \in 0..N |-> next(verdict, n)]
  <2>1. \A n \in 0..N : f[n] = next(verdict, n)
    OBVIOUS
  <2>2. verdict = f
    BY <1>7
  <2> HIDE DEF f
  <2> QED
    BY <2>1, <2>2
<1> DEFINE ideas == Ideas(proposed)
           Holds(n) == /\ verdict[n] \in Verdicts
                       /\ IsAccepted(verdict[n].accepted)
                       /\ Counted(verdict[n]) = Cardinality(ideas \intersect 1..n)
           good == {n \in Nat : n <= N => Holds(n)}
<1> HIDE DEF Solves
<1>9. Holds(0)
  <2>1. verdict[0] = NothingJudged
    BY <1>1, <1>8
  <2>2. ideas \intersect 1..0 = {}
    OBVIOUS
  <2>3. Cardinality({}) = 0
    BY FS_EmptySet
  <2>4. NothingJudged.accepted = <<>> /\ NothingJudged.refused = <<>>
    BY DEF NothingJudged
  <2>5. Counted(NothingJudged) = 0
    BY <2>4, NothingIsAccepted DEF Counted
  <2> HIDE DEF ideas
  <2> QED
    BY <2>1, <2>2, <2>3, <2>4, <2>5, NothingIsAccepted
<1>10. ASSUME NEW n \in Nat, n + 1 <= N, Holds(n) PROVE Holds(n + 1)
  <2>1. n + 1 \in 1..N /\ n + 1 \in 0..N /\ n + 1 # 0 /\ n + 1 - 1 = n
    BY <1>1, <1>10
  <2>2. verdict[n + 1] = Judged(verdict[n], proposed[n + 1]) /\ proposed[n + 1] \in Proposals
    BY <1>1, <1>8, <2>1
  <2>3. /\ verdict[n + 1] \in Verdicts /\ IsAccepted(verdict[n + 1].accepted)
        /\ Counted(verdict[n + 1]) = Counted(verdict[n]) + IsIdea(proposed[n + 1])
    BY <1>10, <2>2, OneMoreJudged
  <2>4. n + 1 \in ideas <=> proposed[n + 1].kind # "NO_TRADE"
    BY <1>1, <2>1 DEF Ideas
  <2> HIDE DEF ideas
  <2>5. Cardinality(ideas \intersect 1..n + 1)
          = Cardinality(ideas \intersect 1..n) + (IF n + 1 \in ideas THEN 1 ELSE 0)
    BY OneMorePlace
  <2> QED
    BY <1>10, <2>3, <2>4, <2>5 DEF IsIdea
<1> HIDE DEF Holds
<1>11. 0 \in good
  BY <1>9
<1>12. \A n \in Nat : n \in good => n + 1 \in good
  <2> SUFFICES ASSUME NEW n \in Nat, n \in good PROVE n + 1 <= N => Holds(n + 1)
    OBVIOUS
  <2>1. n + 1 <= N => n <= N
    BY <1>1
  <2> QED
    BY <1>10, <2>1
<1>13. Nat \subseteq good
  <2> HIDE DEF good
  <2> QED
    BY <1>11, <1>12, CountingUp
<1>14. Holds(N)
  <2>1. N \in good /\ N <= N
    BY <1>1, <1>13
  <2> QED
    BY <2>1
<1>15. ideas \intersect 1..N = ideas
  BY <1>1 DEF Ideas
<1> HIDE DEF ideas
<1>16. /\ verdict[N] \in Verdicts /\ IsAccepted(verdict[N].accepted)
       /\ Counted(verdict[N]) = Cardinality(ideas)
  BY <1>14, <1>15 DEF Holds
<1> QED
  BY <1>7, <1>16 DEF ideas

-----------------------------------------------------------------------------
(* The invariant.                                                          *)

\* The invariant: what the research names, and the menu. It holds at first.
LEMMA StartsTyped ==
  ASSUME IdeasInit
  PROVE  ResearchTyped /\ MenuStands
<1>1. strategy.vehicles = <<>> /\ strategy.controls = <<>> /\ synthesis.securities = <<>>
  BY DEF IdeasInit, NoStrategy, NoSynthesis
<1>2. <<>> \in Seq(Funds) /\ <<>> \in Seq(SecurityType) /\ {} \subseteq Funds
  OBVIOUS
<1>3. ResearchTyped
  BY <1>1, <1>2 DEF ResearchTyped, IsStrategy
<1>4. MenuStands
  BY DEF IdeasInit, MenuStands
<1> QED
  BY <1>3, <1>4

\* It is kept by each step.
LEMMA StrategyStaysTyped ==
  ASSUME ResearchTyped, BuildStrategy
  PROVE  ResearchTyped' /\ MenuStands'
<1>1. PICK universe \in Universes : strategy' = Strategy(universe)
  BY DEF BuildStrategy
<1>2. IsStrategy(Strategy(universe))
  BY StrategyIsTyped
<1>3. synthesis' = synthesis /\ stage' = "STRATEGY"
  BY DEF BuildStrategy
<1>4. IsStrategy(strategy')
  BY <1>1, <1>2
<1> QED
  BY <1>3, <1>4 DEF ResearchTyped, MenuStands, IsStrategy

LEMMA SynthesisStaysTyped ==
  ASSUME ResearchTyped, SynthesizeTheme
  PROVE  ResearchTyped' /\ MenuStands'
<1> DEFINE named(disclosed) == {r \in disclosed : \E f \in strategy.signal : f.ticker = r.fund}
           dates(disclosed) == {r.date : r \in named(disclosed)}
           of(disclosed) == {r.security : r \in named(disclosed)}
           short(disclosed) == IF named(disclosed) = {} THEN {"NO_DISCLOSURES_AVAILABLE"}
                      ELSE IF Cardinality(dates(disclosed)) < MIN_OBSERVATION_DATES
                      THEN {"INSUFFICIENT_HISTORY"} ELSE {}
           read(disclosed, edges) ==
             [k \in DOMAIN SetToSeq(of(disclosed)) |->
                LET id == SetToSeq(of(disclosed))[k] IN Security(named(disclosed), id, edges[id])]
<1>1. PICK disclosed \in Panels : \E edges \in [of(disclosed) -> Edges] :
        synthesis' = [blocked |-> short(disclosed),
                      securities |-> IF short(disclosed) # {} THEN <<>> ELSE read(disclosed, edges)]
  BY DEF SynthesizeTheme
<1> DEFINE panel == named(disclosed)
           blocked == short(disclosed)
           ids == of(disclosed)
<1>2. PICK edges \in [ids -> Edges] :
        synthesis' = [blocked |-> blocked,
                      securities |-> IF blocked # {} THEN <<>> ELSE read(disclosed, edges)]
  BY <1>1
<1> HIDE DEF blocked
<1>3. /\ IsFiniteSet(panel) /\ panel \subseteq UNION Panels
      /\ \A r \in panel : r.units \in Nat \ {0}
  <2>1. IsFiniteSet(disclosed) /\ \A r \in disclosed : r.units \in Nat \ {0}
    BY IdeasAssumption
  <2>2. panel \subseteq disclosed
    OBVIOUS
  <2> HIDE DEF panel
  <2> QED
    BY <2>1, <2>2, FS_Subset
<1>4. ids = {r.security : r \in panel}
  OBVIOUS
<1> DEFINE seq == SetToSeq(ids)
           securities == [k \in DOMAIN seq |-> Security(panel, seq[k], edges[seq[k]])]
<1>5. read(disclosed, edges) = securities
  OBVIOUS
<1>6. synthesis'.securities = IF blocked # {} THEN <<>> ELSE securities
  <2> HIDE DEF read, securities
  <2> QED
    BY <1>2, <1>5
<1> HIDE DEF panel, ids
<1>7. IsFiniteSet(ids)
  <2> DEFINE image == [r \in panel |-> r.security]
  <2>1. image \in Surjection(panel, ids)
    BY <1>4 DEF Surjection
  <2> HIDE DEF image
  <2> QED
    BY <1>3, <2>1, FS_Surjection
<1>8. seq \in Seq(ids)
  BY <1>7, SetAsSequence
<1> HIDE DEF seq
<1>9. Len(seq) \in Nat /\ DOMAIN seq = 1..Len(seq) /\ \A k \in DOMAIN seq : seq[k] \in ids
  BY <1>8
<1>10. ASSUME NEW k \in DOMAIN seq PROVE securities[k] \in SecurityType
  <2>1. seq[k] \in {r.security : r \in panel} /\ edges[seq[k]] \in Int
    BY <1>4, <1>9, IdeasAssumption
  <2>2. Security(panel, seq[k], edges[seq[k]]) \in SecurityType
    <3> HIDE DEF SecurityType
    <3>1. ASSUME NEW id, id = seq[k], NEW edge, edge = edges[seq[k]]
          PROVE  Security(panel, id, edge) \in SecurityType
      <4>1. id \in {r.security : r \in panel} /\ edge \in Int
        BY <2>1, <3>1
      <4> QED
        BY <1>3, <4>1, SecurityIsTyped
    <3> QED
      BY <3>1
  <2> HIDE DEF SecurityType
  <2> QED
    BY <2>2
<1>11. securities \in Seq(SecurityType) /\ <<>> \in Seq(SecurityType)
  <2>1. DOMAIN securities = 1..Len(seq)
    BY <1>9
  <2>2. securities \in [1..Len(seq) -> SecurityType]
    <3> HIDE DEF SecurityType
    <3> QED
      BY <1>9, <1>10, <2>1
  <2> HIDE DEF securities, SecurityType
  <2> QED
    BY <1>9, <2>2
<1>12. synthesis'.securities \in Seq(SecurityType)
  <2> HIDE DEF securities, SecurityType
  <2> QED
    BY <1>6, <1>11
<1>13. strategy' = strategy /\ stage' = "SYNTHESIS"
  BY DEF SynthesizeTheme
<1> HIDE DEF SecurityType
<1> QED
  BY <1>12, <1>13 DEF ResearchTyped, MenuStands, IsStrategy

Gated(alternatives) == {k \in DOMAIN alternatives : alternatives[k].by # "EDGE"}

\* What is offered stands, when the gate or the builders have let it through.
LEMMA OfferedStands ==
  ASSUME ResearchTyped, NEW closed, NEW proposed, NEW refused,
         Offered(closed, proposed, refused), IsMenu(closed),
         Cardinality(Gated(closed)) + Cardinality(Ideas(refused)) = Cardinality(Ideas(proposed))
  PROVE  ResearchTyped' /\ MenuStands'
<1>1. /\ menu' = closed /\ answer' = proposed /\ quarantined' = refused
      /\ strategy' = strategy /\ synthesis' = synthesis
  BY DEF Offered
<1>2. permitted_tickers' = permitted_tickers
  BY <1>1 DEF permitted_tickers
<1>3. ResearchTyped'
  BY <1>1 DEF ResearchTyped, IsStrategy
<1>4. IsMenu(menu)'
  BY <1>1, <1>2 DEF IsMenu
<1>5. (Cardinality(Gated(menu)) + Cardinality(Ideas(quarantined)) = Cardinality(Ideas(answer)))'
  BY <1>1
<1>6. MenuStands'
  BY <1>4, <1>5 DEF MenuStands, IsMenu, Gated
<1> QED
  BY <1>3, <1>6

LEMMA OwnMenuStands ==
  ASSUME ResearchTyped, GenerateOwn
  PROVE  ResearchTyped' /\ MenuStands'
<1> DEFINE own == IF HasLeader THEN Own(Leader) ELSE <<>>
<1>1. \E S : own \in Seq(S)
  BY OwnIsAccepted, NothingIsAccepted DEF IsList
<1>2. IsAccepted(own) /\ \A k \in DOMAIN own : own[k].by = "EDGE"
  <2>1. CASE HasLeader
    <3>1. IsList(Own(Leader), OwnKinds)
      BY <2>1, OwnIsAccepted
    <3> QED
      BY <2>1, <3>1, ListIsAccepted
  <2>2. CASE ~HasLeader
    <3>1. DOMAIN <<>> = {}
      OBVIOUS
    <3> QED
      BY <2>2, <3>1, NothingIsAccepted
  <2> QED
    BY <2>1, <2>2
<1>3. Offered(Closed(own), <<>>, <<>>)
  BY DEF GenerateOwn
<1> HIDE DEF own
<1>4. PICK S : own \in Seq(S)
  BY <1>1
<1>5. IsMenu(Closed(own)) /\ Cardinality(Gated(Closed(own)))
                               = Cardinality({k \in Ideas(own) : own[k].by # "EDGE"})
  BY <1>2, <1>4, ClosedIsMenu DEF Gated
<1>6. {k \in Ideas(own) : own[k].by # "EDGE"} = {}
  BY <1>2 DEF Ideas
<1>7. Cardinality(Gated(Closed(own))) + Cardinality(Ideas(<<>>)) = Cardinality(Ideas(<<>>))
  <2>1. Cardinality(Gated(Closed(own))) = 0
    BY <1>5, <1>6, FS_EmptySet
  <2>2. Cardinality(Ideas(<<>>)) = 0
    BY NothingIsAccepted
  <2> QED
    BY <2>1, <2>2
<1> QED
  BY <1>3, <1>5, <1>7, OfferedStands

LEMMA FailureMenuStands ==
  ASSUME ResearchTyped, ModelFails
  PROVE  ResearchTyped' /\ MenuStands'
<1> DEFINE none == <<>>
<1>1. none \in Seq({}) /\ IsAccepted(none) /\ Ideas(none) = {}
  BY NothingIsAccepted
<1>2. Offered(Closed(none), none, none)
  BY DEF ModelFails
<1>3. IsMenu(Closed(none)) /\ Cardinality(Gated(Closed(none)))
                                = Cardinality({k \in Ideas(none) : none[k].by # "EDGE"})
  <2> HIDE DEF none
  <2> QED
    BY <1>1, ClosedIsMenu DEF Gated
<1>4. {k \in Ideas(none) : none[k].by # "EDGE"} = {}
  BY <1>1
<1> HIDE DEF none
<1>5. Cardinality(Gated(Closed(none))) + Cardinality(Ideas(none)) = Cardinality(Ideas(none))
  BY <1>1, <1>3, <1>4, FS_EmptySet
<1> QED
  BY <1>2, <1>3, <1>5, OfferedStands

LEMMA AnswerMenuStands ==
  ASSUME ResearchTyped, AskModel
  PROVE  ResearchTyped' /\ MenuStands'
<1>1. PICK proposed \in SeqOf(Proposals, MaxProposals) :
        stage = "SYNTHESIS" /\ Offered(Closed(Gate(proposed).accepted), proposed, Gate(proposed).refused)
  BY DEF AskModel
<1> DEFINE accepted == Gate(proposed).accepted
           refused == Gate(proposed).refused
<1>2. /\ accepted \in Seq(Proposals) /\ IsAccepted(accepted)
      /\ Cardinality(Ideas(accepted)) + Cardinality(Ideas(refused)) = Cardinality(Ideas(proposed))
  BY GateLosesNothing DEF Verdicts, Counted
<1>3. Offered(Closed(accepted), proposed, refused)
  BY <1>1
<1> HIDE DEF accepted, refused
<1>4. IsMenu(Closed(accepted)) /\ Cardinality(Gated(Closed(accepted)))
                                    = Cardinality({k \in Ideas(accepted) : accepted[k].by # "EDGE"})
  BY <1>2, ClosedIsMenu DEF Gated
<1>5. {k \in Ideas(accepted) : accepted[k].by # "EDGE"} = Ideas(accepted)
  <2>1. \A k \in DOMAIN accepted : accepted[k] \in Proposals
    BY <1>2
  <2>2. \A k \in DOMAIN accepted : accepted[k].by # "EDGE"
    BY <2>1, ProposalHasFigures
  <2> QED
    BY <2>2 DEF Ideas
<1>6. Cardinality(Gated(Closed(accepted))) + Cardinality(Ideas(refused)) = Cardinality(Ideas(proposed))
  BY <1>2, <1>4, <1>5
<1> QED
  BY <1>3, <1>4, <1>6, OfferedStands

\* Whatever a model proposes, the menu has each kind once, EDGE's own null option, and
\* for the rest instruments the research has named; no proposal is lost; and nothing
\* expected to lose, by more than a score rounds away, stands before doing nothing
\* (MenuStands).
THEOREM MenusStand == IdeasSpec => []MenuStands
<1>1. IdeasInit => ResearchTyped /\ MenuStands
  BY StartsTyped
<1>2. (ResearchTyped /\ MenuStands) /\ [IdeasNext]_ideaVars => (ResearchTyped /\ MenuStands)'
  <2> SUFFICES ASSUME ResearchTyped, MenuStands, [IdeasNext]_ideaVars
               PROVE  ResearchTyped' /\ MenuStands'
    OBVIOUS
  <2>1. CASE BuildStrategy
    BY <2>1, StrategyStaysTyped
  <2>2. CASE SynthesizeTheme
    BY <2>2, SynthesisStaysTyped
  <2>3. CASE GenerateOwn
    BY <2>3, OwnMenuStands
  <2>4. CASE AskModel
    BY <2>4, AnswerMenuStands
  <2>5. CASE ModelFails
    BY <2>5, FailureMenuStands
  <2>6. CASE UNCHANGED ideaVars
    <3>1. /\ stage' = stage /\ strategy' = strategy /\ synthesis' = synthesis
          /\ answer' = answer /\ menu' = menu /\ quarantined' = quarantined
      BY <2>6 DEF ideaVars
    <3>2. permitted_tickers' = permitted_tickers
      BY <3>1 DEF permitted_tickers
    <3>3. ResearchTyped'
      BY <3>1 DEF ResearchTyped, IsStrategy
    <3>4. MenuStands'
      BY <3>1, <3>2 DEF MenuStands
    <3> QED
      BY <3>3, <3>4
  <2> QED
    BY <2>1, <2>2, <2>3, <2>4, <2>5, <2>6 DEF IdeasNext
<1> QED
  BY <1>1, <1>2, PTL DEF IdeasSpec
=============================================================================
