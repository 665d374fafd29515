--------------------------- MODULE FeeShareProofs ---------------------------
(***************************************************************************)
(* Machine-checked, for every number of accounts, every scale, term,       *)
(* amount and behaviour of the vault: the wrapper's principal and rewards, *)
(* the compounder's yields and the burn campaign's record.                 *)
(***************************************************************************)
EXTENDS MCFeeShares, TotalsProofs

(* Floors.                                                                  *)
LEMMA Division ==
    ASSUME NEW x \in Nat, NEW s \in Nat \ {0}
    PROVE  x \div s \in Nat /\ s * (x \div s) <= x
  OBVIOUS

(* Floors grow with what is divided.                                        *)
LEMMA DivisionMonotone ==
    ASSUME NEW x \in Nat, NEW y \in Nat, NEW s \in Nat \ {0}, x <= y
    PROVE  x \div s <= y \div s
  OBVIOUS

(* A larger rate earns a stake no less.                                     *)
LEMMA ProductMonotone ==
    ASSUME NEW n \in Nat, NEW c \in Nat, NEW d \in Nat, c <= d
    PROVE  n * c \in Nat /\ n * d \in Nat /\ n * c <= n * d
<1>1. n * d = n * c + n * (d - c) /\ n * (d - c) \in Nat /\ n * c \in Nat
  OBVIOUS
<1>2. QED
  BY <1>1

(* A stake's earnings, floored, at a rate and at a larger one.              *)
LEMMA FloorFacts ==
    ASSUME NEW n \in Nat, NEW c \in Nat
    PROVE  /\ Floor(n, c) \in Nat /\ ACC_SCALE * Floor(n, c) <= n * c /\ n * c \in Nat
           /\ Floor(0, c) = 0 /\ Floor(n, 0) = 0
           /\ \A d \in Nat : c <= d => Floor(n, c) <= Floor(n, d)
<1>1. ACC_SCALE \in Nat \ {0}
  BY TermSetting
<1>2. n * c \in Nat
  OBVIOUS
<1>3. Floor(n, c) \in Nat /\ ACC_SCALE * Floor(n, c) <= n * c
  <2> DEFINE p == n * c
  <2>1. p \in Nat
    BY <1>2
  <2> HIDE DEF p
  <2>2. p \div ACC_SCALE \in Nat /\ ACC_SCALE * (p \div ACC_SCALE) <= p
    BY <1>1, <2>1, Division
  <2>3. QED
    BY <2>2 DEF p, Floor
<1>4. Floor(0, c) = 0 /\ Floor(n, 0) = 0
  <2>1. 0 * c = 0 /\ n * 0 = 0 /\ 0 \div ACC_SCALE = 0
    BY <1>1
  <2>2. QED
    BY <2>1 DEF Floor
<1>5. ASSUME NEW d \in Nat, c <= d PROVE Floor(n, c) <= Floor(n, d)
  <2> DEFINE p == n * c
             q == n * d
  <2>1. p \in Nat /\ q \in Nat /\ p <= q
    BY <1>5, ProductMonotone
  <2> HIDE DEF p, q
  <2>2. p \div ACC_SCALE <= q \div ACC_SCALE
    BY <1>1, <2>1, DivisionMonotone
  <2>3. QED
    BY <2>2 DEF p, q, Floor
<1>6. QED
  BY <1>2, <1>3, <1>4, <1>5

----------------------------------------------------------------------------
(* A bucket: what settling, rebasing and sharing out do to what is owed.    *)

(* Owed amounts are numbers. *)
LEMMA OwedType ==
    ASSUME NEW b \in Buckets, NEW h \in [Accounts -> Nat], NEW a \in Accounts
    PROVE  /\ Owed(b, h, a) \in Int /\ Floor(h[a], b.cum) \in Nat
           /\ b.accrued[a] \in Nat /\ b.debt[a] \in Nat
           /\ Owed(b, h, a) = b.accrued[a] + (Floor(h[a], b.cum) - b.debt[a])
           /\ Settles(b, h, a) => Owed(b, h, a) \in Nat
<1>1. b.accrued[a] \in Nat /\ b.debt[a] \in Nat /\ b.cum \in Nat /\ h[a] \in Nat
  BY DEF Buckets
<1>2. Floor(h[a], b.cum) \in Nat
  BY <1>1, FloorFacts
<1>3. QED
  BY <1>1, <1>2 DEF Owed, Pending, Settles

CheckpointedTo(b, h, a, c) ==
    /\ c \in Buckets /\ c.cum = b.cum /\ c.reserve = b.reserve
    /\ c.debt = [b.debt EXCEPT ![a] = Floor(h[a], b.cum)]
    /\ c.accrued = [b.accrued EXCEPT ![a] = Owed(b, h, a)]
    /\ \A x \in Accounts : Owed(c, h, x) = Owed(b, h, x)

(* A checkpoint moves what is pending into what is accrued. *)
LEMMA CheckpointFacts ==
    ASSUME NEW b \in Buckets, NEW h \in [Accounts -> Nat], NEW a \in Accounts, Settles(b, h, a)
    PROVE  CheckpointedTo(b, h, a, Checkpoint(b, h, a))
<1> DEFINE o == Owed(b, h, a)
           f == Floor(h[a], b.cum)
           c == Checkpoint(b, h, a)
<1>1. o \in Nat /\ f \in Nat
  BY OwedType
<1>2. c = [b EXCEPT !.accrued[a] = o, !.debt[a] = f]
  BY DEF Checkpoint
<1> HIDE DEF o, f, c
<1>3. /\ c.cum = b.cum /\ c.reserve = b.reserve /\ c \in Buckets
      /\ c.debt = [b.debt EXCEPT ![a] = f] /\ c.accrued = [b.accrued EXCEPT ![a] = o]
  BY <1>1, <1>2 DEF Buckets
<1>4. \A x \in Accounts : x # a => c.accrued[x] = b.accrued[x] /\ c.debt[x] = b.debt[x]
  BY <1>3 DEF Buckets
<1>5. c.accrued[a] = o /\ c.debt[a] = f
  BY <1>3 DEF Buckets
<1>6. ASSUME NEW x \in Accounts PROVE Owed(c, h, x) = Owed(b, h, x)
  <2>1. CASE x = a
    <3>1. Floor(h[a], c.cum) = f
      BY <1>3 DEF f
    <3>2. Owed(c, h, a) = o
      BY <1>1, <1>5, <3>1 DEF Owed, Pending
    <3>3. QED
      BY <2>1, <3>2 DEF o
  <2>2. CASE x # a
    BY <1>3, <1>4, <2>2 DEF Owed, Pending
  <2>3. QED
    BY <2>1, <2>2
<1>7. QED
  BY <1>3, <1>6 DEF CheckpointedTo, o, f, c

RebasedTo(b, h, g, a, c) ==
    /\ c \in Buckets /\ c.cum = b.cum /\ c.reserve = b.reserve
    /\ c.debt = [b.debt EXCEPT ![a] = Floor(g[a], b.cum)] /\ c.accrued = b.accrued
    /\ Owed(c, g, a) = Owed(b, h, a)
    /\ \A x \in Accounts : x # a /\ g[x] = h[x] => Owed(c, g, x) = Owed(b, h, x)

(* After a checkpoint, a new stake changes nothing that is owed. *)
LEMMA RebaseFacts ==
    ASSUME NEW b \in Buckets, NEW h \in [Accounts -> Nat], NEW g \in [Accounts -> Nat],
           NEW a \in Accounts, b.debt[a] = Floor(h[a], b.cum)
    PROVE  RebasedTo(b, h, g, a, Rebase(b, g, a))
<1> DEFINE f == Floor(g[a], b.cum)
           c == Rebase(b, g, a)
<1>1. f \in Nat /\ g[a] \in Nat /\ b.cum \in Nat
  BY FloorFacts DEF Buckets
<1>2. c = [b EXCEPT !.debt[a] = f]
  BY DEF Rebase
<1>f. f = Floor(g[a], b.cum)
  OBVIOUS
<1> HIDE DEF f, c
<1>3. /\ c.cum = b.cum /\ c.reserve = b.reserve /\ c \in Buckets
      /\ c.debt = [b.debt EXCEPT ![a] = f] /\ c.accrued = b.accrued
  BY <1>1, <1>2 DEF Buckets
<1>4. \A x \in Accounts : x # a => c.debt[x] = b.debt[x]
  BY <1>3 DEF Buckets
<1>5. c.debt[a] = f
  BY <1>3 DEF Buckets
<1>6. Owed(c, g, a) = Owed(b, h, a)
  <2>1. b.accrued[a] \in Nat /\ Floor(h[a], b.cum) \in Nat
    BY OwedType
  <2>2. Owed(c, g, a) = c.accrued[a] + (Floor(g[a], c.cum) - c.debt[a])
    BY DEF Owed, Pending
  <2>3. Owed(b, h, a) = b.accrued[a] + (Floor(h[a], b.cum) - b.debt[a])
    BY DEF Owed, Pending
  <2>4. QED
    BY <1>1, <1>3, <1>5, <1>f, <2>1, <2>2, <2>3
<1>7. ASSUME NEW x \in Accounts, x # a, g[x] = h[x] PROVE Owed(c, g, x) = Owed(b, h, x)
  BY <1>3, <1>4, <1>7 DEF Owed, Pending
<1>8. QED
  BY <1>3, <1>6, <1>7, <1>f DEF RebasedTo, c

(* What is owed grows by what the rate gains on the stake. *)
OwedGrown(b, c, h, x) == Owed(c, h, x) = Owed(b, h, x) + (Floor(h[x], c.cum) - Floor(h[x], b.cum))

AccruedTo(b, h, n, total, c) ==
    /\ c \in Buckets /\ c.reserve = b.reserve + n
    /\ b.cum <= c.cum /\ (c.cum - b.cum) * total <= n * ACC_SCALE
    /\ c.debt = b.debt /\ c.accrued = b.accrued
    /\ \A x \in Accounts : Owed(b, h, x) <= Owed(c, h, x) /\ OwedGrown(b, c, h, x)

(* Sharing out gives every stake what the rate gained on it, never less than nothing. *)
LEMMA AccrueFacts ==
    ASSUME NEW b \in Buckets, NEW h \in [Accounts -> Nat], NEW n \in Nat, NEW total \in Nat \ {0}
    PROVE  AccruedTo(b, h, n, total, Accrue(b, n, total))
<1> DEFINE d == (n * ACC_SCALE) \div total
           c == Accrue(b, n, total)
<1>1. d \in Nat /\ total * d <= n * ACC_SCALE
  <2> DEFINE p == n * ACC_SCALE
  <2>1. p \in Nat
    BY TermSetting
  <2> HIDE DEF p
  <2>2. p \div total \in Nat /\ total * (p \div total) <= p
    BY <2>1, Division
  <2>3. QED
    BY <2>2 DEF p
<1>2. c = [b EXCEPT !.cum = b.cum + d, !.reserve = b.reserve + n]
  BY DEF Accrue, Buckets
<1> HIDE DEF d, c
<1>3. /\ c.cum = b.cum + d /\ c.reserve = b.reserve + n /\ c \in Buckets
      /\ c.debt = b.debt /\ c.accrued = b.accrued /\ b.cum \in Nat
  <2>1. b.cum \in Nat /\ b.reserve \in Nat /\ b.cum + d \in Nat /\ b.reserve + n \in Nat
    BY <1>1 DEF Buckets
  <2>2. b = [cum |-> b.cum, reserve |-> b.reserve, debt |-> b.debt, accrued |-> b.accrued]
    BY DEF Buckets
  <2>3. c = [cum |-> b.cum + d, reserve |-> b.reserve + n, debt |-> b.debt, accrued |-> b.accrued]
    BY <1>2, <2>2
  <2>4. b.debt \in [Accounts -> Nat] /\ b.accrued \in [Accounts -> Nat]
    BY DEF Buckets
  <2>5. QED
    BY <2>1, <2>3, <2>4 DEF Buckets
<1>4. b.cum <= c.cum /\ (c.cum - b.cum) * total <= n * ACC_SCALE
  <2>1. c.cum - b.cum = d /\ d * total = total * d
    BY <1>1, <1>3
  <2>2. QED
    BY <1>1, <1>3, <2>1
<1>5. ASSUME NEW x \in Accounts
      PROVE  Owed(b, h, x) <= Owed(c, h, x) /\ OwedGrown(b, c, h, x)
  <2>1. h[x] \in Nat /\ c.cum \in Nat
    BY <1>3 DEF Buckets
  <2>2. /\ Floor(h[x], b.cum) \in Nat /\ Floor(h[x], c.cum) \in Nat
        /\ Floor(h[x], b.cum) <= Floor(h[x], c.cum)
    BY <1>3, <1>4, <2>1, FloorFacts
  <2>3. b.accrued[x] \in Nat /\ b.debt[x] \in Nat
    BY DEF Buckets
  <2>4. QED
    BY <1>3, <2>2, <2>3 DEF Owed, Pending, OwedGrown
<1>6. QED
  BY <1>3, <1>4, <1>5 DEF AccruedTo, c

PaidOutTo(b, h, a, c) ==
    /\ c \in Buckets /\ c.cum = b.cum /\ c.debt = b.debt
    /\ c.reserve = b.reserve - b.accrued[a] /\ c.accrued = [b.accrued EXCEPT ![a] = 0]
    /\ Owed(c, h, a) = Owed(b, h, a) - b.accrued[a]
    /\ \A x \in Accounts : x # a => Owed(c, h, x) = Owed(b, h, x)

(* Paying out takes from the reserve exactly what was accrued. *)
LEMMA PayOutFacts ==
    ASSUME NEW b \in Buckets, NEW h \in [Accounts -> Nat], NEW a \in Accounts,
           b.accrued[a] <= b.reserve
    PROVE  PaidOutTo(b, h, a, PayOut(b, a))
<1> DEFINE c == PayOut(b, a)
<1>1. b.accrued[a] \in Nat /\ b.reserve \in Nat /\ b.cum \in Nat /\ b.debt[a] \in Nat
  BY DEF Buckets
<1>2. /\ c.cum = b.cum /\ c.debt = b.debt /\ c \in Buckets
      /\ c.reserve = b.reserve - b.accrued[a] /\ c.accrued = [b.accrued EXCEPT ![a] = 0]
  <2> DEFINE r == b.reserve - b.accrued[a]
             e == [b.accrued EXCEPT ![a] = 0]
  <2>1. r \in Nat /\ e \in [Accounts -> Nat] /\ b.debt \in [Accounts -> Nat]
    BY <1>1 DEF Buckets
  <2>2. b = [cum |-> b.cum, reserve |-> b.reserve, debt |-> b.debt, accrued |-> b.accrued]
    BY DEF Buckets
  <2>3. c = [cum |-> b.cum, reserve |-> r, debt |-> b.debt, accrued |-> e]
    <3>1. c = [b EXCEPT !.reserve = r, !.accrued = e]
      BY <2>2 DEF PayOut
    <3> HIDE DEF c, r, e
    <3>2. QED
      BY <2>2, <3>1
  <2> HIDE DEF c, r, e
  <2>4. c.cum = b.cum /\ c.debt = b.debt /\ c \in Buckets /\ c.reserve = r /\ c.accrued = e
    BY <1>1, <2>1, <2>3 DEF Buckets
  <2>5. QED
    BY <2>4 DEF r, e
<1> HIDE DEF c
<1>3. \A x \in Accounts : x # a => c.accrued[x] = b.accrued[x]
  BY <1>2 DEF Buckets
<1>4. c.accrued[a] = 0
  BY <1>2 DEF Buckets
<1>5. Owed(c, h, a) = Owed(b, h, a) - b.accrued[a]
  <2>1. Floor(h[a], b.cum) \in Nat
    BY OwedType
  <2>2. QED
    BY <1>1, <1>2, <1>4, <2>1 DEF Owed, Pending
<1>6. \A x \in Accounts : x # a => Owed(c, h, x) = Owed(b, h, x)
  BY <1>2, <1>3 DEF Owed, Pending
<1>7. QED
  BY <1>2, <1>5, <1>6 DEF PaidOutTo, c

----------------------------------------------------------------------------
(* Arrivals: what is new is what nothing has spoken for.                    *)

(* What has arrived is what exceeds the earmarked amounts.                  *)
LEMMA ReceivedFacts ==
    ASSUME WrapTyped, NEW p \in Nat
    PROVE  /\ Received(p) \in Nat /\ Earmarked \in Nat
           /\ Earmarked <= reward => Earmarked + Received(p) = reward + p
<1>1. /\ coupon.reserve \in Nat /\ post.reserve \in Nat /\ forfeitPaid \in Nat /\ reward \in Nat
  BY DEF WrapTyped, Buckets
<1>2. Earmarked \in Nat
  BY <1>1 DEF Earmarked
<1>3. QED
  BY <1>1, <1>2 DEF Received

(* A rate that stays gives nothing. *)
LEMMA NothingGrown ==
    ASSUME NEW b \in Buckets, NEW h \in [Accounts -> Nat]
    PROVE  \A x \in Accounts : OwedGrown(b, b, h, x)
<1>1. \A x \in Accounts : Owed(b, h, x) \in Int /\ Floor(h[x], b.cum) \in Nat
  BY OwedType
<1>2. QED
  BY <1>1 DEF OwedGrown

HarvestedTo(p, c) ==
    /\ c \in Buckets
    /\ c.reserve = coupon.reserve + IF totalSupply = 0 THEN 0 ELSE Received(p)
    /\ \A x \in Accounts : /\ Owed(coupon, balanceOf, x) <= Owed(c, balanceOf, x)
                           /\ OwedGrown(coupon, c, balanceOf, x)

(* In term, a harvest is shared out to the coupons.                         *)
LEMMA HarvestFacts ==
    ASSUME WrapTyped, NEW p \in Nat
    PROVE  HarvestedTo(p, HarvestAndSync(p))
<1>1. /\ coupon \in Buckets /\ balanceOf \in [Accounts -> Nat] /\ totalSupply \in Nat
      /\ Received(p) \in Nat /\ coupon.reserve \in Nat
  BY ReceivedFacts DEF WrapTyped, Buckets
<1>2. \A x \in Accounts : Owed(coupon, balanceOf, x) \in Int /\ OwedGrown(coupon, coupon, balanceOf, x)
  BY <1>1, NothingGrown, OwedType
<1>3. CASE totalSupply = 0
  BY <1>1, <1>2, <1>3 DEF HarvestAndSync, HarvestedTo
<1>4. CASE totalSupply # 0
  <2>1. totalSupply \in Nat \ {0} /\ HarvestAndSync(p) = Accrue(coupon, Received(p), totalSupply)
    BY <1>1, <1>4 DEF HarvestAndSync
  <2>2. AccruedTo(coupon, balanceOf, Received(p), totalSupply, HarvestAndSync(p))
    BY <1>1, <2>1, AccrueFacts
  <2>3. QED
    BY <1>1, <1>4, <2>2 DEF AccruedTo, HarvestedTo
<1>5. QED
  BY <1>3, <1>4

SyncedTo(s, p) ==
    /\ s.coupon \in Buckets /\ s.coupon.cum = coupon.cum
    /\ s.coupon.debt = coupon.debt /\ s.coupon.accrued = coupon.accrued
    /\ s.coupon.reserve = coupon.reserve + IF totalLocked = 0 THEN Received(p) ELSE 0
    /\ s.post \in Buckets
    /\ s.post.debt = post.debt /\ s.post.accrued = post.accrued
    /\ s.post.reserve = post.reserve + IF totalLocked = 0 THEN 0 ELSE Received(p)
    /\ post.cum <= s.post.cum
    /\ (s.post.cum - post.cum) * totalLocked <= (s.post.reserve - post.reserve) * ACC_SCALE
    /\ \A x \in Accounts : /\ Owed(post, depositedShares, x) <= Owed(s.post, depositedShares, x)
                           /\ OwedGrown(post, s.post, depositedShares, x)

(* After maturity it is shared out to the principal still locked.           *)
LEMMA SyncFacts ==
    ASSUME WrapTyped, NEW p \in Nat
    PROVE  SyncedTo(SyncPost(p), p)
<1>1. /\ coupon \in Buckets /\ post \in Buckets /\ depositedShares \in [Accounts -> Nat]
      /\ totalLocked \in Nat /\ Received(p) \in Nat
      /\ coupon.reserve \in Nat /\ post.reserve \in Nat /\ post.cum \in Nat /\ ACC_SCALE \in Nat
  BY ReceivedFacts, TermSetting DEF WrapTyped, Buckets
<1>2. \A x \in Accounts : Owed(post, depositedShares, x) \in Int /\ OwedGrown(post, post, depositedShares, x)
  BY <1>1, NothingGrown, OwedType
<1>3. CASE totalLocked = 0
  <2>1. SyncPost(p).post = post /\ SyncPost(p).coupon = [coupon EXCEPT !.reserve = @ + Received(p)]
    BY <1>3 DEF SyncPost
  <2>2. coupon = [cum |-> coupon.cum, reserve |-> coupon.reserve, debt |-> coupon.debt, accrued |-> coupon.accrued]
    BY <1>1 DEF Buckets
  <2>3. SyncPost(p).coupon = [cum |-> coupon.cum, reserve |-> coupon.reserve + Received(p),
                              debt |-> coupon.debt, accrued |-> coupon.accrued]
    BY <2>1, <2>2
  <2>4. /\ SyncPost(p).coupon \in Buckets /\ SyncPost(p).coupon.cum = coupon.cum
        /\ SyncPost(p).coupon.debt = coupon.debt /\ SyncPost(p).coupon.accrued = coupon.accrued
        /\ SyncPost(p).coupon.reserve = coupon.reserve + Received(p)
    BY <1>1, <2>3 DEF Buckets
  <2>5. (post.cum - post.cum) * totalLocked = 0 /\ (post.reserve - post.reserve) * ACC_SCALE = 0
    BY <1>1
  <2>6. QED
    BY <1>1, <1>2, <1>3, <2>1, <2>4, <2>5 DEF SyncedTo
<1>4. CASE totalLocked # 0
  <2>1. /\ SyncPost(p).post = Accrue(post, Received(p), totalLocked) /\ SyncPost(p).coupon = coupon
        /\ totalLocked \in Nat \ {0}
    BY <1>1, <1>4 DEF SyncPost
  <2>2. AccruedTo(post, depositedShares, Received(p), totalLocked, SyncPost(p).post)
    BY <1>1, <2>1, AccrueFacts
  <2>3. SyncPost(p).post.reserve - post.reserve = Received(p)
    BY <1>1, <2>2 DEF AccruedTo
  <2>4. QED
    BY <1>1, <1>4, <2>1, <2>2, <2>3 DEF AccruedTo, SyncedTo
<1>5. QED
  BY <1>3, <1>4

Moved(h, from, to, n) == [[h EXCEPT ![from] = @ - n] EXCEPT ![to] = @ + n]
Handed(b, h, moved, from, to) ==
    Rebase(Rebase(Checkpoint(Checkpoint(b, h, from), h, to), moved, from), moved, to)
HandedOverTo(b, h, moved, c) ==
    /\ moved \in [Accounts -> Nat] /\ c \in Buckets /\ c.reserve = b.reserve /\ c.cum = b.cum
    /\ \A x \in Accounts : Owed(c, moved, x) = Owed(b, h, x)

(* A stake changes hands: both sides are settled first, so neither loses.   *)
LEMMA TransferFacts ==
    ASSUME NEW b \in Buckets, NEW h \in [Accounts -> Nat], NEW from \in Accounts, NEW to \in Accounts,
           NEW n \in Nat, n <= h[from], Settles(b, h, from), Settles(b, h, to)
    PROVE  HandedOverTo(b, h, Moved(h, from, to, n), Handed(b, h, Moved(h, from, to, n), from, to))
<1> DEFINE mid == [h EXCEPT ![from] = @ - n]
           moved == [mid EXCEPT ![to] = @ + n]
           sold == Checkpoint(b, h, from)
           bought == Checkpoint(sold, h, to)
           first == Rebase(bought, moved, from)
           after == Rebase(first, moved, to)
<1>1. /\ mid \in [Accounts -> Nat] /\ mid[from] = h[from] - n
      /\ \A x \in Accounts : x # from => mid[x] = h[x]
  <2>1. h[from] - n \in Nat
    OBVIOUS
  <2>2. QED
    BY <2>1
<1> HIDE DEF mid
<1>2. /\ moved \in [Accounts -> Nat] /\ moved[to] = mid[to] + n
      /\ \A x \in Accounts : x # to => moved[x] = mid[x]
  <2>1. mid[to] + n \in Nat
    BY <1>1
  <2>2. QED
    BY <1>1, <2>1
<1> HIDE DEF moved
<1>3. /\ sold \in Buckets /\ sold.cum = b.cum /\ sold.reserve = b.reserve
      /\ sold.debt = [b.debt EXCEPT ![from] = Floor(h[from], b.cum)]
      /\ \A x \in Accounts : Owed(sold, h, x) = Owed(b, h, x)
  <2>1. CheckpointedTo(b, h, from, sold)
    BY CheckpointFacts
  <2>2. QED
    BY <2>1 DEF CheckpointedTo
<1> HIDE DEF sold
<1>4. Settles(sold, h, to)
  <2>1. b.debt \in [Accounts -> Nat] /\ Floor(h[from], b.cum) \in Nat
    BY OwedType DEF Buckets
  <2>2. sold.debt[to] = IF to = from THEN Floor(h[from], b.cum) ELSE b.debt[to]
    BY <1>3, <2>1
  <2>3. QED
    BY <1>3, <2>1, <2>2 DEF Settles
<1>5. /\ bought \in Buckets /\ bought.cum = b.cum /\ bought.reserve = b.reserve
      /\ bought.debt = [sold.debt EXCEPT ![to] = Floor(h[to], b.cum)]
      /\ \A x \in Accounts : Owed(bought, h, x) = Owed(b, h, x)
  <2>1. CheckpointedTo(sold, h, to, bought)
    BY <1>3, <1>4, CheckpointFacts
  <2>2. QED
    BY <1>3, <2>1 DEF CheckpointedTo
<1> HIDE DEF bought
<1>6. bought.debt[from] = Floor(h[from], b.cum) /\ bought.debt[to] = Floor(h[to], b.cum)
  <2>1. b.debt \in [Accounts -> Nat] /\ sold.debt \in [Accounts -> Nat]
    BY <1>3 DEF Buckets
  <2>2. QED
    BY <1>3, <1>5, <2>1
<1>7. CASE from = to
  <2>1. moved[from] = h[from] /\ moved = h
    <3>1. \A x \in Accounts : moved[x] = h[x]
      BY <1>1, <1>2, <1>7
    <3>2. QED
      BY <1>2, <1>7, <3>1
  <2>2. /\ first \in Buckets /\ first.cum = b.cum /\ first.reserve = b.reserve
        /\ first.debt = [bought.debt EXCEPT ![from] = Floor(moved[from], b.cum)]
        /\ \A x \in Accounts : Owed(first, moved, x) = Owed(b, h, x)
    <3>1. RebasedTo(bought, h, moved, from, first)
      BY <1>2, <1>5, <1>6, RebaseFacts
    <3>2. QED
      BY <1>5, <2>1, <3>1 DEF RebasedTo
  <2> HIDE DEF first
  <2>3. first.debt[to] = Floor(moved[to], first.cum)
    BY <1>5, <1>7, <2>2 DEF Buckets
  <2>4. /\ after \in Buckets /\ after.reserve = b.reserve /\ after.cum = b.cum
        /\ \A x \in Accounts : Owed(after, moved, x) = Owed(b, h, x)
    <3>1. RebasedTo(first, moved, moved, to, after)
      BY <1>2, <2>2, <2>3, RebaseFacts
    <3>2. QED
      BY <2>2, <3>1 DEF RebasedTo
  <2>5. QED
    BY <1>2, <2>4 DEF HandedOverTo, Handed, Moved, after, first, bought, sold, moved, mid
<1>8. CASE from # to
  <2>1. first = Rebase(bought, mid, from)
    BY <1>2, <1>8 DEF Rebase
  <2>2. /\ first \in Buckets /\ first.cum = b.cum /\ first.reserve = b.reserve
        /\ first.debt = [bought.debt EXCEPT ![from] = Floor(mid[from], b.cum)]
        /\ \A x \in Accounts : Owed(first, mid, x) = Owed(b, h, x)
    <3>1. RebasedTo(bought, h, mid, from, first)
      BY <1>1, <1>5, <1>6, <2>1, RebaseFacts
    <3>2. QED
      BY <1>1, <1>5, <3>1 DEF RebasedTo
  <2> HIDE DEF first
  <2>3. first.debt[to] = Floor(mid[to], first.cum)
    <3>1. bought.debt \in [Accounts -> Nat] /\ mid[to] = h[to]
      BY <1>1, <1>5, <1>8 DEF Buckets
    <3>2. first.debt[to] = bought.debt[to]
      BY <1>8, <2>2, <3>1
    <3>3. QED
      BY <1>6, <2>2, <3>1, <3>2
  <2>4. /\ after \in Buckets /\ after.reserve = b.reserve /\ after.cum = b.cum
        /\ \A x \in Accounts : Owed(after, moved, x) = Owed(b, h, x)
    <3>1. RebasedTo(first, mid, moved, to, after)
      BY <1>1, <1>2, <2>2, <2>3, RebaseFacts
    <3>2. QED
      BY <1>2, <2>2, <3>1 DEF RebasedTo
  <2>5. QED
    BY <1>2, <2>4 DEF HandedOverTo, Handed, Moved, after, first, bought, sold, moved, mid
<1>9. QED
  BY <1>7, <1>8

----------------------------------------------------------------------------
(* What each transaction of the wrapper does to the coupons.                *)

CouponKept ==
    /\ coupon' \in Buckets /\ (now > MATURITY => coupon'.cum = coupon.cum)
    /\ \A a \in Accounts :
          /\ CouponEarned(a)' >= CouponEarned(a)
          /\ CouponEarned(a)' - CouponEarned(a) = Floor(balanceOf[a], coupon'.cum) - Floor(balanceOf[a], coupon.cum)

PostKept ==
    /\ post' \in Buckets /\ (now <= MATURITY => post'.cum = post.cum)
    /\ \A a \in Accounts :
          /\ PostEarned(a)' >= PostEarned(a)
          /\ PostEarned(a)' - PostEarned(a) =
                Floor(depositedShares[a], post'.cum) - Floor(depositedShares[a], post.cum)

(* What was earned in each epoch is a number.                               *)
LEMMA EarnedType ==
    ASSUME WrapTyped, NEW a \in Accounts
    PROVE  /\ Owed(coupon, balanceOf, a) \in Int /\ paid.coupon[a] \in Nat
           /\ Owed(post, depositedShares, a) \in Int /\ paid.post[a] \in Nat
<1>1. paid.coupon \in [Accounts -> Nat] /\ paid.post \in [Accounts -> Nat]
  BY DEF WrapTyped
<1>2. QED
  BY <1>1, OwedType DEF WrapTyped

(* A deposit settles the depositor first.                                   *)
LEMMA DepositCoupon ==
    ASSUME WrapTyped, NEW a \in Accounts, NEW n \in Nat, NEW p \in Nat, Deposit(a, n, p)
    PROVE  CouponKept
<1> DEFINE before == HarvestAndSync(p)
           cp == Checkpoint(before, balanceOf, a)
<1>1. HarvestedTo(p, before)
  BY HarvestFacts
<1>2. /\ Settles(before, balanceOf, a) /\ now < DEPOSIT_UNTIL /\ paid' = paid
      /\ balanceOf' = [balanceOf EXCEPT ![a] = @ + n] /\ coupon' = Rebase(cp, balanceOf', a)
  BY DEF Deposit
<1> HIDE DEF before
<1>3. balanceOf \in [Accounts -> Nat] /\ balanceOf' \in [Accounts -> Nat] /\ before \in Buckets
  BY <1>1, <1>2 DEF WrapTyped, HarvestedTo
<1>4. CheckpointedTo(before, balanceOf, a, cp)
  BY <1>2, <1>3, CheckpointFacts
<1> HIDE DEF cp
<1>5. cp \in Buckets /\ cp.debt[a] = Floor(balanceOf[a], cp.cum)
  BY <1>3, <1>4 DEF CheckpointedTo, Buckets
<1>6. RebasedTo(cp, balanceOf, balanceOf', a, coupon')
  BY <1>2, <1>3, <1>5, RebaseFacts
<1>7. \A x \in Accounts : x # a => balanceOf'[x] = balanceOf[x]
  BY <1>2, <1>3
<1>8. \A x \in Accounts : Owed(coupon', balanceOf', x) = Owed(before, balanceOf, x)
  BY <1>4, <1>6, <1>7 DEF CheckpointedTo, RebasedTo
<1>9. coupon' \in Buckets /\ ~ (now > MATURITY)
  BY <1>2, <1>6, TermSetting DEF RebasedTo, WrapTyped
<1>10. ASSUME NEW x \in Accounts
       PROVE  /\ CouponEarned(x)' >= CouponEarned(x)
              /\ CouponEarned(x)' - CouponEarned(x) =
                    Floor(balanceOf[x], before.cum) - Floor(balanceOf[x], coupon.cum)
  <2>1. CouponEarned(x)' = Owed(before, balanceOf, x) + paid.coupon[x]
    BY <1>2, <1>8 DEF CouponEarned
  <2>2. Owed(before, balanceOf, x) \in Int /\ Floor(balanceOf[x], before.cum) \in Nat
        /\ Floor(balanceOf[x], coupon.cum) \in Nat
    BY <1>3, OwedType DEF WrapTyped
  <2>3. QED
    BY <1>1, <2>1, <2>2, EarnedType DEF HarvestedTo, CouponEarned, OwedGrown
<1>11. coupon'.cum = before.cum
  BY <1>4, <1>6 DEF CheckpointedTo, RebasedTo
<1>12. QED
  BY <1>9, <1>10, <1>11 DEF CouponKept

(* A harvest lowers nobody's coupons.                                       *)
LEMMA HarvestCoupon ==
    ASSUME WrapTyped, NEW p \in Nat, Harvest(p)
    PROVE  CouponKept
<1>1. HarvestedTo(p, coupon')
  BY HarvestFacts DEF Harvest
<1>2. ~ (now > MATURITY) /\ balanceOf' = balanceOf /\ paid' = paid
  BY TermSetting DEF Harvest, units, WrapTyped
<1>3. coupon' \in Buckets /\ balanceOf \in [Accounts -> Nat]
  BY <1>1 DEF HarvestedTo, WrapTyped
<1>4. \A x \in Accounts : /\ Owed(coupon', balanceOf, x) \in Int /\ Floor(balanceOf[x], coupon'.cum) \in Nat
                          /\ Floor(balanceOf[x], coupon.cum) \in Nat
  BY <1>3, OwedType DEF WrapTyped
<1>5. \A x \in Accounts : CouponEarned(x)' = Owed(coupon', balanceOf, x) + paid.coupon[x]
  BY <1>2 DEF CouponEarned
<1>6. QED
  BY <1>1, <1>2, <1>4, <1>5, EarnedType DEF CouponKept, CouponEarned, HarvestedTo, OwedGrown

(* A sale settles both sides first.                                         *)
LEMMA TransferCoupon ==
    ASSUME WrapTyped, NEW from \in Accounts, NEW to \in Accounts, NEW n \in Nat, NEW p \in Nat,
           Transfer(from, to, n, p)
    PROVE  CouponKept /\ balanceOf' = Moved(balanceOf, from, to, n) /\ balanceOf' \in [Accounts -> Nat]
<1> DEFINE before == AccrualOnTransfer(p)
<1>1. /\ before \in Buckets /\ (now > MATURITY => before.cum = coupon.cum)
      /\ \A x \in Accounts : /\ Owed(coupon, balanceOf, x) <= Owed(before, balanceOf, x)
                             /\ OwedGrown(coupon, before, balanceOf, x)
  <2>1. CASE now <= MATURITY
    <3>1. HarvestedTo(p, before)
      BY <2>1, HarvestFacts DEF AccrualOnTransfer
    <3>2. ~ (now > MATURITY)
      BY <2>1, TermSetting DEF WrapTyped
    <3>3. QED
      BY <3>1, <3>2 DEF HarvestedTo
  <2>2. CASE ~ (now <= MATURITY)
    <3>1. before = coupon
      BY <2>2 DEF AccrualOnTransfer
    <3>2. QED
      BY <3>1, EarnedType, NothingGrown DEF WrapTyped
  <2>3. QED
    BY <2>1, <2>2
<1>2. /\ n <= balanceOf[from] /\ Settles(before, balanceOf, from) /\ Settles(before, balanceOf, to)
      /\ balanceOf' = Moved(balanceOf, from, to, n) /\ paid' = paid
      /\ coupon' = Handed(before, balanceOf, Moved(balanceOf, from, to, n), from, to)
  BY DEF Transfer, Moved, Handed
<1> HIDE DEF before
<1>3. balanceOf \in [Accounts -> Nat]
  BY DEF WrapTyped
<1>4. HandedOverTo(before, balanceOf, balanceOf', coupon')
  BY <1>1, <1>2, <1>3, TransferFacts
<1>5. \A x \in Accounts : /\ Owed(before, balanceOf, x) \in Int /\ Floor(balanceOf[x], before.cum) \in Nat
                          /\ Floor(balanceOf[x], coupon.cum) \in Nat
  BY <1>1, <1>3, OwedType DEF WrapTyped
<1>6. \A x \in Accounts : CouponEarned(x)' = Owed(before, balanceOf, x) + paid.coupon[x]
  BY <1>2, <1>4 DEF CouponEarned, HandedOverTo
<1>7. coupon' \in Buckets /\ balanceOf' \in [Accounts -> Nat] /\ coupon'.cum = before.cum
  BY <1>4 DEF HandedOverTo
<1>8. QED
  BY <1>1, <1>2, <1>5, <1>6, <1>7, EarnedType DEF CouponKept, CouponEarned, OwedGrown

(* A claim moves from what is owed to what was paid. *)
LEMMA ClaimCoupon ==
    ASSUME WrapTyped, NEW a \in Accounts, Claim(a)
    PROVE  /\ CouponKept
           /\ \E amount \in Nat : /\ amount <= coupon.reserve /\ coupon'.reserve = coupon.reserve - amount
                                  /\ amount <= reward /\ reward' = reward - amount
                                  /\ paid' = [paid EXCEPT !.coupon[a] = @ + amount]
<1> DEFINE cp == Checkpoint(coupon, balanceOf, a)
           amount == cp.accrued[a]
<1>1. /\ Settles(coupon, balanceOf, a) /\ coupon' = PayOut(cp, a) /\ balanceOf' = balanceOf
      /\ amount <= coupon.reserve /\ amount <= reward /\ reward' = reward - amount
      /\ paid' = [paid EXCEPT !.coupon[a] = @ + amount]
  BY DEF Claim, units
<1>2. coupon \in Buckets /\ balanceOf \in [Accounts -> Nat]
  BY DEF WrapTyped
<1>3. CheckpointedTo(coupon, balanceOf, a, cp)
  BY <1>1, <1>2, CheckpointFacts
<1>4. cp \in Buckets /\ amount \in Nat /\ amount <= cp.reserve /\ amount = cp.accrued[a]
  BY <1>1, <1>3 DEF CheckpointedTo, Buckets
<1> HIDE DEF cp, amount
<1>5. PaidOutTo(cp, balanceOf, a, coupon')
  BY <1>1, <1>2, <1>4, PayOutFacts
<1>6. /\ Owed(coupon', balanceOf, a) = Owed(coupon, balanceOf, a) - amount
      /\ \A x \in Accounts : x # a => Owed(coupon', balanceOf, x) = Owed(coupon, balanceOf, x)
      /\ coupon' \in Buckets /\ coupon'.reserve = coupon.reserve - amount
  BY <1>3, <1>4, <1>5 DEF CheckpointedTo, PaidOutTo
<1>7. /\ paid'.coupon[a] = paid.coupon[a] + amount
      /\ \A x \in Accounts : x # a => paid'.coupon[x] = paid.coupon[x]
  BY <1>1 DEF WrapTyped
<1>8. ASSUME NEW x \in Accounts
      PROVE  /\ CouponEarned(x)' = CouponEarned(x) /\ CouponEarned(x) \in Int
             /\ Floor(balanceOf[x], coupon.cum) \in Nat
  <2>1. CouponEarned(x)' = Owed(coupon', balanceOf, x) + paid'.coupon[x]
    BY <1>1 DEF CouponEarned
  <2>2. QED
    BY <1>2, <1>4, <1>6, <1>7, <2>1, EarnedType, OwedType DEF CouponEarned
<1>9. CouponKept
  <2>1. coupon'.cum = coupon.cum
    BY <1>3, <1>5 DEF CheckpointedTo, PaidOutTo
  <2>2. QED
    BY <1>6, <1>8, <2>1 DEF CouponKept
<1>10. QED
  BY <1>1, <1>4, <1>6, <1>9

(* After maturity the coupons only hold more in reserve. *)
LEMMA SyncedCoupon ==
    ASSUME WrapTyped, NEW p \in Nat, coupon' = SyncPost(p).coupon, balanceOf' = balanceOf,
           paid'.coupon = paid.coupon
    PROVE  CouponKept
<1>1. SyncedTo(SyncPost(p), p)
  BY SyncFacts
<1>2. coupon' \in Buckets /\ coupon'.cum = coupon.cum /\ coupon'.debt = coupon.debt /\ coupon'.accrued = coupon.accrued
  BY <1>1 DEF SyncedTo
<1>3. \A x \in Accounts : CouponEarned(x)' = CouponEarned(x)
  BY <1>2 DEF CouponEarned, Owed, Pending
<1>4. \A x \in Accounts : CouponEarned(x) \in Int /\ Floor(balanceOf[x], coupon.cum) \in Nat
  BY EarnedType, OwedType DEF CouponEarned, WrapTyped
<1>5. QED
  BY <1>2, <1>3, <1>4 DEF CouponKept

(* What does not touch the coupons keeps them.                              *)
LEMMA CouponStill ==
    ASSUME WrapTyped, coupon' = coupon, balanceOf' = balanceOf, paid'.coupon = paid.coupon
    PROVE  CouponKept
<1>1. \A x \in Accounts : CouponEarned(x)' = CouponEarned(x)
  BY DEF CouponEarned, Owed, Pending
<1>2. \A x \in Accounts : CouponEarned(x) \in Int /\ Floor(balanceOf[x], coupon.cum) \in Nat
  BY EarnedType, OwedType DEF CouponEarned, WrapTyped
<1>3. QED
  BY <1>1, <1>2 DEF CouponKept, WrapTyped

----------------------------------------------------------------------------
(* The post-maturity bucket, as it goes through a transaction.              *)

ExitedAt(b, h, q) == [a \in Accounts |-> IF h[a] = 0 THEN b.accrued[a] + q[a] ELSE 0]
BackedAt(b, h, q, locked) ==
    /\ \A a \in Accounts : b.debt[a] = IF h[a] = 0 THEN 0 ELSE b.accrued[a] + q[a]
    /\ b.cum * locked + ACC_SCALE * Total(ExitedAt(b, h, q)) <= ACC_SCALE * (b.reserve + Total(q))

(* The second bucket's books, of the state and of its parts.                *)
LEMMA PostBackedAt == PostBacked <=> BackedAt(post, depositedShares, paid.post, totalLocked)
  BY DEF PostBacked, BackedAt, Exited, ExitedAt

(* What the departed have earned is a natural number.                       *)
LEMMA ExitedType ==
    ASSUME NEW b \in Buckets, NEW h \in [Accounts -> Nat], NEW q \in [Accounts -> Nat]
    PROVE  /\ ExitedAt(b, h, q) \in [Accounts -> Nat] /\ Total(ExitedAt(b, h, q)) \in Nat
           /\ Total(q) \in Nat
<1>1. \A a \in Accounts : b.accrued[a] \in Nat /\ q[a] \in Nat
  BY DEF Buckets
<1>2. ExitedAt(b, h, q) \in [Accounts -> Nat]
  BY <1>1 DEF ExitedAt
<1>3. QED
  BY <1>2, TotalNatural, TermSetting

(* Sharing out raises the reserve by what it raises the claims, floors aside. *)
LEMMA SyncBacked ==
    ASSUME WrapTyped, PostBacked, NEW p \in Nat
    PROVE  BackedAt(SyncPost(p).post, depositedShares, paid.post, totalLocked)
<1> DEFINE s == SyncPost(p)
           q == paid.post
           e == ExitedAt(post, depositedShares, q)
<1>1. SyncedTo(s, p)
  BY SyncFacts
<1>2. /\ post \in Buckets /\ depositedShares \in [Accounts -> Nat] /\ q \in [Accounts -> Nat]
      /\ totalLocked \in Nat /\ post.cum \in Nat /\ post.reserve \in Nat /\ ACC_SCALE \in Nat
  BY TermSetting DEF WrapTyped, Buckets
<1>3. Total(e) \in Nat /\ Total(q) \in Nat
  BY <1>2, ExitedType
<1> HIDE DEF s, q
<1>4. ExitedAt(s.post, depositedShares, q) = e
  BY <1>1 DEF ExitedAt, SyncedTo
<1>5. BackedAt(post, depositedShares, q, totalLocked)
  BY PostBackedAt DEF q
<1>6. s.post.cum \in Nat /\ s.post.reserve \in Nat
  BY <1>1 DEF SyncedTo, Buckets
<1>7. \A a \in Accounts : s.post.debt[a] = IF depositedShares[a] = 0 THEN 0 ELSE s.post.accrued[a] + q[a]
  BY <1>1, <1>5 DEF BackedAt, SyncedTo
<1>8. s.post.cum * totalLocked + ACC_SCALE * Total(e) <= ACC_SCALE * (s.post.reserve + Total(q))
  <2> DEFINE t == Total(e)
             u == Total(q)
             c == s.post.cum
             r == s.post.reserve
             d == post.cum
             w == post.reserve
  <2>1. d * totalLocked + ACC_SCALE * t <= ACC_SCALE * (w + u)
    BY <1>5 DEF BackedAt
  <2>2. (c - d) * totalLocked <= (r - w) * ACC_SCALE
    BY <1>1 DEF SyncedTo
  <2>3. t \in Nat /\ u \in Nat /\ c \in Nat /\ r \in Nat /\ d \in Nat /\ w \in Nat
    BY <1>2, <1>3, <1>6
  <2> HIDE DEF t, u, c, r, d, w, e
  <2>4. /\ (c - d) * totalLocked = c * totalLocked - d * totalLocked
        /\ (r - w) * ACC_SCALE = ACC_SCALE * r - ACC_SCALE * w
        /\ ACC_SCALE * (w + u) = ACC_SCALE * w + ACC_SCALE * u
        /\ ACC_SCALE * (r + u) = ACC_SCALE * r + ACC_SCALE * u
    BY <1>2, <2>3
  <2>5. c * totalLocked + ACC_SCALE * t <= ACC_SCALE * (r + u)
    <3>1. /\ c * totalLocked \in Int /\ d * totalLocked \in Int /\ ACC_SCALE * r \in Int /\ ACC_SCALE * w \in Int
          /\ ACC_SCALE * u \in Int /\ ACC_SCALE * t \in Int
      BY <1>2, <2>3
    <3>2. QED
      BY <2>1, <2>2, <2>4, <3>1
  <2>6. QED
    BY <2>5 DEF t, u, c, r
<1>9. QED
  BY <1>4, <1>7, <1>8 DEF BackedAt, s, q

ExitedTo(b, h, a, c) ==
    /\ c \in Buckets /\ c.cum = b.cum /\ c.reserve = b.reserve
    /\ c.debt = [b.debt EXCEPT ![a] = 0] /\ c.accrued = [b.accrued EXCEPT ![a] = Owed(b, h, a)]
    /\ \A x \in Accounts : Owed(c, [h EXCEPT ![a] = 0], x) = Owed(b, h, x)

(* Leaving settles first: what was pending stays owed. *)
LEMMA ExitFacts ==
    ASSUME NEW b \in Buckets, depositedShares \in [Accounts -> Nat], NEW a \in Accounts,
           Settles(b, depositedShares, a)
    PROVE  ExitedTo(b, depositedShares, a, ExitSettled(b, a))
<1> DEFINE h == depositedShares
           cp == Checkpoint(b, h, a)
           c == ExitSettled(b, a)
           g == [h EXCEPT ![a] = 0]
<1>1. CheckpointedTo(b, h, a, cp)
  BY CheckpointFacts
<1>2. c = [cp EXCEPT !.debt[a] = 0]
  BY DEF ExitSettled
<1> HIDE DEF cp, c
<1>3. /\ cp \in Buckets /\ cp.cum = b.cum /\ cp.reserve = b.reserve
      /\ cp.debt = [b.debt EXCEPT ![a] = Floor(h[a], b.cum)]
      /\ cp.accrued = [b.accrued EXCEPT ![a] = Owed(b, h, a)]
      /\ \A x \in Accounts : Owed(cp, h, x) = Owed(b, h, x)
  BY <1>1 DEF CheckpointedTo
<1>4. /\ c.cum = cp.cum /\ c.reserve = cp.reserve /\ c.accrued = cp.accrued
      /\ c.debt = [cp.debt EXCEPT ![a] = 0] /\ c \in Buckets
  <2>1. cp = [cum |-> cp.cum, reserve |-> cp.reserve, debt |-> cp.debt, accrued |-> cp.accrued]
    BY <1>3 DEF Buckets
  <2>2. c = [cum |-> cp.cum, reserve |-> cp.reserve, debt |-> [cp.debt EXCEPT ![a] = 0], accrued |-> cp.accrued]
    BY <1>2, <2>1
  <2>3. /\ [cp.debt EXCEPT ![a] = 0] \in [Accounts -> Nat] /\ cp.accrued \in [Accounts -> Nat]
        /\ cp.cum \in Nat /\ cp.reserve \in Nat
    BY <1>3 DEF Buckets
  <2>4. QED
    BY <2>2, <2>3 DEF Buckets
<1>5. b.debt \in [Accounts -> Nat] /\ b.accrued \in [Accounts -> Nat] /\ b.cum \in Nat
  BY DEF Buckets
<1>6. c.debt = [b.debt EXCEPT ![a] = 0]
  BY <1>3, <1>4, <1>5
<1>7. ASSUME NEW x \in Accounts PROVE Owed(c, g, x) = Owed(b, h, x)
  <2>1. CASE x = a
    <3>1. c.accrued[a] = Owed(b, h, a) /\ c.debt[a] = 0 /\ g[a] = 0
      BY <1>3, <1>4, <1>5, <1>6
    <3>2. Floor(0, c.cum) = 0
      BY <1>3, <1>4, <1>5, FloorFacts
    <3>3. Owed(b, h, a) \in Int
      BY OwedType
    <3>4. Owed(c, g, a) = c.accrued[a] + (Floor(g[a], c.cum) - c.debt[a])
      BY DEF Owed, Pending
    <3>5. QED
      BY <2>1, <3>1, <3>2, <3>3, <3>4
  <2>2. CASE x # a
    <3>1. g[x] = h[x] /\ c.debt[x] = b.debt[x] /\ c.accrued[x] = b.accrued[x] /\ c.cum = b.cum
      BY <1>3, <1>4, <1>5, <1>6, <2>2
    <3>2. QED
      BY <3>1 DEF Owed, Pending
  <2>3. QED
    BY <2>1, <2>2
<1>8. QED
  BY <1>3, <1>4, <1>6, <1>7 DEF ExitedTo, c

(* Leaving turns a stake's floored earnings into a fixed claim.             *)
LEMMA ExitBacked ==
    ASSUME NEW b \in Buckets, depositedShares \in [Accounts -> Nat], NEW q \in [Accounts -> Nat],
           NEW locked \in Nat, NEW a \in Accounts, depositedShares[a] # 0,
           depositedShares[a] <= locked, Settles(b, depositedShares, a),
           BackedAt(b, depositedShares, q, locked)
    PROVE  BackedAt(ExitSettled(b, a), [depositedShares EXCEPT ![a] = 0], q, locked - depositedShares[a])
<1> DEFINE h == depositedShares
           g == [h EXCEPT ![a] = 0]
           c == ExitSettled(b, a)
           n == h[a]
           f == Floor(n, b.cum)
           e == ExitedAt(b, h, q)
<1>1. ExitedTo(b, h, a, c)
  BY ExitFacts
<1>2. /\ n \in Nat /\ b.cum \in Nat /\ ACC_SCALE \in Nat /\ b.reserve \in Nat
      /\ e \in [Accounts -> Nat] /\ Total(e) \in Nat /\ Total(q) \in Nat
  BY ExitedType, TermSetting DEF Buckets
<1>3. f \in Nat /\ ACC_SCALE * f <= n * b.cum
  BY <1>2, FloorFacts
<1>4. /\ b.debt \in [Accounts -> Nat] /\ b.accrued \in [Accounts -> Nat]
      /\ b.debt[a] = b.accrued[a] + q[a] /\ Owed(b, h, a) = b.accrued[a] + (f - b.debt[a])
  BY OwedType DEF BackedAt, Buckets
<1> HIDE DEF c, f
<1>5. c.accrued[a] + q[a] = f /\ c.debt[a] = 0
  BY <1>1, <1>3, <1>4 DEF ExitedTo
<1>6. \A x \in Accounts : x # a => c.accrued[x] = b.accrued[x] /\ c.debt[x] = b.debt[x] /\ g[x] = h[x]
  BY <1>1, <1>4 DEF ExitedTo
<1>7. g[a] = 0 /\ e[a] = 0
  BY DEF ExitedAt
<1>8. \A x \in Accounts : c.debt[x] = IF g[x] = 0 THEN 0 ELSE c.accrued[x] + q[x]
  BY <1>5, <1>6, <1>7 DEF BackedAt
<1>9. ExitedAt(c, g, q) = [e EXCEPT ![a] = f]
  <2>1. \A x \in Accounts : ExitedAt(c, g, q)[x] = [e EXCEPT ![a] = f][x]
    <3>1. ASSUME NEW x \in Accounts PROVE ExitedAt(c, g, q)[x] = [e EXCEPT ![a] = f][x]
      <4>1. CASE x = a
        BY <1>2, <1>5, <1>7, <4>1 DEF ExitedAt
      <4>2. CASE x # a
        BY <1>2, <1>6, <4>2 DEF ExitedAt
      <4>3. QED
        BY <4>1, <4>2
    <3>2. QED
      BY <3>1
  <2>2. ExitedAt(c, g, q) = [x \in Accounts |-> ExitedAt(c, g, q)[x]]
    BY DEF ExitedAt
  <2>3. [e EXCEPT ![a] = f] = [x \in Accounts |-> [e EXCEPT ![a] = f][x]]
    BY <1>2
  <2>4. QED
    BY <2>1, <2>2, <2>3
<1>10. Total(ExitedAt(c, g, q)) = Total(e) + f
  <2>1. e \in [Accounts -> Int] /\ f \in Int /\ IsFiniteSet(Accounts)
    BY <1>2, <1>3, TermSetting
  <2>2. Total([e EXCEPT ![a] = f]) = Total(e) - e[a] + f
    BY <2>1, TotalExcept
  <2>3. QED
    BY <1>2, <1>3, <1>7, <1>9, <2>2
<1>11. c.cum * (locked - n) + ACC_SCALE * Total(ExitedAt(c, g, q)) <= ACC_SCALE * (c.reserve + Total(q))
  <2> DEFINE t == Total(e)
             u == Total(q)
             m == b.cum
             r == b.reserve
  <2>1. m * locked + ACC_SCALE * t <= ACC_SCALE * (r + u)
    BY DEF BackedAt
  <2>2. t \in Nat /\ u \in Nat /\ m \in Nat /\ r \in Nat /\ ACC_SCALE * f <= n * m
    BY <1>2, <1>3
  <2> HIDE DEF t, u, m, r, n
  <2>3. /\ m * (locked - n) = m * locked - n * m /\ ACC_SCALE * (t + f) = ACC_SCALE * t + ACC_SCALE * f
        /\ m * locked \in Int /\ n * m \in Int /\ ACC_SCALE * t \in Int /\ ACC_SCALE * f \in Int
        /\ ACC_SCALE * (r + u) \in Int
    BY <1>2, <1>3, <2>2 DEF n
  <2>4. m * (locked - n) + ACC_SCALE * (t + f) <= ACC_SCALE * (r + u)
    BY <2>1, <2>2, <2>3
  <2>5. c.cum = m /\ c.reserve = r
    BY <1>1 DEF ExitedTo, m, r
  <2>6. QED
    BY <1>10, <2>4, <2>5 DEF t, u
<1>12. QED
  BY <1>8, <1>11 DEF BackedAt, c

ClaimedTo(b, h, q, locked, a, n, cp) ==
    /\ BackedAt(PayOut(cp, a), h, [q EXCEPT ![a] = @ + n], locked)
    /\ n \in Nat /\ n = Owed(b, h, a)
    /\ PaidOutTo(cp, h, a, PayOut(cp, a)) /\ CheckpointedTo(b, h, a, cp)

(* A claim moves what is owed into what was paid.                           *)
LEMMA ClaimBacked ==
    ASSUME NEW b \in Buckets, NEW h \in [Accounts -> Nat], NEW q \in [Accounts -> Nat],
           NEW locked \in Nat, NEW a \in Accounts, Settles(b, h, a), BackedAt(b, h, q, locked),
           NEW n, n = Checkpoint(b, h, a).accrued[a], n <= b.reserve
    PROVE  ClaimedTo(b, h, q, locked, a, n, Checkpoint(b, h, a))
<1> DEFINE cp == Checkpoint(b, h, a)
           c == PayOut(cp, a)
           z == [q EXCEPT ![a] = @ + n]
           f == Floor(h[a], b.cum)
           e == ExitedAt(b, h, q)
<1>1. CheckpointedTo(b, h, a, cp)
  BY CheckpointFacts
<1> HIDE DEF cp
<1>2. /\ b.debt \in [Accounts -> Nat] /\ b.accrued \in [Accounts -> Nat] /\ f \in Nat
      /\ Owed(b, h, a) = b.accrued[a] + (f - b.debt[a]) /\ Owed(b, h, a) \in Nat
  BY OwedType DEF Buckets
<1>3. /\ cp \in Buckets /\ cp.cum = b.cum /\ cp.reserve = b.reserve
      /\ cp.debt = [b.debt EXCEPT ![a] = f] /\ cp.accrued = [b.accrued EXCEPT ![a] = Owed(b, h, a)]
  BY <1>1 DEF CheckpointedTo
<1>4. n = Owed(b, h, a) /\ cp.accrued[a] = n /\ n \in Nat
  BY <1>2, <1>3 DEF cp
<1>5. PaidOutTo(cp, h, a, c)
  BY <1>3, <1>4, PayOutFacts
<1> HIDE DEF c, f
<1>6. /\ c.cum = b.cum /\ c.reserve = b.reserve - n /\ c.debt[a] = f /\ c.accrued[a] = 0
      /\ \A x \in Accounts : x # a => c.debt[x] = b.debt[x] /\ c.accrued[x] = b.accrued[x]
  <2>1. cp.accrued \in [Accounts -> Nat] /\ cp.debt \in [Accounts -> Nat]
    BY <1>3 DEF Buckets
  <2>2. c.accrued = [cp.accrued EXCEPT ![a] = 0] /\ c.debt = cp.debt /\ c.cum = cp.cum
        /\ c.reserve = cp.reserve - cp.accrued[a]
    BY <1>5 DEF PaidOutTo
  <2>3. QED
    BY <1>2, <1>3, <1>4, <2>1, <2>2
<1>7. z[a] = q[a] + n /\ (\A x \in Accounts : x # a => z[x] = q[x]) /\ z \in [Accounts -> Nat]
  BY <1>4
<1>8. b.debt[a] = IF h[a] = 0 THEN 0 ELSE b.accrued[a] + q[a]
  BY DEF BackedAt
<1>9. h[a] = 0 => f = 0
  BY FloorFacts DEF f, Buckets
<1>10. \A x \in Accounts : c.debt[x] = IF h[x] = 0 THEN 0 ELSE c.accrued[x] + z[x]
  <2>1. c.debt[a] = IF h[a] = 0 THEN 0 ELSE c.accrued[a] + z[a]
    BY <1>2, <1>4, <1>6, <1>7, <1>8, <1>9
  <2>2. QED
    BY <2>1, <1>6, <1>7 DEF BackedAt
<1>11. ExitedAt(c, h, z) = e
  <2>1. ASSUME NEW x \in Accounts, h[x] = 0 PROVE c.accrued[x] + z[x] = b.accrued[x] + q[x]
    BY <1>2, <1>4, <1>6, <1>7, <1>8, <1>9, <2>1
  <2>2. QED
    BY <2>1 DEF ExitedAt
<1>12. Total(z) = Total(q) + n
  <2>1. q \in [Accounts -> Int] /\ q[a] + n \in Int /\ IsFiniteSet(Accounts)
    BY <1>4, TermSetting
  <2>2. Total([q EXCEPT ![a] = q[a] + n]) = Total(q) - q[a] + (q[a] + n)
    BY <2>1, TotalExcept
  <2>3. Total(q) \in Int /\ q[a] \in Nat
    BY <2>1, TotalType
  <2>4. QED
    BY <1>4, <2>2, <2>3
<1>13. c.reserve + Total(z) = b.reserve + Total(q)
  BY <1>4, <1>6, <1>12, ExitedType DEF Buckets
<1>14. BackedAt(c, h, z, locked)
  BY <1>6, <1>10, <1>11, <1>13 DEF BackedAt
<1>15. QED
  BY <1>1, <1>4, <1>5, <1>14 DEF cp, c, ClaimedTo

(* What all may still claim after maturity is in the bucket: each is owed   *)
(* the floor of its stake's earnings, or what it had when it left.          *)
LEMMA BackedCovers ==
    ASSUME NEW b \in Buckets, NEW h \in [Accounts -> Nat], NEW q \in [Accounts -> Nat],
           BackedAt(b, h, q, Total(h))
    PROVE  Total([a \in Accounts |-> Owed(b, h, a)]) <= b.reserve
<1> DEFINE o == [a \in Accounts |-> Owed(b, h, a)]
           e == ExitedAt(b, h, q)
           w == [a \in Accounts |-> b.cum * h[a]]
           x == [a \in Accounts |-> ACC_SCALE * e[a]]
           y == [a \in Accounts |-> w[a] + x[a]]
           z == [a \in Accounts |-> o[a] + q[a]]
           v == [a \in Accounts |-> ACC_SCALE * z[a]]
<1>1. /\ IsFiniteSet(Accounts) /\ b.cum \in Nat /\ ACC_SCALE \in Nat \ {0} /\ b.reserve \in Nat
      /\ e \in [Accounts -> Int] /\ h \in [Accounts -> Int] /\ q \in [Accounts -> Int]
  BY ExitedType, TermSetting DEF Buckets
<1>2. /\ o \in [Accounts -> Int] /\ w \in [Accounts -> Int] /\ x \in [Accounts -> Int]
      /\ y \in [Accounts -> Int] /\ z \in [Accounts -> Int] /\ v \in [Accounts -> Int]
  <2>1. o \in [Accounts -> Int]
    BY OwedType
  <2>2. w \in [Accounts -> Int] /\ x \in [Accounts -> Int]
    BY <1>1
  <2> HIDE DEF o, w, x
  <2>3. y \in [Accounts -> Int] /\ z \in [Accounts -> Int]
    BY <1>1, <2>1, <2>2
  <2> HIDE DEF z
  <2>4. v \in [Accounts -> Int]
    BY <1>1, <2>3
  <2>5. QED
    BY <2>1, <2>2, <2>3, <2>4
<1>3. ASSUME NEW a \in Accounts PROVE v[a] <= y[a]
  <2> DEFINE f == Floor(h[a], b.cum)
  <2>1. /\ f \in Nat /\ h[a] \in Nat /\ b.accrued[a] \in Nat /\ b.debt[a] \in Nat /\ q[a] \in Nat
        /\ ACC_SCALE * f <= h[a] * b.cum /\ h[a] * b.cum \in Nat /\ (h[a] = 0 => f = 0)
        /\ o[a] = b.accrued[a] + (f - b.debt[a])
    BY <1>1, OwedType, FloorFacts DEF Buckets
  <2>2. b.debt[a] = IF h[a] = 0 THEN 0 ELSE b.accrued[a] + q[a]
    BY DEF BackedAt
  <2>3. e[a] = IF h[a] = 0 THEN b.accrued[a] + q[a] ELSE 0
    BY DEF ExitedAt
  <2>4. w[a] = h[a] * b.cum /\ x[a] = ACC_SCALE * e[a] /\ y[a] = w[a] + x[a]
        /\ z[a] = o[a] + q[a] /\ v[a] = ACC_SCALE * z[a]
    BY <1>1, <2>1
  <2> HIDE DEF f, w, x, y, z, v, o, e
  <2>5. CASE h[a] = 0
    <3>1. z[a] = e[a]
      BY <2>1, <2>2, <2>3, <2>4, <2>5
    <3>2. v[a] = x[a] /\ x[a] \in Int
      BY <1>1, <2>1, <2>3, <2>4, <2>5, <3>1
    <3>3. QED
      BY <2>1, <2>4, <3>2
  <2>6. CASE h[a] # 0
    BY <1>1, <2>1, <2>2, <2>3, <2>4, <2>6
  <2>7. QED
    BY <2>5, <2>6
<1>4. /\ Total(w) = b.cum * Total(h) /\ Total(x) = ACC_SCALE * Total(e)
      /\ Total(v) = ACC_SCALE * Total(z)
  <2>1. \A a \in Accounts : w[a] = b.cum * h[a] /\ x[a] = ACC_SCALE * e[a] /\ v[a] = ACC_SCALE * z[a]
    OBVIOUS
  <2>2. b.cum \in Int /\ ACC_SCALE \in Int
    BY <1>1
  <2> HIDE DEF w, x, v, z, e
  <2>3. Total(w) = b.cum * Total(h)
    BY <1>1, <1>2, <2>1, <2>2, TotalScale
  <2>4. Total(x) = ACC_SCALE * Total(e)
    BY <1>1, <1>2, <2>1, <2>2, TotalScale
  <2>5. Total(v) = ACC_SCALE * Total(z)
    BY <1>1, <1>2, <2>1, <2>2, TotalScale
  <2>6. QED
    BY <2>3, <2>4, <2>5
<1>5. Total(y) = Total(w) + Total(x) /\ Total(z) = Total(o) + Total(q)
  <2>1. \A a \in Accounts : y[a] = w[a] + x[a] /\ z[a] = o[a] + q[a]
    OBVIOUS
  <2> HIDE DEF w, x, y, z, o
  <2>2. Total(y) = Total(w) + Total(x)
    BY <1>1, <1>2, <2>1, TotalPlus
  <2>3. Total(z) = Total(o) + Total(q)
    BY <1>1, <1>2, <2>1, TotalPlus
  <2>4. QED
    BY <2>2, <2>3
<1>6. Total(v) <= Total(y)
  <2> HIDE DEF v, y
  <2>1. QED
    BY <1>1, <1>2, <1>3, TotalMonotone
<1>7. b.cum * Total(h) + ACC_SCALE * Total(e) <= ACC_SCALE * (b.reserve + Total(q))
  BY DEF BackedAt
<1>8. Total(o) \in Int /\ Total(q) \in Int /\ Total(h) \in Int /\ Total(e) \in Int
  <2> HIDE DEF o, e
  <2>1. QED
    BY <1>1, <1>2, TotalType
<1>9. Total(o) <= b.reserve
  <2> DEFINE s == Total(o) + Total(q)
             r == b.reserve + Total(q)
  <2>1. s \in Int /\ r \in Int /\ ACC_SCALE * s <= ACC_SCALE * r
    BY <1>1, <1>4, <1>5, <1>6, <1>7, <1>8
  <2>2. s <= r
    <3> HIDE DEF s, r
    <3>1. QED
      BY <1>1, <2>1
  <2>3. QED
    BY <1>1, <1>8, <2>2
<1>10. QED
  BY <1>9

----------------------------------------------------------------------------
(* What each transaction of the wrapper does to the second bucket.          *)

PostGoesOn == PostKept /\ BackedAt(post', depositedShares', paid'.post, totalLocked')

(* An empty bucket owes nothing, whoever holds what.                        *)
LEMMA EmptyFacts ==
    /\ EmptyBucket \in Buckets /\ Nobody \in [Accounts -> Nat]
    /\ \A h \in [Accounts -> Nat] : \A a \in Accounts :
          /\ Floor(h[a], EmptyBucket.cum) = 0 /\ Owed(EmptyBucket, h, a) = 0
          /\ Checkpoint(EmptyBucket, h, a) = EmptyBucket /\ Rebase(EmptyBucket, h, a) = EmptyBucket
    /\ \A h \in [Accounts -> Nat] : \A locked \in Nat : BackedAt(EmptyBucket, h, Nobody, locked)
<1>1. Nobody \in [Accounts -> Nat] /\ EmptyBucket \in Buckets
  BY DEF Nobody, EmptyBucket, Buckets
<1>2. ASSUME NEW h \in [Accounts -> Nat], NEW a \in Accounts
      PROVE  /\ Floor(h[a], EmptyBucket.cum) = 0 /\ Owed(EmptyBucket, h, a) = 0
             /\ Checkpoint(EmptyBucket, h, a) = EmptyBucket /\ Rebase(EmptyBucket, h, a) = EmptyBucket
  <2>1. Floor(h[a], EmptyBucket.cum) = 0
    BY FloorFacts DEF EmptyBucket
  <2>2. EmptyBucket.accrued = Nobody /\ EmptyBucket.debt = Nobody /\ Nobody[a] = 0
    BY DEF EmptyBucket, Nobody
  <2>3. Owed(EmptyBucket, h, a) = 0
    BY <2>1, <2>2 DEF Owed, Pending
  <2>4. [Nobody EXCEPT ![a] = 0] = Nobody
    BY DEF Nobody
  <2>5. Checkpoint(EmptyBucket, h, a) = EmptyBucket
    <3>1. Checkpoint(EmptyBucket, h, a) = [EmptyBucket EXCEPT !.accrued[a] = 0, !.debt[a] = 0]
      BY <2>1, <2>3 DEF Checkpoint
    <3>2. QED
      BY <2>4, <3>1 DEF EmptyBucket
  <2>6. Rebase(EmptyBucket, h, a) = EmptyBucket
    BY <2>1, <2>4 DEF Rebase, EmptyBucket
  <2>7. QED
    BY <2>1, <2>3, <2>5, <2>6
<1>3. ASSUME NEW h \in [Accounts -> Nat], NEW locked \in Nat PROVE BackedAt(EmptyBucket, h, Nobody, locked)
  <2>1. \A a \in Accounts : EmptyBucket.debt[a] = 0 /\ EmptyBucket.accrued[a] = 0 /\ Nobody[a] = 0
    BY DEF EmptyBucket, Nobody
  <2>2. ExitedAt(EmptyBucket, h, Nobody) = Nobody
    BY <2>1 DEF ExitedAt, Nobody
  <2>3. Total(Nobody) = 0
    BY TotalZero, TermSetting DEF Nobody
  <2>4. EmptyBucket.cum = 0 /\ EmptyBucket.reserve = 0
    BY DEF EmptyBucket
  <2>5. 0 * locked + ACC_SCALE * 0 <= ACC_SCALE * (0 + 0)
    BY TermSetting
  <2>6. QED
    BY <2>1, <2>2, <2>3, <2>4, <2>5 DEF BackedAt
<1>4. QED
  BY <1>1, <1>2, <1>3

(* What does not touch the second bucket keeps its books.                   *)
LEMMA PostStill ==
    ASSUME WrapTyped, PostBacked, post' = post, depositedShares' = depositedShares,
           paid'.post = paid.post, totalLocked' = totalLocked
    PROVE  PostGoesOn
<1>1. \A x \in Accounts : PostEarned(x)' = PostEarned(x)
  BY DEF PostEarned, Owed, Pending
<1>2. \A x \in Accounts : PostEarned(x) \in Int /\ Floor(depositedShares[x], post.cum) \in Nat
  BY EarnedType, OwedType DEF PostEarned, WrapTyped
<1>3. PostKept
  BY <1>1, <1>2 DEF PostKept, WrapTyped
<1>4. QED
  BY <1>3, PostBackedAt DEF PostGoesOn

(* Deposits end before the second bucket opens.                             *)
LEMMA DepositPost ==
    ASSUME WrapTyped, Seasons, NEW a \in Accounts, NEW n \in Nat, NEW p \in Nat, Deposit(a, n, p)
    PROVE  PostGoesOn /\ post' = EmptyBucket /\ paid' = paid /\ paid.post = Nobody
<1>1. now < DEPOSIT_UNTIL /\ now \in Nat /\ now <= MATURITY
  BY TermSetting DEF Deposit, WrapTyped
<1>2. post = EmptyBucket /\ paid.post = Nobody
  BY <1>1 DEF Seasons
<1>3. /\ depositedShares' = [depositedShares EXCEPT ![a] = @ + n] /\ paid' = paid
      /\ post' = Rebase(Checkpoint(post, depositedShares, a), depositedShares', a)
      /\ totalLocked' = totalLocked + n
  BY DEF Deposit
<1>4. /\ depositedShares \in [Accounts -> Nat] /\ depositedShares' \in [Accounts -> Nat]
      /\ totalLocked' \in Nat
  BY <1>3 DEF WrapTyped
<1>5. post' = EmptyBucket
  BY <1>2, <1>3, <1>4, EmptyFacts
<1>6. BackedAt(post', depositedShares', paid'.post, totalLocked')
  BY <1>2, <1>3, <1>4, <1>5, EmptyFacts
<1>7. ASSUME NEW x \in Accounts PROVE PostEarned(x)' = 0 /\ PostEarned(x) = 0
  <2>1. Owed(post', depositedShares', x) = 0 /\ Owed(post, depositedShares, x) = 0
    BY <1>2, <1>4, <1>5, EmptyFacts
  <2>2. paid.post[x] = 0 /\ paid'.post[x] = 0
    BY <1>2, <1>3 DEF Nobody
  <2>3. PostEarned(x)' = Owed(post', depositedShares', x) + paid'.post[x]
    BY DEF PostEarned
  <2>4. QED
    BY <2>1, <2>2, <2>3 DEF PostEarned
<1>8. PostKept
  <2>1. \A x \in Accounts : Floor(depositedShares[x], EmptyBucket.cum) = 0
    BY <1>4, EmptyFacts
  <2>2. QED
    BY <1>2, <1>5, <1>7, <2>1, EmptyFacts DEF PostKept
<1>9. QED
  BY <1>2, <1>3, <1>5, <1>6, <1>8 DEF PostGoesOn

(* A redemption takes the whole stake, at the rate it saw last.             *)
LEMMA RedeemPost ==
    ASSUME WrapTyped, PostBacked, NEW a \in Accounts, NEW p \in Nat, RedeemShares(a, p)
    PROVE  PostGoesOn
<1> DEFINE b == SyncPost(p).post
           h == depositedShares
<1>1. /\ now > MATURITY /\ h[a] # 0 /\ Settles(b, h, a) /\ h[a] <= totalLocked
      /\ post' = ExitSettled(b, a) /\ totalLocked' = totalLocked - h[a]
      /\ depositedShares' = [h EXCEPT ![a] = 0] /\ paid' = paid
  BY DEF RedeemShares, MayRedeem, ClearsPrincipal
<1>2. SyncedTo(SyncPost(p), p) /\ BackedAt(b, h, paid.post, totalLocked)
  BY SyncFacts, SyncBacked
<1>3. ~ (now <= MATURITY)
  BY <1>1, TermSetting DEF WrapTyped
<1>4. h \in [Accounts -> Nat] /\ b \in Buckets /\ paid.post \in [Accounts -> Nat] /\ totalLocked \in Nat
  BY <1>2 DEF WrapTyped, SyncedTo
<1>5. ExitedTo(b, h, a, post')
  BY <1>1, <1>4, ExitFacts
<1>6. BackedAt(post', depositedShares', paid'.post, totalLocked')
  BY <1>1, <1>2, <1>4, ExitBacked
<1>7. \A x \in Accounts : /\ Owed(post', depositedShares', x) = Owed(b, h, x) /\ Owed(b, h, x) \in Int
                          /\ Owed(post, h, x) <= Owed(b, h, x) /\ OwedGrown(post, b, h, x)
                          /\ Floor(h[x], b.cum) \in Nat /\ Floor(h[x], post.cum) \in Nat
  BY <1>1, <1>2, <1>4, <1>5, OwedType DEF ExitedTo, SyncedTo, WrapTyped
<1> HIDE DEF b
<1>8. \A x \in Accounts : PostEarned(x)' = Owed(b, h, x) + paid.post[x]
  BY <1>1, <1>7 DEF PostEarned
<1>9. PostKept
  BY <1>3, <1>5, <1>7, <1>8, EarnedType DEF PostKept, PostEarned, ExitedTo, OwedGrown
<1>10. QED
  BY <1>6, <1>9 DEF PostGoesOn

(* A claim after maturity pays what is owed, from the reserve.              *)
LEMMA ClaimPost ==
    ASSUME WrapTyped, PostBacked, NEW a \in Accounts, NEW p \in Nat, ClaimLockedReward(a, p)
    PROVE  /\ PostGoesOn
           /\ \E n \in Nat : /\ n <= SyncPost(p).post.reserve /\ n <= reward + p
                             /\ post'.reserve = SyncPost(p).post.reserve - n
                             /\ reward' = reward + p - n /\ paid' = [paid EXCEPT !.post[a] = @ + n]
<1> DEFINE b == SyncPost(p).post
           h == depositedShares
           q == paid.post
           cp == Checkpoint(b, h, a)
           n == cp.accrued[a]
<1>1. /\ now > MATURITY /\ Settles(b, h, a) /\ n <= cp.reserve /\ n <= reward + p
      /\ post' = PayOut(cp, a) /\ reward' = reward + p - n
      /\ paid' = [paid EXCEPT !.post[a] = @ + n]
      /\ depositedShares' = depositedShares /\ totalLocked' = totalLocked
  BY DEF ClaimLockedReward, principal
<1>2. SyncedTo(SyncPost(p), p) /\ BackedAt(b, h, q, totalLocked)
  BY SyncFacts, SyncBacked
<1>3. ~ (now <= MATURITY)
  BY <1>1, TermSetting DEF WrapTyped
<1>4. h \in [Accounts -> Nat] /\ b \in Buckets /\ q \in [Accounts -> Nat] /\ totalLocked \in Nat
  BY <1>2 DEF WrapTyped, SyncedTo
<1> HIDE DEF b, h, q, cp
<1>5. cp.reserve = b.reserve
  <2>1. CheckpointedTo(b, h, a, Checkpoint(b, h, a))
    BY <1>1, <1>4, CheckpointFacts
  <2>2. QED
    BY <2>1 DEF cp, CheckpointedTo
<1>6. /\ BackedAt(PayOut(cp, a), h, [q EXCEPT ![a] = @ + n], totalLocked) /\ n \in Nat
      /\ n = Owed(b, h, a) /\ PaidOutTo(cp, h, a, PayOut(cp, a)) /\ CheckpointedTo(b, h, a, cp)
  <2>1. n = Checkpoint(b, h, a).accrued[a] /\ n <= b.reserve
    BY <1>1, <1>5 DEF cp
  <2> HIDE DEF n
  <2>2. ClaimedTo(b, h, q, totalLocked, a, n, Checkpoint(b, h, a))
    BY <1>1, <1>2, <1>4, <2>1, ClaimBacked
  <2>3. QED
    BY <2>2 DEF ClaimedTo, cp
<1> HIDE DEF n
<1>7. /\ post' \in Buckets /\ post'.reserve = b.reserve - n /\ post'.cum = b.cum
      /\ Owed(post', h, a) = Owed(b, h, a) - n
      /\ \A x \in Accounts : x # a => Owed(post', h, x) = Owed(b, h, x)
  BY <1>1, <1>5, <1>6 DEF PaidOutTo, CheckpointedTo, n
<1>8. paid'.post = [q EXCEPT ![a] = @ + n]
  BY <1>1 DEF WrapTyped, q
<1>9. paid'.post[a] = q[a] + n /\ \A x \in Accounts : x # a => paid'.post[x] = q[x]
  BY <1>4, <1>8
<1>10. \A x \in Accounts : /\ Owed(b, h, x) \in Int /\ Owed(post, h, x) <= Owed(b, h, x)
                           /\ OwedGrown(post, b, h, x)
                           /\ Floor(h[x], b.cum) \in Nat /\ Floor(h[x], post.cum) \in Nat
  BY <1>2, <1>4, OwedType DEF SyncedTo, WrapTyped, b, h
<1>11. ASSUME NEW x \in Accounts PROVE PostEarned(x)' = Owed(b, h, x) + q[x]
  <2>1. PostEarned(x)' = Owed(post', h, x) + paid'.post[x]
    BY <1>1 DEF PostEarned, h
  <2>2. q[x] \in Nat /\ Owed(b, h, x) \in Int
    BY <1>4, <1>10
  <2>3. QED
    BY <1>6, <1>7, <1>9, <2>1, <2>2
<1>12. PostKept
  <2>1. \A x \in Accounts : PostEarned(x) = Owed(post, h, x) + q[x] /\ Owed(post, h, x) \in Int /\ q[x] \in Nat
    BY EarnedType DEF PostEarned, h, q
  <2>2. QED
    BY <1>3, <1>7, <1>10, <1>11, <2>1 DEF PostKept, OwedGrown, h
<1>13. BackedAt(post', depositedShares', paid'.post, totalLocked')
  BY <1>1, <1>6, <1>8 DEF h
<1>14. QED
  BY <1>1, <1>5, <1>6, <1>7, <1>12, <1>13 DEF PostGoesOn, b

(* A sweep pays from the coupons' reserve and leaves the second bucket.     *)
LEMMA SweepPost ==
    ASSUME WrapTyped, PostBacked, NEW a \in Accounts, NEW p \in Nat, SweepExpired(a, p)
    PROVE  PostGoesOn
<1> DEFINE b == SyncPost(p).post
<1>1. /\ now > MATURITY /\ ~ (now <= MATURITY) /\ post' = b /\ paid' = paid
      /\ depositedShares' = depositedShares /\ totalLocked' = totalLocked
  BY TermSetting DEF SweepExpired, principal, WrapTyped
<1>2. SyncedTo(SyncPost(p), p) /\ BackedAt(b, depositedShares, paid.post, totalLocked)
  BY SyncFacts, SyncBacked
<1>3. b \in Buckets
  BY <1>2 DEF SyncedTo
<1>4. \A x \in Accounts : /\ Owed(b, depositedShares, x) \in Int /\ Floor(depositedShares[x], b.cum) \in Nat
                          /\ Floor(depositedShares[x], post.cum) \in Nat
  BY <1>3, OwedType DEF WrapTyped
<1>5. \A x \in Accounts : PostEarned(x)' = Owed(b, depositedShares, x) + paid.post[x]
  BY <1>1 DEF PostEarned
<1>6. PostKept
  BY <1>1, <1>2, <1>3, <1>4, <1>5, EarnedType DEF PostKept, PostEarned, SyncedTo, OwedGrown
<1>7. QED
  BY <1>1, <1>2, <1>6 DEF PostGoesOn

(* No step lowers what a holder earned in the coupon epoch.                 *)
LEMMA CouponStep ==
    ASSUME WrapTyped, [Next]_vars
    PROVE  CouponKept
<1>1. Payments \subseteq Nat
  BY TermSetting
<1>2. CASE UNCHANGED vars
  BY <1>2, CouponStill DEF vars, units
<1>3. ASSUME NEW n \in Payments, RewardArrives(n) PROVE CouponKept
  BY <1>3, CouponStill DEF RewardArrives, units
<1>4. ASSUME NEW n \in Payments, Harvest(n) PROVE CouponKept
  BY <1>1, <1>4, HarvestCoupon
<1>5. ASSUME NEW a \in Accounts, NEW p \in Payments, NEW n \in 1..shares[a], Deposit(a, n, p) PROVE CouponKept
  BY <1>1, <1>5, DepositCoupon
<1>6. ASSUME NEW from \in Accounts, NEW to \in Accounts, NEW p \in Payments,
             NEW n \in 0..balanceOf[from], Transfer(from, to, n, p)
      PROVE  CouponKept
  BY <1>1, <1>6, TransferCoupon
<1>7. ASSUME NEW a \in Accounts, Claim(a) PROVE CouponKept
  BY <1>7, ClaimCoupon
<1>8. ASSUME NEW a \in Accounts, NEW p \in Payments, RedeemShares(a, p) PROVE CouponKept
  BY <1>1, <1>8, SyncedCoupon DEF RedeemShares, units
<1>9. ASSUME NEW a \in Accounts, NEW p \in Payments, ClaimLockedReward(a, p) PROVE CouponKept
  <2>1. coupon' = SyncPost(p).coupon /\ balanceOf' = balanceOf /\ paid'.coupon = paid.coupon
    BY <1>9 DEF ClaimLockedReward, units, WrapTyped
  <2>2. QED
    BY <1>1, <2>1, SyncedCoupon
<1>10. ASSUME NEW a \in Accounts, NEW p \in Payments, SweepExpired(a, p) PROVE CouponKept
  BY <1>1, <1>10, SyncedCoupon DEF SweepExpired, units
<1>11. CASE Tick
  BY <1>11, CouponStill DEF Tick, units
<1>12. QED
  BY <1>2, <1>3, <1>4, <1>5, <1>6, <1>7, <1>8, <1>9, <1>10, <1>11 DEF Next

(* No step lowers what anybody earned after maturity, and the books stay.   *)
LEMMA PostStep ==
    ASSUME WrapTyped, Seasons, PostBacked, [Next]_vars
    PROVE  PostKept /\ PostBacked'
<1>1. Payments \subseteq Nat
  BY TermSetting
<1>2. ASSUME UNCHANGED vars PROVE PostGoesOn
  BY <1>2, PostStill DEF vars, principal
<1>3. ASSUME NEW n \in Payments, RewardArrives(n) PROVE PostGoesOn
  BY <1>3, PostStill DEF RewardArrives, principal
<1>4. ASSUME NEW n \in Payments, Harvest(n) PROVE PostGoesOn
  BY <1>4, PostStill DEF Harvest, principal
<1>5. ASSUME NEW a \in Accounts, NEW p \in Payments, NEW n \in 1..shares[a], Deposit(a, n, p) PROVE PostGoesOn
  BY <1>1, <1>5, DepositPost
<1>6. ASSUME NEW from \in Accounts, NEW to \in Accounts, NEW p \in Payments,
             NEW n \in 0..balanceOf[from], Transfer(from, to, n, p)
      PROVE  PostGoesOn
  BY <1>6, PostStill DEF Transfer, principal
<1>7. ASSUME NEW a \in Accounts, Claim(a) PROVE PostGoesOn
  <2>1. post' = post /\ depositedShares' = depositedShares /\ totalLocked' = totalLocked /\ paid'.post = paid.post
    BY <1>7 DEF Claim, principal, WrapTyped
  <2>2. QED
    BY <2>1, PostStill
<1>8. ASSUME NEW a \in Accounts, NEW p \in Payments, RedeemShares(a, p) PROVE PostGoesOn
  BY <1>1, <1>8, RedeemPost
<1>9. ASSUME NEW a \in Accounts, NEW p \in Payments, ClaimLockedReward(a, p) PROVE PostGoesOn
  BY <1>1, <1>9, ClaimPost
<1>10. ASSUME NEW a \in Accounts, NEW p \in Payments, SweepExpired(a, p) PROVE PostGoesOn
  BY <1>1, <1>10, SweepPost
<1>11. ASSUME Tick PROVE PostGoesOn
  BY <1>11, PostStill DEF Tick, principal
<1>12. PostGoesOn
  BY <1>2, <1>3, <1>4, <1>5, <1>6, <1>7, <1>8, <1>9, <1>10, <1>11 DEF Next
<1>13. PostBacked' <=> BackedAt(post', depositedShares', paid'.post, totalLocked')
  BY DEF PostBacked, BackedAt, Exited, ExitedAt
<1>14. QED
  BY <1>12, <1>13 DEF PostGoesOn

----------------------------------------------------------------------------
(* Principal: shares held, locked principal and redemption records.         *)

Stakes == [a \in Accounts |-> depositedShares[a] + redeemedShares[a]]

(* All stakes, locked and redeemed, are what was deposited.                 *)
LEMMA StakeTotals ==
    ASSUME WrapTyped, PrincipalHeld
    PROVE  /\ Stakes \in [Accounts -> Nat] /\ totalDeposited = Total(Stakes)
           /\ \A a \in Accounts : Stakes[a] = depositedShares[a] + redeemedShares[a] /\ Stakes[a] <= totalDeposited
<1>1. Stakes \in [Accounts -> Nat] /\ \A a \in Accounts : Stakes[a] = depositedShares[a] + redeemedShares[a]
  BY DEF WrapTyped, Stakes
<1>2. totalDeposited = Total(Stakes)
  BY DEF PrincipalHeld, Stakes
<1>3. QED
  BY <1>1, <1>2, TotalNatural, TermSetting

Added(f, a, n, g) == g = [f EXCEPT ![a] = @ + n]

(* Adding to one account adds to the total. *)
LEMMA TotalAdd ==
    ASSUME NEW f \in [Accounts -> Nat], NEW a \in Accounts, NEW n \in Int,
           NEW g, Added(f, a, n, g)
    PROVE  Total(g) = Total(f) + n /\ Total(f) \in Nat /\ f[a] <= Total(f)
<1>1. f \in [Accounts -> Int] /\ IsFiniteSet(Accounts) /\ f[a] + n \in Int
  BY TermSetting
<1>2. Total([f EXCEPT ![a] = f[a] + n]) = Total(f) - f[a] + (f[a] + n)
  BY <1>1, TotalExcept
<1>3. Total(f) \in Nat /\ f[a] <= Total(f) /\ f[a] \in Nat
  BY <1>1, TotalNatural
<1>4. QED
  BY <1>2, <1>3 DEF Added

LEMMA SharesMoved ==
    ASSUME WrapTyped, NEW a \in Accounts, NEW n \in Int,
           shares[a] + n \in Nat, shares[Wrap] - n \in Nat,
           shares' = [shares EXCEPT ![a] = @ + n, ![Wrap] = @ - n]
    PROVE  shares' \in [Accounts \cup {Wrap} -> Nat] /\ shares'[Wrap] = shares[Wrap] - n
<1>1. a # Wrap /\ shares \in [Accounts \cup {Wrap} -> Nat]
  BY TermSetting DEF WrapTyped
<1>2. QED
  BY <1>1

DepositedTo(a, n) ==
    /\ shares' \in [Accounts \cup {Wrap} -> Nat] /\ balanceOf' \in [Accounts -> Nat]
    /\ depositedShares' \in [Accounts -> Nat] /\ PrincipalHeld'

LEMMA DepositPrincipal ==
    ASSUME WrapTyped, PrincipalHeld, NEW a \in Accounts, NEW n \in Nat, NEW p, Deposit(a, n, p)
    PROVE  DepositedTo(a, n)
<1>1. /\ n <= shares[a] /\ shares' = [shares EXCEPT ![a] = @ - n, ![Wrap] = @ + n]
      /\ balanceOf' = [balanceOf EXCEPT ![a] = @ + n] /\ totalSupply' = totalSupply + n
      /\ depositedShares' = [depositedShares EXCEPT ![a] = @ + n]
      /\ totalDeposited' = totalDeposited + n /\ totalLocked' = totalLocked + n
      /\ redeemedShares' = redeemedShares
  BY DEF Deposit
<1>2. /\ balanceOf \in [Accounts -> Nat] /\ depositedShares \in [Accounts -> Nat]
      /\ totalSupply \in Nat /\ totalDeposited \in Nat /\ totalLocked \in Nat
      /\ redeemedShares \in [Accounts -> Nat]
  BY DEF WrapTyped
<1>3. shares' \in [Accounts \cup {Wrap} -> Nat] /\ shares'[Wrap] = shares[Wrap] + n
  <2>1. a # Wrap /\ shares \in [Accounts \cup {Wrap} -> Nat]
    BY TermSetting DEF WrapTyped
  <2>2. QED
    BY <1>1, <2>1
<1>4. Total(balanceOf') = Total(balanceOf) + n /\ Total(depositedShares') = Total(depositedShares) + n
  <2>1. n \in Int
    OBVIOUS
  <2>0. Added(balanceOf, a, n, balanceOf') /\ Added(depositedShares, a, n, depositedShares')
    BY <1>1 DEF Added
  <2>2. Total(balanceOf') = Total(balanceOf) + n
    BY <1>2, <2>1, <2>0, TotalAdd
  <2>3. Total(depositedShares') = Total(depositedShares) + n
    BY <1>2, <2>1, <2>0, TotalAdd
  <2>4. QED
    BY <2>2, <2>3
<1>5. Stakes' = [Stakes EXCEPT ![a] = @ + n]
  <2>1. \A x \in Accounts : depositedShares'[x] + redeemedShares'[x] =
              IF x = a THEN depositedShares[x] + redeemedShares[x] + n ELSE depositedShares[x] + redeemedShares[x]
    BY <1>1, <1>2
  <2>2. QED
    BY <2>1 DEF Stakes
<1>6. Total(Stakes') = Total(Stakes) + n
  <2>1. n \in Int /\ Stakes \in [Accounts -> Nat] /\ Added(Stakes, a, n, Stakes')
    BY <1>5, StakeTotals DEF Added
  <2>2. QED
    BY <2>1, TotalAdd
<1>7. PrincipalHeld'
  BY <1>1, <1>2, <1>3, <1>4, <1>6, StakeTotals DEF PrincipalHeld, Stakes
<1>8. QED
  BY <1>1, <1>2, <1>3, <1>7 DEF DepositedTo

(* Units change hands, principal does not move.                             *)
LEMMA TransferPrincipal ==
    ASSUME WrapTyped, PrincipalHeld, NEW from \in Accounts, NEW to \in Accounts, NEW n \in Nat, NEW p,
           Transfer(from, to, n, p), balanceOf' = Moved(balanceOf, from, to, n)
    PROVE  PrincipalHeld'
<1> DEFINE mid == [balanceOf EXCEPT ![from] = @ + (-n)]
<1>1. /\ n <= balanceOf[from] /\ depositedShares' = depositedShares /\ redeemedShares' = redeemedShares
      /\ totalDeposited' = totalDeposited /\ totalLocked' = totalLocked /\ totalSupply' = totalSupply
      /\ shares' = shares
  BY DEF Transfer, principal
<1>2. balanceOf \in [Accounts -> Nat]
  BY DEF WrapTyped
<1>3. mid \in [Accounts -> Nat] /\ Total(mid) = Total(balanceOf) + (-n) /\ Total(balanceOf) \in Nat
  <2>1. balanceOf[from] + (-n) \in Nat /\ -n \in Int
    BY <1>1, <1>2
  <2>2. Added(balanceOf, from, -n, mid) /\ mid \in [Accounts -> Nat]
    BY <1>2, <2>1 DEF Added
  <2> HIDE DEF mid
  <2>3. QED
    BY <1>2, <2>1, <2>2, TotalAdd
<1>4. [balanceOf EXCEPT ![from] = @ - n] = mid
  BY <1>2
<1> HIDE DEF mid
<1>5. balanceOf' = [mid EXCEPT ![to] = @ + n]
  BY <1>4 DEF Moved
<1>6. Total(balanceOf') = Total(mid) + n
  <2>1. n \in Int /\ Added(mid, to, n, balanceOf')
    BY <1>5 DEF Added
  <2>2. QED
    BY <1>3, <2>1, TotalAdd
<1>7. Total(balanceOf') = Total(balanceOf)
  BY <1>3, <1>6
<1>8. QED
  BY <1>1, <1>7 DEF PrincipalHeld

RedeemedTo(a) ==
    /\ shares' \in [Accounts \cup {Wrap} -> Nat] /\ depositedShares' \in [Accounts -> Nat]
    /\ redeemedShares' \in [Accounts -> Nat] /\ totalLocked' \in Nat
    /\ PrincipalHeld' /\ Stakes' = Stakes
    /\ \A x \in Accounts : redeemedShares'[x] # 0 => depositedShares'[x] = 0

(* A redemption pays out the stake and burns the lock, once.                *)
LEMMA RedeemPrincipal ==
    ASSUME WrapTyped, Seasons, PrincipalHeld, NEW a \in Accounts, NEW p, RedeemShares(a, p)
    PROVE  RedeemedTo(a)
<1> DEFINE n == depositedShares[a]
<1>1. /\ n # 0 /\ n <= totalLocked /\ n <= shares[Wrap] /\ totalLocked' = totalLocked - n
      /\ depositedShares' = [depositedShares EXCEPT ![a] = 0]
      /\ redeemedShares' = [redeemedShares EXCEPT ![a] = n]
      /\ shares' = [shares EXCEPT ![a] = @ + n, ![Wrap] = @ - n]
      /\ balanceOf' = balanceOf /\ totalSupply' = totalSupply /\ totalDeposited' = totalDeposited
  BY DEF RedeemShares, MayRedeem, ClearsPrincipal, units
<1>2. /\ depositedShares \in [Accounts -> Nat] /\ redeemedShares \in [Accounts -> Nat]
      /\ totalLocked \in Nat /\ n \in Nat /\ shares \in [Accounts \cup {Wrap} -> Nat]
  BY DEF WrapTyped
<1>3. redeemedShares[a] = 0
  BY <1>1 DEF Seasons
<1>4. shares' \in [Accounts \cup {Wrap} -> Nat] /\ shares'[Wrap] = shares[Wrap] - n
  <2>1. shares[a] + n \in Nat /\ shares[Wrap] - n \in Nat /\ n \in Int
    BY <1>1, <1>2
  <2>2. QED
    BY <1>1, <2>1, SharesMoved
<1>5. Stakes' = Stakes
  <2>1. \A x \in Accounts : depositedShares'[x] + redeemedShares'[x] = depositedShares[x] + redeemedShares[x]
    BY <1>1, <1>2, <1>3
  <2>2. QED
    BY <2>1 DEF Stakes
<1>6. Total(depositedShares') = Total(depositedShares) - n
  <2>1. depositedShares' = [depositedShares EXCEPT ![a] = @ + (-n)]
    <3>1. depositedShares[a] + (-depositedShares[a]) = 0
      BY <1>2
    <3>2. QED
      BY <1>1, <3>1
  <2>2. -n \in Int /\ Added(depositedShares, a, -n, depositedShares')
    BY <1>2, <2>1 DEF Added
  <2>3. Total(depositedShares') = Total(depositedShares) + (-n) /\ Total(depositedShares) \in Nat
    BY <1>2, <2>1, <2>2, TotalAdd
  <2>4. QED
    BY <1>2, <2>3
<1>7. PrincipalHeld'
  BY <1>1, <1>2, <1>4, <1>5, <1>6, StakeTotals DEF PrincipalHeld, Stakes
<1>8. \A x \in Accounts : redeemedShares'[x] # 0 => depositedShares'[x] = 0
  BY <1>1, <1>2 DEF Seasons
<1>9. depositedShares' \in [Accounts -> Nat] /\ redeemedShares' \in [Accounts -> Nat] /\ totalLocked' \in Nat
  BY <1>1, <1>2
<1>10. QED
  BY <1>4, <1>5, <1>7, <1>8, <1>9 DEF RedeemedTo

(* No step takes principal from under a unit.                               *)
LEMMA PrincipalStep ==
    ASSUME WrapTyped, Seasons, PrincipalHeld, [Next]_vars
    PROVE  PrincipalHeld'
<1>1. Payments \subseteq Nat
  BY TermSetting
<1>2. ASSUME principal' = principal, units' = units PROVE PrincipalHeld'
  BY <1>2 DEF PrincipalHeld, principal, units
<1>3. ASSUME NEW a \in Accounts, NEW p \in Payments, NEW n \in 1..shares[a], Deposit(a, n, p) PROVE PrincipalHeld'
  BY <1>3, DepositPrincipal DEF DepositedTo
<1>4. ASSUME NEW from \in Accounts, NEW to \in Accounts, NEW p \in Payments,
             NEW n \in 0..balanceOf[from], Transfer(from, to, n, p)
      PROVE  PrincipalHeld'
  BY <1>1, <1>4, TransferCoupon, TransferPrincipal
<1>5. ASSUME NEW a \in Accounts, NEW p \in Payments, RedeemShares(a, p) PROVE PrincipalHeld'
  BY <1>5, RedeemPrincipal DEF RedeemedTo
<1>6. ASSUME UNCHANGED vars PROVE PrincipalHeld'
  <2>1. principal' = principal /\ units' = units
    BY <1>6 DEF vars, principal, units
  <2>2. QED
    BY <1>2, <2>1
<1>7. ASSUME NEW n \in Payments, RewardArrives(n) \/ Harvest(n) PROVE PrincipalHeld'
  BY <1>2, <1>7 DEF RewardArrives, Harvest
<1>8. ASSUME NEW a \in Accounts, Claim(a) PROVE PrincipalHeld'
  BY <1>2, <1>8 DEF Claim
<1>9. ASSUME NEW a \in Accounts, NEW p \in Payments, ClaimLockedReward(a, p) \/ SweepExpired(a, p) PROVE PrincipalHeld'
  BY <1>2, <1>9 DEF ClaimLockedReward, SweepExpired
<1>10. ASSUME Tick PROVE PrincipalHeld'
  BY <1>2, <1>10 DEF Tick
<1>11. QED
  BY <1>3, <1>4, <1>5, <1>6, <1>7, <1>8, <1>9, <1>10 DEF Next

(* What is empty before maturity and before the deadline stays so until then. *)
LEMMA SeasonsStep ==
    ASSUME WrapTyped, Seasons, PrincipalHeld, [Next]_vars
    PROVE  Seasons'
<1>1. Payments \subseteq Nat /\ now \in Nat /\ MATURITY \in Nat /\ CLAIM_DEADLINE \in Nat
      /\ DEPOSIT_UNTIL \in Nat /\ DEPOSIT_UNTIL < MATURITY /\ MATURITY < CLAIM_DEADLINE
  BY TermSetting DEF WrapTyped
<1> DEFINE Rest == /\ redeemedShares' = redeemedShares /\ depositedShares' = depositedShares
                   /\ sweptOf' = sweptOf /\ forfeitPaid' = forfeitPaid
<1>2. ASSUME now' \in Nat, now <= now', post' = post, paid'.post = paid.post, Rest PROVE Seasons'
  BY <1>1, <1>2 DEF Seasons
<1>3. ASSUME now' = now, ~ (now <= MATURITY), Rest PROVE Seasons'
  BY <1>1, <1>3 DEF Seasons
<1>4. ASSUME NEW a \in Accounts, NEW p \in Payments, NEW n \in 1..shares[a], Deposit(a, n, p) PROVE Seasons'
  <2>1. post' = EmptyBucket /\ paid' = paid /\ paid.post = Nobody
    BY <1>1, <1>4, DepositPost
  <2>2. now' = now /\ redeemedShares' = redeemedShares /\ sweptOf' = sweptOf /\ forfeitPaid' = forfeitPaid
        /\ now < DEPOSIT_UNTIL
    BY <1>4 DEF Deposit, sweeps
  <2>3. redeemedShares = Nobody /\ sweptOf = Nobody /\ forfeitPaid = 0
    BY <1>1, <2>2 DEF Seasons
  <2>4. \A x \in Accounts : redeemedShares'[x] = 0
    BY <2>2, <2>3 DEF Nobody
  <2>5. QED
    BY <2>1, <2>2, <2>3, <2>4 DEF Seasons
<1>5. ASSUME NEW a \in Accounts, NEW p \in Payments, RedeemShares(a, p) PROVE Seasons'
  <2>1. now' = now /\ now > MATURITY /\ sweptOf' = sweptOf /\ forfeitPaid' = forfeitPaid
    BY <1>5 DEF RedeemShares, sweeps
  <2>2. RedeemedTo(a)
    BY <1>5, RedeemPrincipal
  <2>3. QED
    BY <1>1, <2>1, <2>2 DEF Seasons, RedeemedTo
<1>6. ASSUME NEW a \in Accounts, NEW p \in Payments, SweepExpired(a, p) PROVE Seasons'
  <2>1. /\ now' = now /\ now > CLAIM_DEADLINE
        /\ redeemedShares' = redeemedShares /\ depositedShares' = depositedShares
    BY <1>6 DEF SweepExpired, principal
  <2>2. ~ (now' <= MATURITY) /\ ~ (now' <= CLAIM_DEADLINE)
    BY <1>1, <2>1
  <2>3. QED
    BY <2>1, <2>2 DEF Seasons
<1>7. ASSUME NEW a \in Accounts, NEW p \in Payments, ClaimLockedReward(a, p) PROVE Seasons'
  BY <1>1, <1>3, <1>7 DEF ClaimLockedReward, principal, sweeps
<1>8. ASSUME NEW a \in Accounts, Claim(a) PROVE Seasons'
  <2>1. paid'.post = paid.post
    BY <1>8 DEF Claim, WrapTyped
  <2>2. now' = now /\ post' = post /\ Rest
    BY <1>8 DEF Claim, principal, sweeps
  <2>3. QED
    BY <1>1, <1>2, <2>1, <2>2
<1>9. ASSUME NEW n \in Payments, RewardArrives(n) \/ Harvest(n) PROVE Seasons'
  BY <1>1, <1>2, <1>9 DEF RewardArrives, Harvest, principal, sweeps
<1>10. ASSUME NEW from \in Accounts, NEW to \in Accounts, NEW p \in Payments,
              NEW n \in 0..balanceOf[from], Transfer(from, to, n, p)
       PROVE  Seasons'
  BY <1>1, <1>2, <1>10 DEF Transfer, principal, sweeps
<1>11. ASSUME Tick PROVE Seasons'
  BY <1>1, <1>2, <1>11 DEF Tick, principal, sweeps
<1>12. ASSUME UNCHANGED vars PROVE Seasons'
  BY <1>1, <1>2, <1>12 DEF vars, principal, sweeps
<1>13. QED
  BY <1>4, <1>5, <1>6, <1>7, <1>8, <1>9, <1>10, <1>11, <1>12 DEF Next

(* A sweep hands out a depositor's part of the forfeited coupons, floored.  *)
SweptTo(a, n) ==
    /\ n \in Nat \ {0} /\ sweptOf' = [sweptOf EXCEPT ![a] = @ + n] /\ forfeitPaid' = forfeitPaid + n
    /\ sweptOf' \in [Accounts -> Nat] /\ sweptOf'[a] * totalDeposited <= coupon'.reserve * Stakes[a]
    /\ totalDeposited \in Nat \ {0}

(* A sweep pays the part of the forfeited reserve not yet swept.            *)
LEMMA SweepFacts ==
    ASSUME WrapTyped, PrincipalHeld, NEW a \in Accounts, NEW p \in Nat, SweepExpired(a, p)
    PROVE  \E n \in Nat : SweptTo(a, n) /\ reward' = reward + p - n /\ n <= reward + p
<1> DEFINE r == SyncPost(p).coupon.reserve
           e == (r * Stakes[a]) \div totalDeposited
           n == e - sweptOf[a]
<1>1. SyncedTo(SyncPost(p), p)
  BY SyncFacts
<1>2. r \in Nat /\ coupon'.reserve = r
  BY <1>1 DEF SyncedTo, Buckets, SweepExpired
<1>3. Stakes[a] = depositedShares[a] + redeemedShares[a] /\ Stakes[a] \in Nat
      /\ Stakes[a] <= totalDeposited /\ totalDeposited \in Nat
  BY StakeTotals DEF WrapTyped
<1>4. /\ Stakes[a] # 0 /\ n > 0 /\ n <= reward + p /\ reward' = reward + p - n
      /\ sweptOf' = [sweptOf EXCEPT ![a] = e] /\ forfeitPaid' = forfeitPaid + n
  BY <1>3 DEF SweepExpired, Sweepable
<1>5. totalDeposited \in Nat \ {0}
  BY <1>3, <1>4
<1>6. e \in Nat /\ totalDeposited * e <= r * Stakes[a]
  <2> DEFINE q == r * Stakes[a]
  <2>1. q \in Nat
    BY <1>2, <1>3
  <2> HIDE DEF q
  <2>2. q \div totalDeposited \in Nat /\ totalDeposited * (q \div totalDeposited) <= q
    BY <1>5, <2>1, Division
  <2>3. QED
    BY <2>2 DEF q
<1> HIDE DEF r, e
<1>7. sweptOf \in [Accounts -> Nat] /\ reward \in Nat
  BY DEF WrapTyped
<1>8. n \in Nat \ {0} /\ sweptOf[a] + n = e
  BY <1>4, <1>6, <1>7
<1>9. sweptOf' = [sweptOf EXCEPT ![a] = @ + n] /\ sweptOf' \in [Accounts -> Nat] /\ sweptOf'[a] = e
  BY <1>4, <1>6, <1>7, <1>8
<1>10. e * totalDeposited = totalDeposited * e
  BY <1>3, <1>6
<1> HIDE DEF n
<1>11. SweptTo(a, n)
  BY <1>2, <1>4, <1>5, <1>6, <1>8, <1>9, <1>10 DEF SweptTo
<1>12. QED
  BY <1>4, <1>8, <1>11

(* No step takes an amount below zero.                                      *)
LEMMA TypedStep ==
    ASSUME WrapTyped, Seasons, PrincipalHeld, PostBacked, [Next]_vars
    PROVE  WrapTyped'
<1>1. Payments \subseteq Nat
  BY TermSetting
<1>2. coupon' \in Buckets /\ post' \in Buckets
  BY CouponStep, PostStep DEF CouponKept, PostKept
<1>3. CASE UNCHANGED vars
  BY <1>3 DEF vars, units, principal, sweeps, WrapTyped
<1>4. ASSUME NEW n \in Payments, RewardArrives(n) PROVE WrapTyped'
  BY <1>1, <1>2, <1>4 DEF RewardArrives, Pull, units, principal, sweeps, WrapTyped
<1>5. ASSUME NEW n \in Payments, Harvest(n) PROVE WrapTyped'
  BY <1>1, <1>2, <1>5 DEF Harvest, Pull, units, principal, sweeps, WrapTyped
<1>6. ASSUME NEW a \in Accounts, NEW p \in Payments, NEW n \in 1..shares[a], Deposit(a, n, p) PROVE WrapTyped'
  <2>1. DepositedTo(a, n) /\ n \in Nat
    BY <1>6, DepositPrincipal
  <2>2. /\ now' = now /\ redeemedShares' = redeemedShares /\ sweptOf' = sweptOf /\ forfeitPaid' = forfeitPaid
        /\ paid' = paid /\ reward' = reward + p /\ arrived' = arrived + p /\ totalSupply' = totalSupply + n
        /\ totalDeposited' = totalDeposited + n /\ totalLocked' = totalLocked + n
    BY <1>6 DEF Deposit, Pull, sweeps
  <2>3. QED
    BY <1>1, <1>2, <2>1, <2>2 DEF WrapTyped, DepositedTo
<1>7. ASSUME NEW from \in Accounts, NEW to \in Accounts, NEW p \in Payments,
             NEW n \in 0..balanceOf[from], Transfer(from, to, n, p)
      PROVE  WrapTyped'
  <2>1. balanceOf' \in [Accounts -> Nat]
    BY <1>1, <1>7, TransferCoupon
  <2>2. /\ UNCHANGED <<now, totalSupply, principal, sweeps, paid>>
        /\ reward' = reward + p /\ arrived' = arrived + p
    BY <1>7 DEF Transfer, Pull
  <2>3. QED
    BY <1>1, <1>2, <2>1, <2>2 DEF WrapTyped, principal, sweeps
<1>8. ASSUME NEW a \in Accounts, Claim(a) PROVE WrapTyped'
  <2>1. PICK n \in Nat : /\ n <= reward /\ reward' = reward - n
                         /\ paid' = [paid EXCEPT !.coupon[a] = @ + n]
    BY <1>8, ClaimCoupon
  <2>2. UNCHANGED <<now, units, principal, sweeps, arrived>>
    BY <1>8 DEF Claim
  <2>3. paid' \in [coupon : [Accounts -> Nat], post : [Accounts -> Nat]]
    BY <2>1 DEF WrapTyped
  <2>4. reward' \in Nat
    BY <2>1 DEF WrapTyped
  <2>5. QED
    BY <1>2, <2>2, <2>3, <2>4 DEF WrapTyped, units, principal, sweeps
<1>9. ASSUME NEW a \in Accounts, NEW p \in Payments, RedeemShares(a, p) PROVE WrapTyped'
  <2>1. RedeemedTo(a)
    BY <1>9, RedeemPrincipal
  <2>2. /\ UNCHANGED <<now, units, totalDeposited, sweeps, paid>>
        /\ reward' = reward + p /\ arrived' = arrived + p
    BY <1>9 DEF RedeemShares, Pull
  <2>3. QED
    BY <1>1, <1>2, <2>1, <2>2 DEF WrapTyped, units, sweeps, RedeemedTo
<1>10. ASSUME NEW a \in Accounts, NEW p \in Payments, ClaimLockedReward(a, p) PROVE WrapTyped'
  <2>1. PICK n \in Nat : /\ n <= reward + p /\ reward' = reward + p - n
                         /\ paid' = [paid EXCEPT !.post[a] = @ + n]
    BY <1>1, <1>10, ClaimPost
  <2>2. UNCHANGED <<now, units, principal, sweeps>> /\ arrived' = arrived + p
    BY <1>10 DEF ClaimLockedReward, Pull
  <2>3. paid' \in [coupon : [Accounts -> Nat], post : [Accounts -> Nat]]
    BY <2>1 DEF WrapTyped
  <2>4. reward' \in Nat
    BY <1>1, <2>1 DEF WrapTyped
  <2>5. QED
    BY <1>1, <1>2, <2>2, <2>3, <2>4 DEF WrapTyped, units, principal, sweeps
<1>11. ASSUME NEW a \in Accounts, NEW p \in Payments, SweepExpired(a, p) PROVE WrapTyped'
  <2>1. PICK n \in Nat : SweptTo(a, n) /\ reward' = reward + p - n /\ n <= reward + p
    BY <1>1, <1>11, SweepFacts
  <2>2. UNCHANGED <<now, units, principal, paid>> /\ arrived' = arrived + p
    BY <1>11 DEF SweepExpired, Pull
  <2>3. QED
    BY <1>1, <1>2, <2>1, <2>2 DEF WrapTyped, units, principal, SweptTo
<1>12. CASE Tick
  BY <1>2, <1>12 DEF Tick, units, principal, sweeps, WrapTyped
<1>13. QED
  BY <1>3, <1>4, <1>5, <1>6, <1>7, <1>8, <1>9, <1>10, <1>11, <1>12 DEF Next

----------------------------------------------------------------------------
(* Rewards: what is promised is there.                                      *)

Within == forfeitPaid <= coupon.reserve /\ Earmarked <= reward
ForfeitsShared ==
    /\ Total(sweptOf) = forfeitPaid
    /\ \A a \in Accounts : sweptOf[a] * totalDeposited <= coupon.reserve * Stakes[a]

(* RewardsCovered, as what is held and how the forfeits are shared.         *)
LEMMA CoveredParts ==
    ASSUME WrapTyped, PrincipalHeld, PostBacked
    PROVE  RewardsCovered <=> Within /\ ForfeitsShared
<1>1. BackedAt(post, depositedShares, paid.post, Total(depositedShares))
  BY PostBackedAt DEF PrincipalHeld
<1>2. post \in Buckets /\ depositedShares \in [Accounts -> Nat] /\ paid.post \in [Accounts -> Nat]
  BY DEF WrapTyped
<1>3. Total([a \in Accounts |-> Owed(post, depositedShares, a)]) <= post.reserve
  BY <1>1, <1>2, BackedCovers
<1>4. \A a \in Accounts : Stakes[a] = depositedShares[a] + redeemedShares[a]
  BY DEF Stakes
<1>5. QED
  BY <1>3, <1>4 DEF RewardsCovered, Within, ForfeitsShared

Scaled(h, k, f) == \A a \in Accounts : h[a] = k * f[a]

(* Scaled accounts have a scaled total.                                     *)
LEMMA ScaledTotal ==
    ASSUME NEW f \in [Accounts -> Int], NEW h \in [Accounts -> Int], NEW k \in Int, Scaled(h, k, f)
    PROVE  Total(h) = k * Total(f)
  BY TotalScale, TermSetting DEF Scaled

(* What everyone's part of a reserve adds up to is no more than it. *)
LEMMA PartsFit ==
    ASSUME NEW f \in [Accounts -> Nat], NEW g \in [Accounts -> Nat], NEW r \in Nat,
           NEW t \in Nat \ {0}, t = Total(g), \A a \in Accounts : f[a] * t <= r * g[a]
    PROVE  Total(f) <= r
<1> DEFINE x == [a \in Accounts |-> t * f[a]]
           y == [a \in Accounts |-> r * g[a]]
<1>1. /\ x \in [Accounts -> Int] /\ y \in [Accounts -> Int] /\ IsFiniteSet(Accounts)
      /\ f \in [Accounts -> Int] /\ g \in [Accounts -> Int] /\ t \in Int /\ r \in Int
  BY TermSetting
<1>2. \A a \in Accounts : x[a] = t * f[a] /\ y[a] = r * g[a]
  OBVIOUS
<1>3. \A a \in Accounts : x[a] <= y[a]
  <2>1. ASSUME NEW a \in Accounts PROVE x[a] <= y[a]
    <3>1. f[a] \in Nat /\ f[a] * t = t * f[a] /\ f[a] * t <= r * g[a]
      OBVIOUS
    <3>2. QED
      BY <1>2, <3>1
  <2>2. QED
    BY <2>1
<1> HIDE DEF x, y
<1>4. Total(x) = t * Total(f) /\ Total(y) = r * Total(g)
  <2>0. Scaled(x, t, f) /\ Scaled(y, r, g)
    BY <1>2 DEF Scaled
  <2>1. Total(x) = t * Total(f)
    BY <1>1, <2>0, ScaledTotal
  <2>2. Total(y) = r * Total(g)
    BY <1>1, <2>0, ScaledTotal
  <2>3. QED
    BY <2>1, <2>2
<1>5. Total(x) <= Total(y)
  BY <1>1, <1>3, TotalMonotone
<1>6. Total(f) \in Int
  BY <1>1, TotalType
<1> DEFINE u == Total(f)
<1>7. u \in Int /\ t * u <= t * r
  BY <1>4, <1>5, <1>6
<1>8. u <= r
  <2> HIDE DEF u
  <2>1. QED
    BY <1>7
<1>9. QED
  BY <1>8

(* With the reserves at the new amounts, the earmarked reward is their sum. *)
LEMMA EarmarkedAfter ==
    ASSUME coupon' \in Buckets, post' \in Buckets, forfeitPaid' \in Nat, forfeitPaid' <= coupon'.reserve
    PROVE  Earmarked' = coupon'.reserve - forfeitPaid' + post'.reserve
<1>1. coupon'.reserve \in Nat /\ post'.reserve \in Nat
  BY DEF Buckets
<1>2. QED
  BY <1>1 DEF Earmarked

(* The earmarked reward is the sum of the reserves.                         *)
LEMMA EarmarkedNow ==
    ASSUME WrapTyped, Within
    PROVE  /\ Earmarked = coupon.reserve - forfeitPaid + post.reserve
           /\ coupon.reserve \in Nat /\ post.reserve \in Nat /\ forfeitPaid \in Nat /\ reward \in Nat
<1>1. coupon.reserve \in Nat /\ post.reserve \in Nat /\ forfeitPaid \in Nat /\ reward \in Nat
  BY DEF WrapTyped, Buckets
<1>2. QED
  BY <1>1 DEF Earmarked, Within

(* Before the deadline nothing is swept. *)
LEMMA UnsweptShared ==
    ASSUME WrapTyped', sweptOf' = Nobody, forfeitPaid' = 0
    PROVE  ForfeitsShared'
<1>1. Total(Nobody) = 0
  BY TotalZero, TermSetting DEF Nobody
<1>2. \A a \in Accounts : sweptOf'[a] = 0 /\ Stakes'[a] \in Nat
  BY DEF Nobody, Stakes, WrapTyped
<1>3. coupon'.reserve \in Nat /\ totalDeposited' \in Nat
  BY DEF WrapTyped, Buckets
<1>4. \A a \in Accounts : sweptOf'[a] * totalDeposited' = 0 /\ coupon'.reserve * Stakes'[a] \in Nat
  BY <1>2, <1>3
<1>5. \A a \in Accounts : sweptOf'[a] * totalDeposited' <= coupon'.reserve * Stakes'[a]
  BY <1>4
<1>6. QED
  BY <1>1, <1>5 DEF ForfeitsShared

(* A larger reserve keeps every part covered. *)
LEMMA LargerShared ==
    ASSUME WrapTyped, ForfeitsShared, coupon' \in Buckets, coupon.reserve <= coupon'.reserve,
           sweptOf' = sweptOf, forfeitPaid' = forfeitPaid, Stakes' = Stakes, totalDeposited' = totalDeposited
    PROVE  ForfeitsShared'
<1>1. ASSUME NEW a \in Accounts PROVE sweptOf[a] * totalDeposited <= coupon'.reserve * Stakes[a]
  <2> DEFINE r == coupon.reserve
             s == coupon'.reserve
             k == Stakes[a]
             m == sweptOf[a] * totalDeposited
  <2>1. r \in Nat /\ s \in Nat /\ k \in Nat /\ r <= s /\ m \in Nat
    BY DEF WrapTyped, Buckets, Stakes
  <2>2. m <= r * k
    BY DEF ForfeitsShared
  <2> HIDE DEF r, s, k, m
  <2>3. k * r <= k * s /\ k * r = r * k /\ k * s = s * k /\ k * r \in Nat /\ k * s \in Nat
    BY <2>1, ProductMonotone
  <2>4. m <= s * k
    BY <2>1, <2>2, <2>3
  <2>5. QED
    BY <2>4 DEF s, k, m
<1>2. QED
  BY <1>1 DEF ForfeitsShared

CoveredNext == Within' /\ ForfeitsShared'

(* In term what arrives goes to the coupons or waits.                       *)
LEMMA InTermCovered ==
    ASSUME WrapTyped, Within, WrapTyped', NEW p \in Nat, reward' = reward + p, post'.reserve = post.reserve,
           coupon'.reserve = coupon.reserve \/ coupon'.reserve = coupon.reserve + Received(p),
           forfeitPaid' = forfeitPaid
    PROVE  Within' /\ coupon.reserve <= coupon'.reserve
<1>1. /\ Earmarked = coupon.reserve - forfeitPaid + post.reserve
      /\ coupon.reserve \in Nat /\ post.reserve \in Nat /\ forfeitPaid \in Nat /\ reward \in Nat
  BY EarmarkedNow
<1>2. Received(p) \in Nat /\ Earmarked + Received(p) = reward + p
  BY ReceivedFacts DEF Within
<1>3. forfeitPaid' <= coupon'.reserve /\ coupon.reserve <= coupon'.reserve
  BY <1>1, <1>2 DEF Within
<1>4. Earmarked' = coupon'.reserve - forfeitPaid' + post'.reserve
  BY <1>3, EarmarkedAfter DEF WrapTyped
<1>5. QED
  BY <1>1, <1>2, <1>3, <1>4 DEF Within

(* After a settlement everything held is spoken for. *)
SettledNext == Within' /\ reward' = Earmarked'

(* After maturity a settlement leaves nothing held that is not earmarked.   *)
LEMMA SettlesExactly ==
    ASSUME WrapTyped, Within, WrapTyped', NEW p \in Nat, NEW n \in Nat, NEW m \in Nat,
           coupon'.reserve = SyncPost(p).coupon.reserve, post'.reserve = SyncPost(p).post.reserve - n,
           forfeitPaid' = forfeitPaid + m, forfeitPaid' <= coupon'.reserve, reward' = reward + p - n - m
    PROVE  SettledNext
<1>1. /\ Earmarked = coupon.reserve - forfeitPaid + post.reserve
      /\ coupon.reserve \in Nat /\ post.reserve \in Nat /\ forfeitPaid \in Nat /\ reward \in Nat
  BY EarmarkedNow
<1>2. Received(p) \in Nat /\ Earmarked + Received(p) = reward + p
  BY ReceivedFacts DEF Within
<1>3. SyncedTo(SyncPost(p), p)
  BY SyncFacts
<1>4. SyncPost(p).coupon.reserve + SyncPost(p).post.reserve = coupon.reserve + post.reserve + Received(p)
      /\ SyncPost(p).coupon.reserve \in Nat /\ SyncPost(p).post.reserve \in Nat
  BY <1>1, <1>2, <1>3 DEF SyncedTo, Buckets
<1>5. Earmarked' = coupon'.reserve - forfeitPaid' + post'.reserve
  BY EarmarkedAfter DEF WrapTyped
<1>6. reward' = Earmarked'
  <2> DEFINE c == SyncPost(p).coupon.reserve
             d == SyncPost(p).post.reserve
             v == Received(p)
  <2>1. /\ c \in Nat /\ d \in Nat /\ v \in Nat /\ c + d = coupon.reserve + post.reserve + v
        /\ coupon.reserve - forfeitPaid + post.reserve + v = reward + p
        /\ Earmarked' = c - (forfeitPaid + m) + (d - n)
    BY <1>1, <1>2, <1>4, <1>5
  <2> HIDE DEF c, d, v
  <2>2. reward + p - n - m = c - (forfeitPaid + m) + (d - n)
    BY <1>1, <2>1
  <2>3. QED
    BY <2>1, <2>2
<1>7. reward' \in Nat
  BY DEF WrapTyped
<1>8. QED
  BY <1>6, <1>7 DEF SettledNext, Within

(* A sweep pays no more than the sweeper's part.                            *)
LEMMA SweepCovered ==
    ASSUME WrapTyped, Within, ForfeitsShared, PrincipalHeld, WrapTyped', NEW a \in Accounts, NEW p \in Nat,
           SweepExpired(a, p)
    PROVE  SettledNext /\ ForfeitsShared'
<1>1. PICK n \in Nat : SweptTo(a, n) /\ reward' = reward + p - n /\ n <= reward + p
  BY SweepFacts
<1>2. /\ coupon' = SyncPost(p).coupon /\ post' = SyncPost(p).post
      /\ depositedShares' = depositedShares /\ redeemedShares' = redeemedShares
      /\ totalDeposited' = totalDeposited
  BY DEF SweepExpired, principal
<1>3. Stakes' = Stakes
  BY <1>2 DEF Stakes
<1>4. Total(sweptOf') = forfeitPaid'
  <2>1. n \in Int /\ sweptOf \in [Accounts -> Nat] /\ Added(sweptOf, a, n, sweptOf')
    BY <1>1 DEF WrapTyped, SweptTo, Added
  <2>2. Total(sweptOf') = Total(sweptOf) + n
    BY <2>1, TotalAdd
  <2>3. QED
    BY <1>1, <2>2 DEF ForfeitsShared, SweptTo
<1>5. SyncedTo(SyncPost(p), p)
  BY SyncFacts
<1>6. /\ coupon.reserve \in Nat /\ coupon'.reserve \in Nat /\ coupon.reserve <= coupon'.reserve
  BY <1>2, <1>5, ReceivedFacts DEF SyncedTo, WrapTyped, Buckets
<1>7. ASSUME NEW x \in Accounts PROVE sweptOf'[x] * totalDeposited <= coupon'.reserve * Stakes[x]
  <2>1. CASE x = a
    BY <1>1, <2>1 DEF SweptTo
  <2>2. CASE x # a
    <3> DEFINE r == coupon.reserve
               s == coupon'.reserve
               k == Stakes[x]
               m == sweptOf[x] * totalDeposited
    <3>1. sweptOf'[x] = sweptOf[x]
      BY <1>1, <2>2 DEF SweptTo, WrapTyped
    <3>2. r \in Nat /\ s \in Nat /\ k \in Nat /\ r <= s /\ m \in Nat
      BY <1>6 DEF WrapTyped, Stakes
    <3>3. m <= r * k
      BY DEF ForfeitsShared
    <3> HIDE DEF r, s, k, m
    <3>4. k * r <= k * s /\ k * r = r * k /\ k * s = s * k /\ k * r \in Nat /\ k * s \in Nat
      BY <3>2, ProductMonotone
    <3>5. m <= s * k
      BY <3>2, <3>3, <3>4
    <3>6. QED
      BY <3>1, <3>5 DEF s, k, m
  <2>3. QED
    BY <2>1, <2>2
<1>8. ForfeitsShared'
  BY <1>2, <1>3, <1>4, <1>7 DEF ForfeitsShared
<1>9. forfeitPaid' <= coupon'.reserve
  <2>1. sweptOf' \in [Accounts -> Nat] /\ Stakes \in [Accounts -> Nat] /\ totalDeposited \in Nat \ {0}
        /\ totalDeposited = Total(Stakes)
    BY <1>1, StakeTotals DEF SweptTo
  <2>2. Total(sweptOf') <= coupon'.reserve
    BY <1>6, <1>7, <2>1, PartsFit
  <2>3. QED
    BY <1>4, <2>2
<1>10. SettledNext
  <2>1. /\ post'.reserve = SyncPost(p).post.reserve - 0 /\ reward' = reward + p - 0 - n
        /\ coupon'.reserve = SyncPost(p).coupon.reserve /\ forfeitPaid' = forfeitPaid + n
    BY <1>1, <1>2, <1>5 DEF SweptTo, SyncedTo, WrapTyped, Buckets
  <2>2. QED
    BY <1>9, <2>1, SettlesExactly
<1>11. QED
  BY <1>8, <1>10

(* A harvest earmarks no more than arrived.                                 *)
LEMMA HarvestCovered ==
    ASSUME WrapTyped, Seasons, Within, ForfeitsShared, WrapTyped', NEW p \in Nat, now <= MATURITY,
           sweptOf' = sweptOf, forfeitPaid' = forfeitPaid, reward' = reward + p,
           coupon'.reserve = HarvestAndSync(p).reserve, post'.reserve = post.reserve
    PROVE  CoveredNext
<1>1. HarvestedTo(p, HarvestAndSync(p))
  BY HarvestFacts
<1>2. coupon.reserve \in Nat /\ Received(p) \in Nat
  BY ReceivedFacts DEF WrapTyped, Buckets
<1>3. coupon'.reserve = coupon.reserve \/ coupon'.reserve = coupon.reserve + Received(p)
  BY <1>1, <1>2 DEF HarvestedTo
<1>4. Within'
  BY <1>3, InTermCovered
<1>5. sweptOf = Nobody /\ forfeitPaid = 0
  BY TermSetting DEF Seasons, WrapTyped
<1>6. ForfeitsShared'
  BY <1>5, UnsweptShared
<1>7. QED
  BY <1>4, <1>6 DEF CoveredNext

(* A deposit leaves in reserve what its harvest put there.                  *)
LEMMA DepositReserve ==
    ASSUME WrapTyped, WrapTyped', NEW a \in Accounts, NEW n \in Nat, NEW p \in Nat, Deposit(a, n, p)
    PROVE  coupon'.reserve = HarvestAndSync(p).reserve
<1> DEFINE before == HarvestAndSync(p)
           cp == Checkpoint(before, balanceOf, a)
<1>1. Settles(before, balanceOf, a) /\ coupon' = Rebase(cp, balanceOf', a)
  BY DEF Deposit
<1>2. HarvestedTo(p, before)
  BY HarvestFacts
<1> HIDE DEF before
<1>3. before \in Buckets /\ balanceOf \in [Accounts -> Nat] /\ balanceOf' \in [Accounts -> Nat]
  BY <1>2 DEF HarvestedTo, WrapTyped
<1>4. CheckpointedTo(before, balanceOf, a, cp)
  BY <1>1, <1>3, CheckpointFacts
<1> HIDE DEF cp
<1>5. cp \in Buckets /\ cp.debt[a] = Floor(balanceOf[a], cp.cum) /\ cp.reserve = before.reserve
  BY <1>3, <1>4 DEF CheckpointedTo, Buckets
<1>6. RebasedTo(cp, balanceOf, balanceOf', a, coupon')
  BY <1>1, <1>3, <1>5, RebaseFacts
<1>7. QED
  BY <1>5, <1>6 DEF RebasedTo, before

(* A deposit harvests, and moves no reward.                                 *)
LEMMA DepositCovered ==
    ASSUME WrapTyped, Seasons, Within, ForfeitsShared, WrapTyped',
           NEW a \in Accounts, NEW n \in Nat, NEW p \in Nat, Deposit(a, n, p)
    PROVE  CoveredNext
<1>1. /\ now < DEPOSIT_UNTIL /\ now <= MATURITY /\ sweptOf' = sweptOf /\ forfeitPaid' = forfeitPaid
      /\ reward' = reward + p
  BY TermSetting DEF Deposit, Pull, sweeps, WrapTyped
<1>2. post' = EmptyBucket /\ post = EmptyBucket
  BY <1>1, DepositPost DEF Seasons
<1>3. QED
  BY <1>1, <1>2, DepositReserve, HarvestCovered

(* Rewards that merely arrive are covered.                                  *)
LEMMA StillCovered ==
    ASSUME WrapTyped, Within, ForfeitsShared, WrapTyped', NEW p \in Nat, reward' = reward + p,
           coupon'.reserve = coupon.reserve, post'.reserve = post.reserve,
           UNCHANGED <<sweeps, depositedShares, redeemedShares, totalDeposited>>
    PROVE  CoveredNext
<1>1. sweptOf' = sweptOf /\ forfeitPaid' = forfeitPaid /\ totalDeposited' = totalDeposited /\ Stakes' = Stakes
  BY DEF sweeps, Stakes
<1>2. Within' /\ coupon.reserve <= coupon'.reserve
  BY <1>1, InTermCovered
<1>3. ForfeitsShared'
  BY <1>1, <1>2, LargerShared DEF WrapTyped
<1>4. QED
  BY <1>2, <1>3 DEF CoveredNext

(* A sale leaves in reserve what its accrual put there.                     *)
LEMMA TransferReserve ==
    ASSUME WrapTyped, NEW from \in Accounts, NEW to \in Accounts, NEW n \in Nat, NEW p \in Nat,
           Transfer(from, to, n, p)
    PROVE  coupon'.reserve = AccrualOnTransfer(p).reserve
<1> DEFINE before == AccrualOnTransfer(p)
           moved == Moved(balanceOf, from, to, n)
<1>1. /\ n <= balanceOf[from] /\ Settles(before, balanceOf, from) /\ Settles(before, balanceOf, to)
      /\ coupon' = Handed(before, balanceOf, moved, from, to)
  BY DEF Transfer, Moved, Handed
<1>2. before \in Buckets
  BY HarvestFacts DEF AccrualOnTransfer, HarvestedTo, WrapTyped
<1> HIDE DEF before, moved
<1>3. HandedOverTo(before, balanceOf, moved, coupon')
  BY <1>1, <1>2, TransferFacts DEF WrapTyped, moved
<1>4. QED
  BY <1>3 DEF HandedOverTo, before

(* A sale harvests in term, and moves no reward.                            *)
LEMMA TransferCovered ==
    ASSUME WrapTyped, Seasons, Within, ForfeitsShared, WrapTyped',
           NEW from \in Accounts, NEW to \in Accounts, NEW n \in Nat, NEW p \in Nat, Transfer(from, to, n, p)
    PROVE  CoveredNext
<1>1. /\ post' = post /\ sweptOf' = sweptOf /\ forfeitPaid' = forfeitPaid
      /\ UNCHANGED <<sweeps, depositedShares, redeemedShares, totalDeposited>>
      /\ reward' = reward + p /\ (now > MATURITY => p = 0)
  BY DEF Transfer, Pull, principal, sweeps
<1>2. coupon'.reserve = AccrualOnTransfer(p).reserve
  BY TransferReserve
<1>3. CASE now <= MATURITY
  BY <1>1, <1>2, <1>3, HarvestCovered DEF AccrualOnTransfer
<1>4. CASE ~ (now <= MATURITY)
  BY <1>1, <1>2, <1>4, StillCovered DEF AccrualOnTransfer
<1>5. QED
  BY <1>3, <1>4

(* A coupon claim pays what it takes from the reserve.                      *)
LEMMA ClaimCovered ==
    ASSUME WrapTyped, Seasons, Within, ForfeitsShared, WrapTyped', NEW a \in Accounts, Claim(a)
    PROVE  CoveredNext
<1>1. PICK n \in Nat : /\ n <= coupon.reserve /\ coupon'.reserve = coupon.reserve - n
                       /\ n <= reward /\ reward' = reward - n
  BY ClaimCoupon
<1>2. now <= CLAIM_DEADLINE /\ post' = post /\ sweptOf' = sweptOf /\ forfeitPaid' = forfeitPaid
  BY DEF Claim, sweeps
<1>3. sweptOf = Nobody /\ forfeitPaid = 0
  BY <1>2 DEF Seasons
<1>4. ForfeitsShared'
  BY <1>2, <1>3, UnsweptShared
<1>5. /\ Earmarked = coupon.reserve - forfeitPaid + post.reserve
      /\ coupon.reserve \in Nat /\ post.reserve \in Nat /\ reward \in Nat
  BY EarmarkedNow
<1>6. forfeitPaid' <= coupon'.reserve /\ coupon'.reserve \in Nat
  BY <1>1, <1>2, <1>3, <1>5
<1>7. Earmarked' = coupon'.reserve - forfeitPaid' + post'.reserve
  BY <1>6, EarmarkedAfter DEF WrapTyped
<1>8. Earmarked' <= reward'
  BY <1>1, <1>2, <1>3, <1>5, <1>7 DEF Within
<1>9. QED
  BY <1>4, <1>6, <1>8 DEF CoveredNext, Within

(* After maturity a redemption or a claim settles everything held. *)
LEMMA RedeemCovered ==
    ASSUME WrapTyped, Seasons, PrincipalHeld, Within, ForfeitsShared, WrapTyped',
           NEW a \in Accounts, NEW p \in Nat, RedeemShares(a, p)
    PROVE  SettledNext /\ ForfeitsShared'
<1>1. /\ coupon' = SyncPost(p).coupon /\ post' = ExitSettled(SyncPost(p).post, a)
      /\ Settles(SyncPost(p).post, depositedShares, a) /\ reward' = reward + p
      /\ sweptOf' = sweptOf /\ forfeitPaid' = forfeitPaid /\ totalDeposited' = totalDeposited
  BY DEF RedeemShares, sweeps
<1>2. SyncedTo(SyncPost(p), p)
  BY SyncFacts
<1>3. SyncPost(p).post \in Buckets /\ depositedShares \in [Accounts -> Nat]
  BY <1>2 DEF SyncedTo, WrapTyped
<1>4. ExitedTo(SyncPost(p).post, depositedShares, a, post')
  BY <1>1, <1>3, ExitFacts
<1>5. post'.reserve = SyncPost(p).post.reserve - 0
  BY <1>3, <1>4 DEF ExitedTo, Buckets
<1>6. coupon.reserve \in Nat /\ coupon.reserve <= coupon'.reserve /\ forfeitPaid' <= coupon'.reserve
      /\ coupon'.reserve \in Nat
  <2>1. /\ coupon.reserve \in Nat /\ forfeitPaid \in Nat /\ Received(p) \in Nat
        /\ forfeitPaid <= coupon.reserve /\ coupon'.reserve \in Nat
    BY ReceivedFacts DEF WrapTyped, Buckets, Within
  <2>2. coupon'.reserve = coupon.reserve \/ coupon'.reserve = coupon.reserve + Received(p)
    BY <1>1, <1>2, <2>1 DEF SyncedTo
  <2>3. QED
    BY <1>1, <2>1, <2>2
<1>7. reward' = reward + p - 0 - 0 /\ forfeitPaid' = forfeitPaid + 0
  BY <1>1 DEF WrapTyped
<1>8. SettledNext
  BY <1>1, <1>5, <1>6, <1>7, SettlesExactly
<1>9. Stakes' = Stakes
  BY RedeemPrincipal DEF RedeemedTo
<1>10. ForfeitsShared'
  BY <1>1, <1>6, <1>9, LargerShared DEF WrapTyped
<1>11. QED
  BY <1>8, <1>10

(* A claim after maturity settles everything held, too.                     *)
LEMMA ClaimLockedCovered ==
    ASSUME WrapTyped, Within, ForfeitsShared, PostBacked, WrapTyped',
           NEW a \in Accounts, NEW p \in Nat, ClaimLockedReward(a, p)
    PROVE  SettledNext /\ ForfeitsShared'
<1>1. PICK n \in Nat : n <= reward + p /\ post'.reserve = SyncPost(p).post.reserve - n /\ reward' = reward + p - n
  BY ClaimPost
<1>2. /\ coupon' = SyncPost(p).coupon /\ sweptOf' = sweptOf /\ forfeitPaid' = forfeitPaid
      /\ totalDeposited' = totalDeposited /\ Stakes' = Stakes
  BY DEF ClaimLockedReward, sweeps, principal, Stakes
<1>3. SyncedTo(SyncPost(p), p)
  BY SyncFacts
<1>4. coupon.reserve \in Nat /\ coupon.reserve <= coupon'.reserve /\ forfeitPaid' <= coupon'.reserve
      /\ coupon'.reserve \in Nat
  BY <1>2, <1>3, ReceivedFacts DEF SyncedTo, WrapTyped, Buckets, Within
<1>5. reward' = reward + p - n - 0 /\ forfeitPaid' = forfeitPaid + 0
  BY <1>1, <1>2 DEF WrapTyped
<1>6. SettledNext
  BY <1>1, <1>2, <1>4, <1>5, SettlesExactly
<1>7. ForfeitsShared'
  BY <1>2, <1>4, LargerShared DEF WrapTyped
<1>8. QED
  BY <1>6, <1>7

(* No step leaves a reserve without its tokens.                             *)
LEMMA CoveredStep ==
    ASSUME WrapTyped, Seasons, PrincipalHeld, PostBacked, Within, ForfeitsShared, WrapTyped', [Next]_vars
    PROVE  CoveredNext
<1>1. Payments \subseteq Nat /\ reward \in Nat /\ 0 \in Nat
  BY TermSetting DEF WrapTyped
<1>2. ASSUME UNCHANGED vars \/ Tick PROVE CoveredNext
  <2>1. reward' = reward + 0 /\ coupon' = coupon /\ post' = post
        /\ UNCHANGED <<sweeps, depositedShares, redeemedShares, totalDeposited>>
    BY <1>1, <1>2 DEF Tick, vars, sweeps, principal
  <2>2. QED
    BY <1>1, <2>1, StillCovered
<1>3. ASSUME NEW n \in Payments, RewardArrives(n) PROVE CoveredNext
  BY <1>1, <1>3, StillCovered DEF RewardArrives, principal
<1>4. ASSUME NEW n \in Payments, Harvest(n) PROVE CoveredNext
  BY <1>1, <1>4, HarvestCovered DEF Harvest, sweeps
<1>5. ASSUME NEW a \in Accounts, NEW p \in Payments, NEW n \in 1..shares[a], Deposit(a, n, p) PROVE CoveredNext
  BY <1>1, <1>5, DepositCovered
<1>6. ASSUME NEW from \in Accounts, NEW to \in Accounts, NEW p \in Payments,
             NEW n \in 0..balanceOf[from], Transfer(from, to, n, p)
      PROVE  CoveredNext
  BY <1>1, <1>6, TransferCovered
<1>7. ASSUME NEW a \in Accounts, Claim(a) PROVE CoveredNext
  BY <1>7, ClaimCovered
<1>8. ASSUME NEW a \in Accounts, NEW p \in Payments, RedeemShares(a, p) PROVE CoveredNext
  BY <1>1, <1>8, RedeemCovered DEF SettledNext, CoveredNext
<1>9. ASSUME NEW a \in Accounts, NEW p \in Payments, ClaimLockedReward(a, p) PROVE CoveredNext
  BY <1>1, <1>9, ClaimLockedCovered DEF SettledNext, CoveredNext
<1>10. ASSUME NEW a \in Accounts, NEW p \in Payments, SweepExpired(a, p) PROVE CoveredNext
  BY <1>1, <1>10, SweepCovered DEF SettledNext, CoveredNext
<1>11. QED
  BY <1>2, <1>3, <1>4, <1>5, <1>6, <1>7, <1>8, <1>9, <1>10 DEF Next

----------------------------------------------------------------------------
(* The wrapper's promises.                                                  *)

WrapSafe == WrapTyped /\ Seasons /\ PrincipalHeld /\ PostBacked /\ Within /\ ForfeitsShared

(* The wrapper begins empty.                                                *)
LEMMA WrapInit == Init => WrapInv
<1> SUFFICES ASSUME Init PROVE WrapInv
  OBVIOUS
<1>1. /\ Nobody \in [Accounts -> Nat] /\ \A a \in Accounts : Nobody[a] = 0
  BY DEF Nobody
<1>2. WrapTyped
  <2>1. \A h \in Accounts \cup {Wrap} : (IF h = Wrap THEN 0 ELSE Purse[h]) \in Nat
    BY TermSetting
  <2>2. shares \in [Accounts \cup {Wrap} -> Nat]
    BY <2>1 DEF Init
  <2>3. QED
    BY <1>1, <2>2, EmptyFacts DEF Init, WrapTyped
<1>3. Seasons
  BY <1>1 DEF Init, Seasons
<1>4. Total(Nobody) = 0
  BY TotalZero, TermSetting DEF Nobody
<1>5. PrincipalHeld
  <2>1. [a \in Accounts |-> depositedShares[a] + redeemedShares[a]] = Nobody
    BY DEF Init, Nobody
  <2>2. shares[Wrap] = 0
    BY DEF Init
  <2>3. QED
    BY <1>4, <2>1, <2>2 DEF Init, PrincipalHeld
<1>6. PostBacked
  <2>1. BackedAt(EmptyBucket, Nobody, Nobody, 0)
    BY <1>1, EmptyFacts
  <2>2. QED
    BY <2>1, PostBackedAt DEF Init
<1>7. Within
  BY DEF Init, Within, Earmarked, EmptyBucket
<1>8. ForfeitsShared
  <2>1. \A a \in Accounts : Stakes[a] \in Nat /\ sweptOf[a] = 0
    BY <1>1, <1>2 DEF Init, Stakes, WrapTyped
  <2>2. totalDeposited = 0 /\ coupon.reserve = 0 /\ Total(sweptOf) = 0 /\ forfeitPaid = 0
    BY <1>4 DEF Init, EmptyBucket
  <2>3. \A a \in Accounts : sweptOf[a] * totalDeposited <= coupon.reserve * Stakes[a]
    BY <2>1, <2>2
  <2>4. QED
    BY <2>2, <2>3 DEF ForfeitsShared
<1>9. RewardsCovered
  BY <1>2, <1>5, <1>6, <1>7, <1>8, CoveredParts
<1>10. QED
  BY <1>2, <1>3, <1>5, <1>6, <1>9 DEF WrapInv

(* Every step keeps the whole invariant and nobody's earnings shrink.       *)
LEMMA WrapStep ==
    ASSUME WrapInv, [Next]_vars
    PROVE  WrapInv' /\ CouponKept /\ PostKept
<1>1. WrapTyped /\ Seasons /\ PrincipalHeld /\ PostBacked /\ Within /\ ForfeitsShared
  BY CoveredParts DEF WrapInv
<1>2. WrapTyped' /\ Seasons' /\ PrincipalHeld' /\ PostBacked' /\ CouponKept /\ PostKept
  BY <1>1, TypedStep, SeasonsStep, PrincipalStep, PostStep, CouponStep
<1>3. Within' /\ ForfeitsShared'
  BY <1>1, <1>2, CoveredStep DEF CoveredNext
<1>4. WrapTyped' /\ PrincipalHeld' /\ PostBacked' => (RewardsCovered' <=> Within' /\ ForfeitsShared')
  BY CoveredParts, PTL
<1>5. QED
  BY <1>2, <1>3, <1>4 DEF WrapInv

(* Whatever deposits, sales, claims, redemptions, sweeps, donations and     *)
(* outages of the vault follow each other, the wrapper's books hold.        *)
THEOREM WrapInvariant == Spec => []WrapInv
<1>1. WrapInv /\ [Next]_vars => WrapInv'
  BY WrapStep
<1>2. QED
  BY WrapInit, <1>1, PTL DEF Spec

(* The fee shares held are the principal of those still locked, and every   *)
(* wrapped unit stands for a deposit, redeemed or not.                      *)
THEOREM PrincipalTheorem == Spec => []PrincipalHeld
<1>1. WrapInv => PrincipalHeld
  BY DEF WrapInv
<1>2. QED
  BY WrapInvariant, <1>1, PTL

(* The balance covers both reserves, the second reserve covers what every   *)
(* depositor may still claim, and the sweeps share no more than was         *)
(* forfeited: for any number of accounts and any rounding of the rates.     *)
THEOREM RewardsTheorem == Spec => []RewardsCovered
<1>1. WrapInv => RewardsCovered
  BY DEF WrapInv
<1>2. QED
  BY WrapInvariant, <1>1, PTL

(* No transaction of anyone lowers what an account has earned from either   *)
(* epoch, paid out or still owed.                                           *)
THEOREM EarningsTheorem == Spec => EarningsKept
<1>1. WrapInv /\ [Next]_vars => [\A a \in Accounts : /\ CouponEarned(a)' >= CouponEarned(a)
                                                     /\ PostEarned(a)' >= PostEarned(a)]_vars
  BY WrapStep DEF CouponKept, PostKept
<1>2. QED
  BY WrapInvariant, <1>1, PTL DEF Spec, EarningsKept

(* After maturity only three actions pay from the second bucket, sweep or   *)
(* redeem, and each leaves every token held spoken for.                     *)
LEMMA SettledStep ==
    ASSUME WrapInv, [Next]_vars, now > MATURITY,
           paid'.post # paid.post \/ forfeitPaid' # forfeitPaid \/ redeemedShares' # redeemedShares
    PROVE  reward' = Earmarked'
<1>1. /\ WrapTyped /\ Seasons /\ PrincipalHeld /\ PostBacked /\ Within /\ ForfeitsShared
      /\ Payments \subseteq Nat /\ WrapTyped'
  BY WrapStep, CoveredParts, TermSetting DEF WrapInv
<1>2. ASSUME NEW a \in Accounts, NEW p \in Payments,
             RedeemShares(a, p) \/ ClaimLockedReward(a, p) \/ SweepExpired(a, p)
      PROVE  reward' = Earmarked'
  BY <1>1, <1>2, RedeemCovered, ClaimLockedCovered, SweepCovered DEF SettledNext
<1>3. ASSUME NEW n \in Payments PROVE ~ (RewardArrives(n) \/ Harvest(n))
  BY DEF RewardArrives, Harvest, principal, sweeps
<1>4. ASSUME NEW a \in Accounts, NEW n, NEW p PROVE ~ Deposit(a, n, p)
  BY DEF Deposit, sweeps
<1>5. ASSUME NEW from, NEW to, NEW n, NEW p PROVE ~ Transfer(from, to, n, p)
  BY DEF Transfer, principal, sweeps
<1>6. ASSUME NEW a \in Accounts PROVE ~ Claim(a)
  BY <1>1 DEF Claim, principal, sweeps, WrapTyped
<1>7. ~ Tick /\ ~ UNCHANGED vars
  BY DEF Tick, vars, principal, sweeps
<1>8. QED
  BY <1>2, <1>3, <1>4, <1>5, <1>6, <1>7 DEF Next

(* In term only a deposit and a sale move units, and once there is a unit   *)
(* each of them leaves every token held spoken for.                         *)
LEMMA FoldedStep ==
    ASSUME WrapInv, [Next]_vars, ~ (now > MATURITY), balanceOf' # balanceOf, totalSupply # 0
    PROVE  reward' = Earmarked'
<1>1. /\ WrapTyped /\ Seasons /\ Within /\ Payments \subseteq Nat /\ WrapTyped' /\ now <= MATURITY
  BY WrapStep, CoveredParts, TermSetting DEF WrapInv, WrapTyped
<1>2. ASSUME NEW p \in Payments, reward' = reward + p, post'.reserve = post.reserve,
             coupon'.reserve = HarvestAndSync(p).reserve, forfeitPaid' = forfeitPaid
      PROVE  reward' = Earmarked'
  <2>1. HarvestedTo(p, HarvestAndSync(p))
    BY <1>1, <1>2, HarvestFacts
  <2>2. coupon'.reserve = coupon.reserve + Received(p)
    BY <1>2, <2>1 DEF HarvestedTo
  <2>3. Received(p) \in Nat /\ Earmarked + Received(p) = reward + p
    BY <1>1, <1>2, ReceivedFacts DEF Within
  <2>4. /\ Earmarked = coupon.reserve - forfeitPaid + post.reserve
        /\ coupon.reserve \in Nat /\ post.reserve \in Nat /\ forfeitPaid \in Nat /\ reward \in Nat
    BY <1>1, EarmarkedNow
  <2>5. Earmarked' = coupon'.reserve - forfeitPaid' + post'.reserve
    BY <1>1, <1>2, <2>2, <2>3, <2>4, EarmarkedAfter DEF WrapTyped, Within
  <2>6. QED
    BY <1>2, <2>2, <2>3, <2>4, <2>5
<1>3. ASSUME NEW a \in Accounts, NEW p \in Payments, NEW n \in 1..shares[a], Deposit(a, n, p)
      PROVE  reward' = Earmarked'
  <2>1. n \in Nat /\ p \in Nat /\ reward' = reward + p /\ forfeitPaid' = forfeitPaid
    BY <1>1, <1>3 DEF Deposit, sweeps
  <2>2. coupon'.reserve = HarvestAndSync(p).reserve
    BY <1>1, <1>3, <2>1, DepositReserve
  <2>3. post'.reserve = post.reserve
    BY <1>1, <1>3, <2>1, DepositPost DEF Seasons
  <2>4. QED
    BY <1>2, <2>1, <2>2, <2>3
<1>4. ASSUME NEW from \in Accounts, NEW to \in Accounts, NEW p \in Payments,
             NEW n \in 0..balanceOf[from], Transfer(from, to, n, p)
      PROVE  reward' = Earmarked'
  <2>1. n \in Nat /\ p \in Nat /\ reward' = reward + p /\ forfeitPaid' = forfeitPaid /\ post' = post
    BY <1>1, <1>4 DEF Transfer, sweeps
  <2>2. coupon'.reserve = HarvestAndSync(p).reserve
    BY <1>1, <1>4, <2>1, TransferReserve DEF AccrualOnTransfer
  <2>3. QED
    BY <1>2, <2>1, <2>2
<1>5. ASSUME NEW n \in Payments PROVE ~ (RewardArrives(n) \/ Harvest(n))
  BY DEF RewardArrives, Harvest, units
<1>6. ASSUME NEW a \in Accounts, NEW p \in Payments
      PROVE  ~ (RedeemShares(a, p) \/ ClaimLockedReward(a, p) \/ SweepExpired(a, p))
  BY DEF RedeemShares, ClaimLockedReward, SweepExpired, units
<1>7. ~ Tick /\ ~ UNCHANGED vars
  BY DEF Tick, vars, units
<1>8. ASSUME NEW a \in Accounts PROVE ~ Claim(a)
  BY DEF Claim, units
<1>9. QED
  BY <1>3, <1>4, <1>5, <1>6, <1>7, <1>8 DEF Next

(* Whatever the wrapper holds is shared out at the holdings of before any   *)
(* unit moves in term, and before anything is paid, swept or redeemed after *)
(* it; no coupon grows after maturity and no locked principal before.       *)
THEOREM SharedTheorem == Spec => SharedBeforeMoved
<1>1. WrapInv /\ [Next]_vars =>
         [/\ \A a \in Accounts :
                /\ CouponEarned(a)' - CouponEarned(a) =
                      Floor(balanceOf[a], coupon.cum') - Floor(balanceOf[a], coupon.cum)
                /\ PostEarned(a)' - PostEarned(a) =
                      Floor(depositedShares[a], post.cum') - Floor(depositedShares[a], post.cum)
          /\ IF now > MATURITY
             THEN /\ coupon.cum' = coupon.cum
                  /\ paid.post' # paid.post \/ forfeitPaid' # forfeitPaid
                        \/ redeemedShares' # redeemedShares => SharedOut'
             ELSE /\ post.cum' = post.cum
                  /\ balanceOf' # balanceOf /\ totalSupply # 0 => SharedOut']_vars
  <2> SUFFICES ASSUME WrapInv, [Next]_vars
               PROVE  /\ \A a \in Accounts :
                            /\ CouponEarned(a)' - CouponEarned(a) =
                                  Floor(balanceOf[a], coupon.cum') - Floor(balanceOf[a], coupon.cum)
                            /\ PostEarned(a)' - PostEarned(a) =
                                  Floor(depositedShares[a], post.cum') - Floor(depositedShares[a], post.cum)
                      /\ IF now > MATURITY
                         THEN /\ coupon.cum' = coupon.cum
                              /\ paid.post' # paid.post \/ forfeitPaid' # forfeitPaid
                                    \/ redeemedShares' # redeemedShares => SharedOut'
                         ELSE /\ post.cum' = post.cum
                              /\ balanceOf' # balanceOf /\ totalSupply # 0 => SharedOut'
    OBVIOUS
  <2>1. CouponKept /\ PostKept /\ now \in Nat
    BY WrapStep DEF WrapInv, WrapTyped
  <2>2. \A a \in Accounts :
           /\ CouponEarned(a)' - CouponEarned(a) =
                 Floor(balanceOf[a], coupon.cum') - Floor(balanceOf[a], coupon.cum)
           /\ PostEarned(a)' - PostEarned(a) =
                 Floor(depositedShares[a], post.cum') - Floor(depositedShares[a], post.cum)
    BY <2>1 DEF CouponKept, PostKept
  <2>3. CASE now > MATURITY
    BY <2>1, <2>2, <2>3, SettledStep DEF CouponKept, SharedOut
  <2>4. CASE ~ (now > MATURITY)
    <3>1. now <= MATURITY
      BY <2>1, <2>4, TermSetting
    <3>2. QED
      BY <2>1, <2>2, <2>4, <3>1, FoldedStep DEF PostKept, SharedOut
  <2>5. QED
    BY <2>3, <2>4
<1>2. QED
  BY WrapInvariant, <1>1, PTL DEF Spec, SharedBeforeMoved

----------------------------------------------------------------------------
(* Nothing stands in a depositor's way: the checked subtractions of a       *)
(* checkpoint never fail, and a redemption's guards hold once the term ends.*)

Checked(b, h) == \A x \in Accounts : Settles(b, h, x)
ChecksHold == Checked(coupon, balanceOf) /\ Checked(post, depositedShares) /\ arrived <= MaxReward

(* A later bucket still settles, if each debt was kept or set anew.         *)
LEMMA StillChecked ==
    ASSUME NEW b \in Buckets, NEW c \in Buckets, NEW h \in [Accounts -> Nat], NEW g \in [Accounts -> Nat],
           b.cum <= c.cum, Checked(b, h),
           \A x \in Accounts : \/ c.debt[x] = b.debt[x] /\ g[x] = h[x]
                               \/ c.debt[x] = Floor(g[x], c.cum)
                               \/ c.debt[x] = 0
    PROVE  Checked(c, g)
<1>1. SUFFICES ASSUME NEW x \in Accounts PROVE c.debt[x] <= Floor(g[x], c.cum)
  BY DEF Checked, Settles
<1>2. /\ b.cum \in Nat /\ c.cum \in Nat /\ h[x] \in Nat /\ g[x] \in Nat
      /\ b.debt[x] \in Nat /\ c.debt[x] \in Nat
  BY DEF Buckets
<1>3. /\ Floor(h[x], b.cum) \in Nat /\ Floor(h[x], c.cum) \in Nat /\ Floor(g[x], c.cum) \in Nat
      /\ Floor(h[x], b.cum) <= Floor(h[x], c.cum)
  BY <1>2, FloorFacts
<1>4. b.debt[x] <= Floor(h[x], b.cum)
  BY DEF Checked, Settles
<1>5. CASE c.debt[x] = b.debt[x] /\ g[x] = h[x]
  BY <1>2, <1>3, <1>4, <1>5
<1>6. CASE c.debt[x] = Floor(g[x], c.cum) \/ c.debt[x] = 0
  BY <1>3, <1>6
<1>7. QED
  BY <1>5, <1>6

DebtSet(b, g, a, c) ==
    c \in Buckets /\ c.cum = b.cum /\ c.debt = [b.debt EXCEPT ![a] = Floor(g[a], b.cum)]

(* A rebase sets one debt and nothing else of a bucket's rate.              *)
LEMMA RebaseDebt ==
    ASSUME NEW b \in Buckets, NEW g \in [Accounts -> Nat], NEW a \in Accounts
    PROVE  DebtSet(b, g, a, Rebase(b, g, a))
<1> DEFINE f == Floor(g[a], b.cum)
           c == Rebase(b, g, a)
<1>1. f \in Nat
  BY FloorFacts DEF Buckets
<1>2. c = [b EXCEPT !.debt[a] = f]
  BY DEF Rebase
<1> HIDE DEF f, c
<1>3. c \in Buckets /\ c.cum = b.cum /\ c.debt = [b.debt EXCEPT ![a] = f]
  BY <1>1, <1>2 DEF Buckets
<1>4. QED
  BY <1>3 DEF f, c, DebtSet

(* A sync in term only raises the coupons' rate.                            *)
LEMMA HarvestDebt ==
    ASSUME WrapTyped, NEW p \in Nat
    PROVE  /\ HarvestAndSync(p) \in Buckets /\ coupon.cum <= HarvestAndSync(p).cum
           /\ HarvestAndSync(p).debt = coupon.debt
<1>1. /\ coupon \in Buckets /\ balanceOf \in [Accounts -> Nat] /\ totalSupply \in Nat
      /\ Received(p) \in Nat /\ coupon.cum \in Nat
  BY ReceivedFacts DEF WrapTyped, Buckets
<1>2. CASE totalSupply = 0
  BY <1>1, <1>2 DEF HarvestAndSync
<1>3. CASE totalSupply # 0
  <2>1. totalSupply \in Nat \ {0} /\ HarvestAndSync(p) = Accrue(coupon, Received(p), totalSupply)
    BY <1>1, <1>3 DEF HarvestAndSync
  <2>2. AccruedTo(coupon, balanceOf, Received(p), totalSupply, HarvestAndSync(p))
    BY <1>1, <2>1, AccrueFacts
  <2>3. QED
    BY <2>2 DEF AccruedTo
<1>4. QED
  BY <1>2, <1>3

(* After a sync every stake still settles. *)
LEMMA SyncChecked ==
    ASSUME WrapTyped, ChecksHold, NEW p \in Nat
    PROVE  /\ Checked(HarvestAndSync(p), balanceOf) /\ Checked(SyncPost(p).coupon, balanceOf)
           /\ Checked(SyncPost(p).post, depositedShares)
<1>1. /\ coupon \in Buckets /\ post \in Buckets /\ coupon.cum <= coupon.cum
      /\ balanceOf \in [Accounts -> Nat] /\ depositedShares \in [Accounts -> Nat]
  BY DEF WrapTyped, Buckets
<1>2. Checked(HarvestAndSync(p), balanceOf)
  BY <1>1, HarvestDebt, StillChecked DEF ChecksHold
<1>3. /\ SyncPost(p).coupon \in Buckets /\ SyncPost(p).coupon.cum = coupon.cum
      /\ SyncPost(p).coupon.debt = coupon.debt /\ SyncPost(p).post \in Buckets
      /\ SyncPost(p).post.debt = post.debt /\ post.cum <= SyncPost(p).post.cum
  BY SyncFacts DEF SyncedTo
<1>4. Checked(SyncPost(p).coupon, balanceOf)
  BY <1>1, <1>3, StillChecked DEF ChecksHold
<1>5. Checked(SyncPost(p).post, depositedShares)
  BY <1>1, <1>3, StillChecked DEF ChecksHold
<1>6. QED
  BY <1>2, <1>4, <1>5

(* A deposit and a transfer leave whoever's stake moved freshly settled.    *)
LEMMA StakesChecked ==
    ASSUME WrapTyped, ChecksHold, WrapTyped', NEW p \in Nat
    PROVE  /\ \A a \in Accounts, n \in Nat : Deposit(a, n, p) =>
                 Checked(coupon', balanceOf') /\ Checked(post', depositedShares')
           /\ \A from, to \in Accounts, n \in Nat : Transfer(from, to, n, p) => Checked(coupon', balanceOf')
<1>1. /\ coupon \in Buckets /\ post \in Buckets /\ coupon' \in Buckets /\ post' \in Buckets
      /\ balanceOf \in [Accounts -> Nat] /\ depositedShares \in [Accounts -> Nat]
      /\ balanceOf' \in [Accounts -> Nat] /\ depositedShares' \in [Accounts -> Nat]
  BY DEF WrapTyped
<1>2. ASSUME NEW a \in Accounts, NEW n \in Nat, Deposit(a, n, p)
      PROVE  Checked(coupon', balanceOf') /\ Checked(post', depositedShares')
  <2> DEFINE b == HarvestAndSync(p)
             c == Checkpoint(b, balanceOf, a)
             d == Checkpoint(post, depositedShares, a)
  <2>1. /\ Settles(b, balanceOf, a) /\ Settles(post, depositedShares, a)
        /\ coupon' = Rebase(c, balanceOf', a) /\ post' = Rebase(d, depositedShares', a)
        /\ balanceOf' = [balanceOf EXCEPT ![a] = @ + n]
        /\ depositedShares' = [depositedShares EXCEPT ![a] = @ + n]
    BY <1>2 DEF Deposit
  <2>2. b \in Buckets /\ Checked(b, balanceOf) /\ Checked(post, depositedShares)
    BY HarvestDebt, SyncChecked DEF ChecksHold
  <2> HIDE DEF b
  <2>3. CheckpointedTo(b, balanceOf, a, c) /\ CheckpointedTo(post, depositedShares, a, d)
    BY <1>1, <2>1, <2>2, CheckpointFacts
  <2> HIDE DEF c, d
  <2>4. /\ c \in Buckets /\ c.cum = b.cum /\ c.debt = [b.debt EXCEPT ![a] = Floor(balanceOf[a], b.cum)]
        /\ d \in Buckets /\ d.cum = post.cum
        /\ d.debt = [post.debt EXCEPT ![a] = Floor(depositedShares[a], post.cum)]
    BY <2>3 DEF CheckpointedTo
  <2>5. /\ coupon'.cum = b.cum /\ coupon'.debt = [c.debt EXCEPT ![a] = Floor(balanceOf'[a], coupon'.cum)]
        /\ post'.cum = post.cum /\ post'.debt = [d.debt EXCEPT ![a] = Floor(depositedShares'[a], post'.cum)]
    <3>1. DebtSet(c, balanceOf', a, coupon')
      BY <1>1, <2>1, <2>4, RebaseDebt
    <3>2. DebtSet(d, depositedShares', a, post')
      BY <1>1, <2>1, <2>4, RebaseDebt
    <3>3. QED
      BY <2>4, <3>1, <3>2 DEF DebtSet
  <2>6. /\ \A x \in Accounts : \/ coupon'.debt[x] = b.debt[x] /\ balanceOf'[x] = balanceOf[x]
                               \/ coupon'.debt[x] = Floor(balanceOf'[x], coupon'.cum)
        /\ \A x \in Accounts : \/ post'.debt[x] = post.debt[x] /\ depositedShares'[x] = depositedShares[x]
                               \/ post'.debt[x] = Floor(depositedShares'[x], post'.cum)
    <3>1. /\ b.debt \in [Accounts -> Nat] /\ c.debt \in [Accounts -> Nat]
          /\ d.debt \in [Accounts -> Nat] /\ post.debt \in [Accounts -> Nat]
      BY <1>1, <2>2, <2>4 DEF Buckets
    <3> DEFINE f == Floor(balanceOf'[a], coupon'.cum)
               g == Floor(depositedShares'[a], post'.cum)
    <3>2. coupon'.debt[a] = f /\ post'.debt[a] = g
      BY <2>5, <3>1
    <3>3. ASSUME NEW x \in Accounts, x # a
          PROVE  /\ coupon'.debt[x] = b.debt[x] /\ balanceOf'[x] = balanceOf[x]
                 /\ post'.debt[x] = post.debt[x] /\ depositedShares'[x] = depositedShares[x]
      <4>1. balanceOf'[x] = balanceOf[x] /\ depositedShares'[x] = depositedShares[x]
        BY <1>1, <2>1, <3>3
      <4>2. c.debt[x] = b.debt[x] /\ d.debt[x] = post.debt[x]
        BY <2>4, <3>1, <3>3
      <4>3. coupon'.debt[x] = c.debt[x] /\ post'.debt[x] = d.debt[x]
        BY <2>5, <3>1, <3>3
      <4>4. QED
        BY <4>1, <4>2, <4>3
    <3>4. QED
      BY <3>2, <3>3
  <2>7. b.cum <= coupon'.cum /\ post.cum <= post'.cum
    BY <1>1, <2>2, <2>5 DEF Buckets
  <2>8. QED
    BY <1>1, <2>2, <2>6, <2>7, StillChecked
<1>3. ASSUME NEW from \in Accounts, NEW to \in Accounts, NEW n \in Nat, Transfer(from, to, n, p)
      PROVE  Checked(coupon', balanceOf')
  <2> DEFINE b == AccrualOnTransfer(p)
             c == Checkpoint(b, balanceOf, from)
             d == Checkpoint(c, balanceOf, to)
             e == Rebase(d, balanceOf', from)
  <2>1. /\ Settles(b, balanceOf, from) /\ Settles(b, balanceOf, to) /\ coupon' = Rebase(e, balanceOf', to)
        /\ balanceOf' = [[balanceOf EXCEPT ![from] = @ - n] EXCEPT ![to] = @ + n]
    BY <1>3 DEF Transfer
  <2>2. b \in Buckets /\ Checked(b, balanceOf)
    BY <1>1, HarvestDebt, SyncChecked DEF AccrualOnTransfer, ChecksHold
  <2> HIDE DEF b
  <2>3. /\ c \in Buckets /\ c.cum = b.cum /\ c.debt = [b.debt EXCEPT ![from] = Floor(balanceOf[from], b.cum)]
    <3>1. CheckpointedTo(b, balanceOf, from, c)
      BY <1>1, <2>1, <2>2, CheckpointFacts
    <3> HIDE DEF c
    <3>2. QED
      BY <3>1 DEF CheckpointedTo
  <2> HIDE DEF c
  <2>4. Settles(c, balanceOf, to)
    <3>1. c.debt[to] = b.debt[to] \/ c.debt[to] = Floor(balanceOf[to], c.cum)
      BY <2>2, <2>3 DEF Buckets
    <3>2. Floor(balanceOf[to], c.cum) \in Nat
      BY <1>1, <2>3, FloorFacts DEF Buckets
    <3>3. QED
      BY <2>1, <2>3, <3>1, <3>2 DEF Settles
  <2>5. d \in Buckets /\ d.cum = b.cum /\ d.debt = [c.debt EXCEPT ![to] = Floor(balanceOf[to], c.cum)]
    <3>1. CheckpointedTo(c, balanceOf, to, d)
      BY <1>1, <2>3, <2>4, CheckpointFacts
    <3> HIDE DEF d
    <3>2. QED
      BY <2>3, <3>1 DEF CheckpointedTo
  <2> HIDE DEF d
  <2>6. e \in Buckets /\ e.cum = b.cum /\ e.debt = [d.debt EXCEPT ![from] = Floor(balanceOf'[from], b.cum)]
    <3>1. DebtSet(d, balanceOf', from, e)
      BY <1>1, <2>5, RebaseDebt
    <3> HIDE DEF e
    <3>2. QED
      BY <2>5, <3>1 DEF DebtSet
  <2> HIDE DEF e
  <2>7. coupon'.cum = b.cum /\ coupon'.debt = [e.debt EXCEPT ![to] = Floor(balanceOf'[to], b.cum)]
    <3>1. DebtSet(e, balanceOf', to, coupon')
      BY <1>1, <2>1, <2>6, RebaseDebt
    <3>2. QED
      BY <2>6, <3>1 DEF DebtSet
  <2>8. ASSUME NEW x \in Accounts
        PROVE  \/ coupon'.debt[x] = b.debt[x] /\ balanceOf'[x] = balanceOf[x]
               \/ coupon'.debt[x] = Floor(balanceOf'[x], coupon'.cum)
    <3>1. /\ b.debt \in [Accounts -> Nat] /\ c.debt \in [Accounts -> Nat]
          /\ d.debt \in [Accounts -> Nat] /\ e.debt \in [Accounts -> Nat]
      BY <2>2, <2>3, <2>5, <2>6 DEF Buckets
    <3>2. CASE x = to
      BY <2>7, <3>1, <3>2
    <3>3. CASE x = from /\ x # to
      BY <2>6, <2>7, <3>1, <3>3
    <3>4. CASE x # from /\ x # to
      BY <1>1, <2>1, <2>3, <2>5, <2>6, <2>7, <3>1, <3>4
    <3>5. QED
      BY <3>2, <3>3, <3>4
  <2>9. b.cum <= coupon'.cum
    BY <2>2, <2>7 DEF Buckets
  <2>10. QED
    BY <1>1, <2>2, <2>8, <2>9, StillChecked
<1>4. QED
  BY <1>2, <1>3

(* A settled account that is paid, or leaves, has no debt it could not cover. *)
LEMMA PaidChecked ==
    ASSUME NEW b \in Buckets, NEW h \in [Accounts -> Nat], NEW a \in Accounts, NEW g \in [Accounts -> Nat],
           NEW c \in Buckets, Checked(b, h), \A x \in Accounts : x # a => g[x] = h[x],
           (c = PayOut(Checkpoint(b, h, a), a) /\ g = h) \/ c = [Checkpoint(b, h, a) EXCEPT !.debt[a] = 0]
    PROVE  Checked(c, g)
<1> DEFINE k == Checkpoint(b, h, a)
<1>1. CheckpointedTo(b, h, a, k)
  BY CheckpointFacts DEF Checked
<1> HIDE DEF k
<1>2. k \in Buckets /\ k.cum = b.cum /\ k.debt = [b.debt EXCEPT ![a] = Floor(h[a], b.cum)]
  BY <1>1 DEF CheckpointedTo
<1>3. CASE c = PayOut(k, a) /\ g = h
  <2>1. c.cum = k.cum /\ c.debt = k.debt
    BY <1>2, <1>3 DEF PayOut, Buckets
  <2>2. /\ b.cum <= c.cum
        /\ \A x \in Accounts : (c.debt[x] = b.debt[x] /\ g[x] = h[x]) \/ c.debt[x] = Floor(g[x], c.cum)
    BY <1>2, <1>3, <2>1 DEF Buckets
  <2>3. QED
    BY <2>2, StillChecked
<1>4. CASE c = [k EXCEPT !.debt[a] = 0]
  <2>1. c.cum = k.cum /\ c.debt = [k.debt EXCEPT ![a] = 0]
    BY <1>2, <1>4 DEF Buckets
  <2>2. /\ b.cum <= c.cum
        /\ \A x \in Accounts : (c.debt[x] = b.debt[x] /\ g[x] = h[x]) \/ c.debt[x] = 0
    BY <1>2, <2>1 DEF Buckets
  <2>3. QED
    BY <2>2, StillChecked
<1>5. QED
  BY <1>3, <1>4 DEF k

(* Every step keeps every account able to settle.                           *)
LEMMA ChecksStep ==
    ASSUME WrapInv, ChecksHold, [Next]_vars
    PROVE  ChecksHold'
<1>1. /\ WrapTyped /\ WrapTyped' /\ Payments \subseteq Nat
      /\ Checked(coupon, balanceOf) /\ Checked(post, depositedShares) /\ arrived <= MaxReward
  BY WrapStep, TermSetting DEF WrapInv, ChecksHold
<1>2. /\ coupon \in Buckets /\ post \in Buckets /\ coupon' \in Buckets /\ post' \in Buckets
      /\ balanceOf \in [Accounts -> Nat] /\ depositedShares \in [Accounts -> Nat]
      /\ balanceOf' \in [Accounts -> Nat] /\ depositedShares' \in [Accounts -> Nat]
  BY <1>1 DEF WrapTyped
<1>3. ASSUME NEW n \in Payments, RewardArrives(n) PROVE ChecksHold'
  BY <1>1, <1>3 DEF RewardArrives, Pull, units, principal, ChecksHold
<1>4. ASSUME NEW p \in Payments, Harvest(p) PROVE ChecksHold'
  <2>1. /\ coupon' = HarvestAndSync(p) /\ balanceOf' = balanceOf /\ arrived' <= MaxReward
        /\ post' = post /\ depositedShares' = depositedShares
    BY <1>4 DEF Harvest, Pull, units, principal
  <2>2. QED
    BY <1>1, <2>1, SyncChecked DEF ChecksHold
<1>5. ASSUME NEW a \in Accounts, NEW p \in Payments, NEW n \in 1..shares[a], Deposit(a, n, p) PROVE ChecksHold'
  <2>1. arrived' <= MaxReward
    BY <1>5 DEF Deposit, Pull
  <2>2. QED
    BY <1>1, <1>5, <2>1, StakesChecked DEF ChecksHold
<1>6. ASSUME NEW from \in Accounts, NEW to \in Accounts, NEW p \in Payments,
             NEW n \in 0..balanceOf[from], Transfer(from, to, n, p)
      PROVE  ChecksHold'
  <2>1. arrived' <= MaxReward /\ post' = post /\ depositedShares' = depositedShares
    BY <1>6 DEF Transfer, Pull, principal
  <2>2. QED
    BY <1>1, <1>6, <2>1, StakesChecked DEF ChecksHold
<1>7. ASSUME NEW a \in Accounts, Claim(a) PROVE ChecksHold'
  <2>1. /\ coupon' = PayOut(Checkpoint(coupon, balanceOf, a), a) /\ balanceOf' = balanceOf
        /\ post' = post /\ depositedShares' = depositedShares /\ arrived' = arrived
    BY <1>7 DEF Claim, units, principal
  <2>2. Checked(coupon', balanceOf')
    BY <1>1, <1>2, <2>1, PaidChecked
  <2>3. QED
    BY <1>1, <2>1, <2>2 DEF ChecksHold
<1>8. ASSUME NEW a \in Accounts, NEW p \in Payments, RedeemShares(a, p) PROVE ChecksHold'
  <2>1. /\ coupon' = SyncPost(p).coupon /\ balanceOf' = balanceOf
        /\ post' = [Checkpoint(SyncPost(p).post, depositedShares, a) EXCEPT !.debt[a] = 0]
        /\ depositedShares' = [depositedShares EXCEPT ![a] = 0] /\ arrived' <= MaxReward
    BY <1>8 DEF RedeemShares, Pull, units, ExitSettled, ClearsPrincipal
  <2>2. SyncPost(p).post \in Buckets
    BY <1>1, SyncFacts DEF SyncedTo
  <2>3. Checked(SyncPost(p).coupon, balanceOf) /\ Checked(SyncPost(p).post, depositedShares)
    BY <1>1, SyncChecked
  <2>4. \A x \in Accounts : x # a => depositedShares'[x] = depositedShares[x]
    BY <1>2, <2>1
  <2>5. Checked(post', depositedShares')
    <3>1. post' = [Checkpoint(SyncPost(p).post, depositedShares, a) EXCEPT !.debt[a] = 0]
      BY <2>1
    <3>2. QED
      BY <1>2, <2>2, <2>3, <2>4, <3>1, PaidChecked
  <2>6. QED
    BY <2>1, <2>3, <2>5 DEF ChecksHold
<1>9. ASSUME NEW a \in Accounts, NEW p \in Payments, ClaimLockedReward(a, p) PROVE ChecksHold'
  <2>1. /\ coupon' = SyncPost(p).coupon /\ balanceOf' = balanceOf
        /\ post' = PayOut(Checkpoint(SyncPost(p).post, depositedShares, a), a)
        /\ depositedShares' = depositedShares /\ arrived' <= MaxReward
    BY <1>9 DEF ClaimLockedReward, Pull, units, principal
  <2>2. SyncPost(p).post \in Buckets
    BY <1>1, SyncFacts DEF SyncedTo
  <2>3. Checked(SyncPost(p).coupon, balanceOf) /\ Checked(SyncPost(p).post, depositedShares)
    BY <1>1, SyncChecked
  <2>4. Checked(post', depositedShares')
    BY <1>2, <2>1, <2>2, <2>3, PaidChecked
  <2>5. QED
    BY <2>1, <2>3, <2>4 DEF ChecksHold
<1>10. ASSUME NEW a \in Accounts, NEW p \in Payments, SweepExpired(a, p) PROVE ChecksHold'
  <2>1. /\ coupon' = SyncPost(p).coupon /\ balanceOf' = balanceOf /\ post' = SyncPost(p).post
        /\ depositedShares' = depositedShares /\ arrived' <= MaxReward
    BY <1>10 DEF SweepExpired, Pull, units, principal
  <2>2. QED
    BY <1>1, <2>1, SyncChecked DEF ChecksHold
<1>11. CASE Tick \/ UNCHANGED vars
  BY <1>1, <1>11 DEF Tick, vars, units, principal, ChecksHold
<1>12. QED
  BY <1>3, <1>4, <1>5, <1>6, <1>7, <1>8, <1>9, <1>10, <1>11 DEF Next

(* No history of deposits, sales, claims and syncs makes the checked        *)
(* subtraction of a checkpoint fail, for units or for principal: nobody's   *)
(* transfer, claim or redemption reverts there.                             *)
THEOREM ChecksTheorem == Spec => []ChecksHold
<1>1. Init => ChecksHold
  <2> SUFFICES ASSUME Init PROVE ChecksHold
    OBVIOUS
  <2>1. /\ EmptyBucket \in Buckets /\ EmptyBucket.cum \in Nat
        /\ \A x \in Accounts : EmptyBucket.debt[x] = 0 /\ Nobody[x] = 0
    BY DEF EmptyBucket, Nobody, Buckets
  <2>2. \A x \in Accounts : 0 <= Floor(0, EmptyBucket.cum)
    BY <2>1, FloorFacts
  <2>3. Checked(EmptyBucket, Nobody)
    BY <2>1, <2>2 DEF Checked, Settles
  <2>4. 0 <= MaxReward
    BY TermSetting
  <2>5. QED
    BY <2>3, <2>4 DEF Init, ChecksHold
<1>2. WrapInv /\ ChecksHold /\ [Next]_vars => ChecksHold'
  BY ChecksStep
<1>3. QED
  BY <1>1, <1>2, WrapInvariant, PTL DEF Spec

(* What redeemShares asks for while the vault pays nothing, and the state   *)
(* it leaves.                                                               *)
Redeemable(a) ==
    /\ now > MATURITY /\ MayRedeem(a)
    /\ Settles(SyncPost(0).post, depositedShares, a)
    /\ depositedShares[a] <= totalLocked /\ depositedShares[a] <= shares[Wrap]
    /\ arrived <= MaxReward

Redemption(a) ==
    LET n == depositedShares[a]
    IN  <<now, SyncPost(0).coupon, ExitSettled(SyncPost(0).post, a), balanceOf, totalSupply,
          [depositedShares EXCEPT ![a] = 0], [redeemedShares EXCEPT ![a] = n],
          totalDeposited, totalLocked - n, sweptOf, forfeitPaid,
          [shares EXCEPT ![a] = @ + n, ![Wrap] = @ - n], reward, arrived, paid>>

(* Nothing else is asked: where the guards hold, redeemShares has a step.   *)
LEMMA RedemptionRuns ==
    ASSUME WrapTyped, NEW a \in Accounts, Redeemable(a), vars' = Redemption(a)
    PROVE  RedeemShares(a, 0)
<1>1. reward + 0 = reward /\ arrived + 0 = arrived
  BY DEF WrapTyped
<1>2. /\ now' = now /\ coupon' = SyncPost(0).coupon /\ post' = ExitSettled(SyncPost(0).post, a)
      /\ balanceOf' = balanceOf /\ totalSupply' = totalSupply
      /\ depositedShares' = [depositedShares EXCEPT ![a] = 0]
      /\ redeemedShares' = [redeemedShares EXCEPT ![a] = depositedShares[a]]
      /\ totalDeposited' = totalDeposited /\ totalLocked' = totalLocked - depositedShares[a]
      /\ sweptOf' = sweptOf /\ forfeitPaid' = forfeitPaid
      /\ shares' = [shares EXCEPT ![a] = @ + depositedShares[a], ![Wrap] = @ - depositedShares[a]]
      /\ reward' = reward /\ arrived' = arrived /\ paid' = paid
  BY DEF vars, Redemption
<1>3. QED
  BY <1>1, <1>2 DEF RedeemShares, Redeemable, Pull, ClearsPrincipal, units, sweeps

(* "Gated only on the clock": after any history, once the term is over,     *)
(* every depositor's redemption passes all its guards, with the vault down. *)
THEOREM RedemptionTheorem ==
    Spec => [](\A a \in Accounts : now > MATURITY /\ depositedShares[a] # 0 => Redeemable(a))
<1>1. WrapInv /\ ChecksHold => \A a \in Accounts : now > MATURITY /\ depositedShares[a] # 0 => Redeemable(a)
  <2> SUFFICES ASSUME WrapInv, ChecksHold, NEW a \in Accounts, now > MATURITY, depositedShares[a] # 0
               PROVE  Redeemable(a)
    OBVIOUS
  <2>1. WrapTyped /\ PrincipalHeld
    BY DEF WrapInv
  <2>2. depositedShares[a] <= totalLocked /\ shares[Wrap] = totalLocked
    BY <2>1, TotalNatural, TermSetting DEF PrincipalHeld, WrapTyped
  <2>3. Settles(SyncPost(0).post, depositedShares, a)
    BY <2>1, SyncChecked DEF Checked
  <2>4. QED
    BY <2>2, <2>3 DEF Redeemable, MayRedeem, ChecksHold
<1>2. QED
  BY <1>1, WrapInvariant, ChecksTheorem, PTL

----------------------------------------------------------------------------
(* The compounder: every account's yield is its own.                        *)

CompounderSafe ==
    /\ block \in Nat /\ deposits \in [Accounts -> Nat] /\ totalDeposits = Total(deposits)
    /\ cumulativeWethPerShare \in Nat /\ wethReserve \in Int /\ weth \in Int
    /\ wethDebt \in [Accounts -> Int] /\ wethOwed \in [Accounts -> Int]
    /\ taken \in [Accounts -> Int] /\ zaps \in [Accounts -> Int]
    /\ lastRouteBlock \in [Accounts -> Int] /\ routedNow \in [Accounts -> Int]
    /\ \A a \in Accounts : /\ 0 <= routedNow[a] /\ routedNow[a] <= MAX_ROUTE_WEI
                           /\ routedNow[a] = 0 \/ lastRouteBlock[a] = block

(* What the rate's growth brings a depositor. *)
Grown(a) == Compounder!Floor(deposits[a], cumulativeWethPerShare')
                - Compounder!Floor(deposits[a], cumulativeWethPerShare)

YieldsGoOn == CompounderSafe' /\ Compounder!YieldsKept

(* The constants are amounts.                                               *)
LEMMA CompounderNumbers ==
    /\ ACC_SCALE \in Nat \ {0} /\ MAX_ROUTE_WEI \in Nat /\ MIN_ROUTE_WEI \in Nat \ {0}
    /\ Payments \subseteq Nat /\ Yields \subseteq Nat /\ IsFiniteSet(Accounts)
  BY Settings, TermSetting DEF Compounder!CompounderSetting

(* Floored earnings are natural numbers.                                    *)
LEMMA CompounderFloor ==
    ASSUME NEW n \in Nat, NEW c \in Nat
    PROVE  Compounder!Floor(n, c) \in Nat
<1> DEFINE p == n * c
<1>1. p \in Nat /\ ACC_SCALE \in Nat \ {0}
  BY CompounderNumbers
<1> HIDE DEF p
<1>2. p \div ACC_SCALE \in Nat
  BY <1>1, Division
<1>3. QED
  BY <1>2 DEF p, Compounder!Floor

(* A sync raises the rate by a floored share of what arrived.               *)
LEMMA CompounderSync ==
    ASSUME CompounderSafe, NEW p \in Nat, wethReserve <= weth + p
    PROVE  Compounder!Synced(p) \in Nat /\ Compounder!ReserveSynced(p) \in Int /\ totalDeposits \in Nat
<1>1. totalDeposits \in Nat
  BY TotalNatural, CompounderNumbers DEF CompounderSafe
<1>2. CASE totalDeposits = 0
  BY <1>1, <1>2 DEF Compounder!Synced, Compounder!ReserveSynced, CompounderSafe
<1>3. CASE totalDeposits # 0
  <2> DEFINE x == (weth + p - wethReserve) * ACC_SCALE
  <2>1. x \in Nat /\ totalDeposits \in Nat \ {0}
    BY <1>1, <1>3, CompounderNumbers DEF CompounderSafe
  <2> HIDE DEF x
  <2>2. x \div totalDeposits \in Nat
    BY <2>1, Division
  <2>3. Compounder!Synced(p) \in Nat
    BY <1>3, <2>2 DEF Compounder!Synced, CompounderSafe, x
  <2>4. QED
    BY <1>1, <1>3, <2>3 DEF Compounder!ReserveSynced, CompounderSafe
<1>4. QED
  BY <1>2, <1>3

(* What is owed, as the sum of what is settled and what is pending.         *)
LEMMA CompounderOwed ==
    ASSUME CompounderSafe, NEW x \in Accounts
    PROVE  /\ Compounder!Owed(x) = wethOwed[x] + (Compounder!Floor(deposits[x], cumulativeWethPerShare) - wethDebt[x])
           /\ Compounder!Owed(x) \in Int /\ taken[x] \in Int
<1>1. /\ wethOwed[x] \in Int /\ wethDebt[x] \in Int /\ taken[x] \in Int
      /\ Compounder!Floor(deposits[x], cumulativeWethPerShare) \in Nat
  BY CompounderFloor DEF CompounderSafe
<1>2. QED
  BY <1>1 DEF Compounder!Owed, Compounder!Settled, Compounder!Pending

(* A deposit or a withdrawal settles at the rate after the sync. *)
LEMMA StakeYields ==
    ASSUME CompounderSafe, NEW a \in Accounts, NEW stake \in Nat, NEW p \in Nat,
           Compounder!ChangeStake(a, stake, p), totalDeposits' = totalDeposits + (stake - deposits[a])
    PROVE  YieldsGoOn
<1> DEFINE c == Compounder!Synced(p)
           f == Compounder!Floor(deposits[a], c)
           g == Compounder!Floor(stake, c)
           o == wethOwed[a] + (f - wethDebt[a])
<1>1. /\ wethReserve <= weth + p /\ cumulativeWethPerShare' = c
      /\ wethOwed' = [wethOwed EXCEPT ![a] = o] /\ wethReserve' = Compounder!ReserveSynced(p)
      /\ deposits' = [deposits EXCEPT ![a] = stake] /\ wethDebt' = [wethDebt EXCEPT ![a] = g]
      /\ weth' = weth + p
      /\ block' = block /\ lastRouteBlock' = lastRouteBlock /\ zaps' = zaps /\ taken' = taken
      /\ routedNow' = routedNow
  BY DEF Compounder!ChangeStake, Compounder!Checkpoint, Compounder!Pull, Compounder!Settled,
         Compounder!Pending, Compounder!DebtAfter, Compounder!routing
<1>2. c \in Nat /\ Compounder!ReserveSynced(p) \in Int
  BY <1>1, CompounderSync
<1> HIDE DEF c
<1>3. f \in Nat /\ g \in Nat /\ deposits[a] \in Nat
  BY <1>2, CompounderFloor DEF CompounderSafe
<1>4. o \in Int /\ wethOwed[a] \in Int /\ wethDebt[a] \in Int
  BY <1>3 DEF CompounderSafe
<1>5. totalDeposits' = Total(deposits')
  <2>1. deposits \in [Accounts -> Int] /\ stake \in Int /\ IsFiniteSet(Accounts)
    BY CompounderNumbers DEF CompounderSafe
  <2>2. Total([deposits EXCEPT ![a] = stake]) = Total(deposits) - deposits[a] + stake
    BY <2>1, TotalExcept
  <2>3. Total(deposits) \in Int
    BY <2>1, TotalType
  <2>4. QED
    BY <1>1, <1>3, <2>2, <2>3 DEF CompounderSafe
<1> HIDE DEF f, g, o
<1>6. CompounderSafe'
  BY <1>1, <1>2, <1>3, <1>4, <1>5 DEF CompounderSafe
<1>7. ASSUME NEW x \in Accounts
      PROVE  Compounder!Owed(x)' + taken'[x] = Compounder!Owed(x) + taken[x] + Grown(x)
  <2>1. /\ Compounder!Owed(x) = wethOwed[x] + (Compounder!Floor(deposits[x], cumulativeWethPerShare) - wethDebt[x])
        /\ Compounder!Owed(x)' = wethOwed'[x] + (Compounder!Floor(deposits'[x], c) - wethDebt'[x])
        /\ Grown(x) = Compounder!Floor(deposits[x], c) - Compounder!Floor(deposits[x], cumulativeWethPerShare)
    BY <1>1 DEF Compounder!Owed, Compounder!Settled, Compounder!Pending, Grown
  <2>2. /\ Compounder!Floor(deposits[x], cumulativeWethPerShare) \in Nat
        /\ Compounder!Floor(deposits[x], c) \in Nat /\ wethOwed[x] \in Int /\ wethDebt[x] \in Int
        /\ taken[x] \in Int
    BY <1>2, CompounderFloor DEF CompounderSafe
  <2>3. CASE x = a
    <3>1. wethOwed'[a] = o /\ wethDebt'[a] = g /\ deposits'[a] = stake
      BY <1>1 DEF CompounderSafe
    <3>2. Compounder!Owed(a)' = o
      BY <1>3, <1>4, <2>1, <2>3, <3>1 DEF g
    <3>3. QED
      BY <1>1, <1>3, <1>4, <2>1, <2>2, <2>3, <3>2 DEF o, f
  <2>4. CASE x # a
    <3>1. wethOwed'[x] = wethOwed[x] /\ wethDebt'[x] = wethDebt[x] /\ deposits'[x] = deposits[x]
      BY <1>1, <2>4 DEF CompounderSafe
    <3>2. QED
      BY <1>1, <2>1, <2>2, <3>1
  <2>5. QED
    BY <2>3, <2>4
<1>8. Compounder!YieldsKept
  <2>1. \A x \in Accounts : Compounder!Owed(x) \in Int /\ taken[x] \in Int
    BY CompounderOwed
  <2>2. \A x \in Accounts : /\ Compounder!Floor(deposits[x], cumulativeWethPerShare') \in Nat
                            /\ Compounder!Floor(deposits[x], cumulativeWethPerShare) \in Nat
    BY <1>1, <1>2, CompounderFloor DEF CompounderSafe
  <2>3. \A x \in Accounts : routedNow'[x] <= MAX_ROUTE_WEI /\ ~ (routedNow'[x] > routedNow[x])
    BY <1>1 DEF CompounderSafe
  <2>4. QED
    BY <1>7, <2>1, <2>2, <2>3 DEF Compounder!YieldsKept, Grown
<1>9. QED
  BY <1>6, <1>8 DEF YieldsGoOn

(* A claim or a route takes what it takes from what is owed. *)
SpentTo(a, n, p) ==
    /\ CompounderSafe'
    /\ \A x \in Accounts : Compounder!Owed(x)' + taken'[x] = Compounder!Owed(x) + taken[x] + Grown(x)

(* Spending takes from what is owed exactly what it takes out.              *)
LEMMA SpendYields ==
    ASSUME CompounderSafe, NEW a \in Accounts, NEW n \in Int, NEW p \in Nat, Compounder!Spend(a, n, p),
           zaps' \in [Accounts -> Int], lastRouteBlock' \in [Accounts -> Int], routedNow' \in [Accounts -> Int],
           \A x \in Accounts : /\ 0 <= routedNow'[x] /\ routedNow'[x] <= MAX_ROUTE_WEI
                               /\ routedNow'[x] = 0 \/ lastRouteBlock'[x] = block
    PROVE  SpentTo(a, n, p)
<1> DEFINE c == Compounder!Synced(p)
           f == Compounder!Floor(deposits[a], c)
           o == (wethOwed[a] + (f - wethDebt[a])) - n
<1>1. /\ wethReserve <= weth + p /\ cumulativeWethPerShare' = c
      /\ wethOwed' = [wethOwed EXCEPT ![a] = o] /\ wethReserve' = Compounder!ReserveSynced(p) - n
      /\ deposits' = deposits /\ totalDeposits' = totalDeposits /\ wethDebt' = [wethDebt EXCEPT ![a] = f]
      /\ weth' = weth + p - n /\ taken' = [taken EXCEPT ![a] = @ + n] /\ block' = block
  <2>1. /\ wethReserve <= weth + p /\ cumulativeWethPerShare' = c
        /\ wethReserve' = Compounder!ReserveSynced(p) - n
    BY DEF Compounder!Spend, Compounder!Checkpoint, Compounder!Pull, Compounder!ReservePaid
  <2>2. wethOwed' = [wethOwed EXCEPT ![a] = o] /\ wethDebt' = [wethDebt EXCEPT ![a] = f]
    BY DEF Compounder!Spend, Compounder!Settled, Compounder!Pending
  <2>3. weth' = weth + p - n /\ taken' = [taken EXCEPT ![a] = @ + n]
    BY DEF Compounder!Spend
  <2>4. deposits' = deposits /\ totalDeposits' = totalDeposits /\ block' = block
    BY DEF Compounder!Spend, Compounder!stake
  <2>5. QED
    BY <2>1, <2>2, <2>3, <2>4
<1>2. c \in Nat /\ Compounder!ReserveSynced(p) \in Int
  BY <1>1, CompounderSync
<1> HIDE DEF c
<1>3. f \in Nat
  BY <1>2, CompounderFloor DEF CompounderSafe
<1>4. o \in Int /\ wethOwed[a] \in Int /\ wethDebt[a] \in Int
  BY <1>3 DEF CompounderSafe
<1>5. taken' \in [Accounts -> Int] /\ wethOwed' \in [Accounts -> Int] /\ wethDebt' \in [Accounts -> Int]
      /\ weth' \in Int /\ wethReserve' \in Int
  <2>1. taken[a] + n \in Int /\ f \in Int
    BY <1>3 DEF CompounderSafe
  <2> HIDE DEF f, o
  <2>2. QED
    BY <1>1, <1>2, <1>4, <2>1 DEF CompounderSafe
<1> HIDE DEF f, o
<1>6. CompounderSafe'
  BY <1>1, <1>2, <1>5 DEF CompounderSafe
<1>7. ASSUME NEW x \in Accounts
      PROVE  Compounder!Owed(x)' + taken'[x] = Compounder!Owed(x) + taken[x] + Grown(x)
  <2>1. /\ Compounder!Owed(x) = wethOwed[x] + (Compounder!Floor(deposits[x], cumulativeWethPerShare) - wethDebt[x])
        /\ Compounder!Owed(x)' = wethOwed'[x] + (Compounder!Floor(deposits[x], c) - wethDebt'[x])
        /\ Grown(x) = Compounder!Floor(deposits[x], c) - Compounder!Floor(deposits[x], cumulativeWethPerShare)
    BY <1>1 DEF Compounder!Owed, Compounder!Settled, Compounder!Pending, Grown
  <2>2. /\ Compounder!Floor(deposits[x], cumulativeWethPerShare) \in Nat
        /\ Compounder!Floor(deposits[x], c) \in Nat /\ wethOwed[x] \in Int /\ wethDebt[x] \in Int
        /\ taken[x] \in Int
    BY <1>2, CompounderFloor DEF CompounderSafe
  <2>3. CASE x = a
    <3>1. wethOwed'[a] = o /\ wethDebt'[a] = f /\ taken'[a] = taken[a] + n
      BY <1>1 DEF CompounderSafe
    <3>2. Compounder!Owed(a)' = o
      BY <1>3, <1>4, <2>1, <2>3, <3>1 DEF f
    <3>3. QED
      BY <1>3, <1>4, <2>1, <2>2, <2>3, <3>1, <3>2 DEF o, f
  <2>4. CASE x # a
    <3>1. wethOwed'[x] = wethOwed[x] /\ wethDebt'[x] = wethDebt[x] /\ taken'[x] = taken[x]
      BY <1>1, <2>4 DEF CompounderSafe
    <3>2. QED
      BY <2>1, <2>2, <3>1
  <2>5. QED
    BY <2>3, <2>4
<1>8. QED
  BY <1>6, <1>7 DEF SpentTo

(* The sums balance as the property writes them. *)
LEMMA YieldsAddUp ==
    ASSUME CompounderSafe, CompounderSafe', NEW a \in Accounts,
           Compounder!Owed(a)' + taken'[a] = Compounder!Owed(a) + taken[a] + Grown(a)
    PROVE  Compounder!Owed(a)' + taken'[a] = Compounder!Owed(a) + taken[a]
              + Compounder!Floor(deposits[a], cumulativeWethPerShare')
              - Compounder!Floor(deposits[a], cumulativeWethPerShare)
<1>1. /\ Compounder!Floor(deposits[a], cumulativeWethPerShare') \in Nat
      /\ Compounder!Floor(deposits[a], cumulativeWethPerShare) \in Nat
  BY CompounderFloor DEF CompounderSafe
<1>2. QED
  BY <1>1, CompounderOwed DEF Grown

(* A claim takes out everything owed.                                       *)
LEMMA ClaimYields ==
    ASSUME CompounderSafe, NEW a \in Accounts, NEW p \in Nat, Compounder!ClaimWeth(a, p)
    PROVE  YieldsGoOn
<1> DEFINE n == Compounder!Settled(a, Compounder!Synced(p))
<1>1. /\ Compounder!Spend(a, n, p) /\ lastRouteBlock' = lastRouteBlock /\ zaps' = zaps
      /\ routedNow' = routedNow
  BY DEF Compounder!ClaimWeth
<1>2. wethReserve <= weth + p
  BY <1>1 DEF Compounder!Spend, Compounder!Checkpoint, Compounder!Pull
<1>3. n \in Int
  <2>1. Compounder!Floor(deposits[a], Compounder!Synced(p)) \in Nat
    BY <1>2, CompounderSync, CompounderFloor DEF CompounderSafe
  <2>2. QED
    BY <2>1 DEF Compounder!Settled, Compounder!Pending, CompounderSafe
<1> HIDE DEF n
<1>4. SpentTo(a, n, p)
  BY <1>1, <1>3, SpendYields DEF CompounderSafe
<1>5. \A x \in Accounts : routedNow'[x] <= MAX_ROUTE_WEI /\ ~ (routedNow'[x] > routedNow[x])
  BY <1>1 DEF CompounderSafe
<1>6. QED
  BY <1>4, <1>5, YieldsAddUp DEF SpentTo, YieldsGoOn, Compounder!YieldsKept

(* A route takes its amount, within the block's ceiling.                    *)
LEMMA RouteYields ==
    ASSUME CompounderSafe, NEW caller, NEW a \in Accounts, NEW got \in Nat, NEW x, NEW p \in Nat,
           Compounder!Route(caller, a, got, x, p)
    PROVE  YieldsGoOn
<1> DEFINE s == Compounder!Settled(a, Compounder!Synced(p))
           n == Compounder!RouteAmount(s)
<1>1. /\ Compounder!Spend(a, n, p) /\ lastRouteBlock[a] # block
      /\ n # 0 /\ n >= MIN_ROUTE_WEI /\ got >= Compounder!RouteFloor(n, priceX96)
      /\ lastRouteBlock' = [lastRouteBlock EXCEPT ![a] = block] /\ zaps' = [zaps EXCEPT ![a] = @ + got]
      /\ routedNow' = [routedNow EXCEPT ![a] = @ + n]
  BY DEF Compounder!Route, Compounder!Unrouted, Compounder!Spot
<1>2. wethReserve <= weth + p
  BY <1>1 DEF Compounder!Spend, Compounder!Checkpoint, Compounder!Pull
<1>3. s \in Int
  <2>1. Compounder!Floor(deposits[a], Compounder!Synced(p)) \in Nat
    BY <1>2, CompounderSync, CompounderFloor DEF CompounderSafe
  <2>2. QED
    BY <2>1 DEF Compounder!Settled, Compounder!Pending, CompounderSafe
<1>4. n \in Int /\ n <= MAX_ROUTE_WEI
  <2> HIDE DEF s
  <2>1. QED
    BY <1>3, CompounderNumbers DEF Compounder!RouteAmount
<1> HIDE DEF s, n
<1>5. n \in Nat /\ routedNow[a] = 0 /\ routedNow'[a] = n
  BY <1>1, <1>4, CompounderNumbers DEF CompounderSafe
<1>6. \A y \in Accounts : y # a => routedNow'[y] = routedNow[y] /\ lastRouteBlock'[y] = lastRouteBlock[y]
  BY <1>1 DEF CompounderSafe
<1>7. lastRouteBlock'[a] = block /\ zaps'[a] = zaps[a] + got /\ zaps[a] \in Int
  BY <1>1 DEF CompounderSafe
<1>8. zaps' \in [Accounts -> Int] /\ lastRouteBlock' \in [Accounts -> Int] /\ routedNow' \in [Accounts -> Int]
  <2>1. zaps[a] + got \in Int /\ block \in Int /\ routedNow[a] + n \in Int
    BY <1>5, <1>7 DEF CompounderSafe
  <2>2. QED
    BY <1>1, <2>1 DEF CompounderSafe
<1>9. ASSUME NEW y \in Accounts
      PROVE  /\ 0 <= routedNow'[y] /\ routedNow'[y] <= MAX_ROUTE_WEI
             /\ routedNow'[y] = 0 \/ lastRouteBlock'[y] = block
  BY <1>4, <1>5, <1>6, <1>7 DEF CompounderSafe
<1>10. SpentTo(a, n, p)
  BY <1>1, <1>4, <1>8, <1>9, SpendYields
<1>11. ASSUME NEW y \in Accounts, routedNow'[y] > routedNow[y]
       PROVE  zaps'[y] - zaps[y] >= Compounder!RouteFloor(routedNow'[y] - routedNow[y], priceX96)
  <2>1. y = a
    BY <1>6, <1>11 DEF CompounderSafe
  <2>2. routedNow'[a] - routedNow[a] = n
    BY <1>5
  <2>3. zaps'[a] - zaps[a] = got
    BY <1>7
  <2>4. QED
    BY <1>1, <2>1, <2>2, <2>3
<1>12. QED
  BY <1>9, <1>10, <1>11, YieldsAddUp DEF SpentTo, YieldsGoOn, Compounder!YieldsKept

(* The compounder begins empty.                                             *)
LEMMA CompounderInit == Compounder!Init => CompounderSafe
<1> SUFFICES ASSUME Compounder!Init PROVE CompounderSafe
  OBVIOUS
<1>1. Compounder!Nobody \in [Accounts -> Nat] /\ \A a \in Accounts : Compounder!Nobody[a] = 0
  BY DEF Compounder!Nobody
<1>2. Total(Compounder!Nobody) = 0
  BY TotalZero, CompounderNumbers DEF Compounder!Nobody
<1>3. QED
  BY <1>1, <1>2, CompounderNumbers DEF Compounder!Init, CompounderSafe

(* Without a reward taken or a route, nothing earned changes. *)
LEMMA QuietYields ==
    ASSUME CompounderSafe, deposits' = deposits, totalDeposits' = totalDeposits,
           cumulativeWethPerShare' = cumulativeWethPerShare, wethReserve' = wethReserve,
           wethDebt' = wethDebt, wethOwed' = wethOwed, lastRouteBlock' = lastRouteBlock,
           zaps' = zaps, taken' = taken, weth' \in Int, block' \in Nat,
           (block' = block /\ routedNow' = routedNow) \/ routedNow' = Compounder!Nobody
    PROVE  YieldsGoOn
<1>1. /\ routedNow' \in [Accounts -> Int]
      /\ \A a \in Accounts : routedNow'[a] = 0 \/ (routedNow'[a] = routedNow[a] /\ block' = block)
  <2>1. Compounder!Nobody \in [Accounts -> Int] /\ \A a \in Accounts : Compounder!Nobody[a] = 0
    BY DEF Compounder!Nobody
  <2>2. QED
    BY <2>1 DEF CompounderSafe
<1>2. CompounderSafe'
  BY <1>1, CompounderNumbers DEF CompounderSafe
<1>3. \A a \in Accounts : Compounder!Owed(a)' = Compounder!Owed(a)
  BY DEF Compounder!Owed, Compounder!Settled, Compounder!Pending
<1>4. \A a \in Accounts : Compounder!Floor(deposits[a], cumulativeWethPerShare) \in Nat
  BY CompounderFloor DEF CompounderSafe
<1>5. \A a \in Accounts : Compounder!Owed(a)' + taken'[a] = Compounder!Owed(a) + taken[a] + Grown(a)
  BY <1>3, <1>4, CompounderOwed DEF Grown
<1>6. \A a \in Accounts : routedNow'[a] <= MAX_ROUTE_WEI /\ ~ (routedNow'[a] > routedNow[a])
  BY <1>1, CompounderNumbers DEF CompounderSafe
<1>7. QED
  BY <1>2, <1>5, <1>6, YieldsAddUp DEF YieldsGoOn, Compounder!YieldsKept

(* Every step of the compounder keeps its books and its yields.             *)
LEMMA CompounderStep ==
    ASSUME CompounderSafe, Compounder!Next \/ UNCHANGED compounderVars
    PROVE  YieldsGoOn
<1>1. Payments \subseteq Nat /\ Yields \subseteq Nat
  BY CompounderNumbers
<1>2. weth \in Int /\ block \in Nat /\ deposits \in [Accounts -> Nat] /\ totalDeposits \in Int
  BY TotalNatural, CompounderNumbers DEF CompounderSafe
<1>3. ASSUME NEW n \in Payments, Compounder!WethArrives(n) PROVE YieldsGoOn
  BY <1>1, <1>2, <1>3, QuietYields DEF Compounder!WethArrives, Compounder!stake, Compounder!rewards, Compounder!routing
<1>4. ASSUME NEW a \in Accounts, NEW p \in Payments, NEW n \in 1..sharesOf[a], Compounder!Deposit(a, n, p)
      PROVE  YieldsGoOn
  <2>1. /\ Compounder!ChangeStake(a, deposits[a] + n, p) /\ totalDeposits' = totalDeposits + n
    BY <1>4 DEF Compounder!Deposit
  <2>2. n \in Nat /\ deposits[a] \in Nat /\ deposits[a] + n \in Nat
    BY <1>2
  <2>3. totalDeposits' = totalDeposits + ((deposits[a] + n) - deposits[a])
    BY <1>2, <2>1, <2>2
  <2>4. QED
    BY <1>1, <2>1, <2>2, <2>3, StakeYields
<1>5. ASSUME NEW a \in Accounts, NEW p \in Payments, NEW n \in 1..deposits[a], Compounder!Withdraw(a, n, p)
      PROVE  YieldsGoOn
  <2>1. /\ Compounder!ChangeStake(a, deposits[a] - n, p) /\ totalDeposits' = totalDeposits - n
    BY <1>5 DEF Compounder!Withdraw, Compounder!TotalAfter
  <2>2. n \in Nat /\ deposits[a] \in Nat /\ deposits[a] - n \in Nat
    BY <1>2
  <2>3. totalDeposits' = totalDeposits + ((deposits[a] - n) - deposits[a])
    BY <1>2, <2>1, <2>2
  <2>4. QED
    BY <1>1, <2>1, <2>2, <2>3, StakeYields
<1>6. ASSUME NEW a \in Accounts, NEW p \in Payments, Compounder!ClaimWeth(a, p) PROVE YieldsGoOn
  BY <1>1, <1>6, ClaimYields
<1>7. ASSUME NEW a \in Accounts, NEW allowed \in BOOLEAN, Compounder!SetAutoRoute(a, allowed) PROVE YieldsGoOn
  BY <1>2, <1>7, QuietYields DEF Compounder!SetAutoRoute, Compounder!stake, Compounder!rewards
<1>8. ASSUME NEW caller \in Accounts, NEW a \in Accounts, NEW got \in Yields, NEW x \in Prices, NEW p \in Payments,
             Compounder!Route(caller, a, got, x, p)
      PROVE  YieldsGoOn
  BY <1>1, <1>8, RouteYields
<1>9. ASSUME NEW x \in Prices, Compounder!NewBlock(x) PROVE YieldsGoOn
  BY <1>2, <1>9, QuietYields DEF Compounder!NewBlock, Compounder!stake, Compounder!rewards, Compounder!routing
<1>10. ASSUME UNCHANGED compounderVars PROVE YieldsGoOn
  BY <1>2, <1>10, QuietYields DEF compounderVars
<1>11. QED
  BY <1>3, <1>4, <1>5, <1>6, <1>7, <1>8, <1>9, <1>10 DEF Compounder!Next

(* Whatever anyone does, a depositor's lifetime yield grows by exactly what *)
(* its own deposit earned, and a route stays under the ceiling of a block   *)
(* and above the floor of the price before it.                              *)
THEOREM YieldsTheorem == SpecAll => YieldsApart
<1>1. InitAll => CompounderSafe
  BY CompounderInit DEF InitAll
<1>2. CompounderSafe /\ [NextAll]_<<contract, now, wrapVars, compounderVars, hookVars>> => YieldsGoOn
  <2> SUFFICES ASSUME CompounderSafe, [NextAll]_<<contract, now, wrapVars, compounderVars, hookVars>>
               PROVE  YieldsGoOn
    OBVIOUS
  <2>1. Compounder!Next \/ UNCHANGED compounderVars
    BY DEF NextAll
  <2>2. QED
    BY <2>1, CompounderStep
<1>3. CompounderSafe /\ [NextAll]_<<contract, now, wrapVars, compounderVars, hookVars>> => CompounderSafe'
  BY <1>2 DEF YieldsGoOn
<1>4. CompounderSafe /\ [NextAll]_<<contract, now, wrapVars, compounderVars, hookVars>> =>
         [contract = "compounder" => Compounder!YieldsKept]_compounderVars
  BY <1>2 DEF YieldsGoOn
<1>5. QED
  BY <1>1, <1>3, <1>4, PTL DEF SpecAll, YieldsApart

(* What keeps withdrawals open: the shares are there, the reserve is        *)
(* covered, and the checked subtraction of a checkpoint holds for everybody.*)
AllSettle == \A x \in Accounts : Compounder!Settles(x, cumulativeWethPerShare)
CompounderOpen ==
    /\ sharesOf \in [Accounts \cup {This} -> Int] /\ sharesOf[This] = totalDeposits
    /\ wethReserve <= weth /\ wethArrived \in Int /\ wethArrived <= MaxReward
    /\ AllSettle

(* Earnings at a higher rate are no less.                                   *)
LEMMA RateMonotone ==
    ASSUME NEW n \in Nat, NEW c \in Nat, NEW d \in Nat, c <= d
    PROVE  Compounder!Floor(n, c) <= Compounder!Floor(n, d)
<1> DEFINE p == n * c
           q == n * d
<1>1. p \in Nat /\ q \in Nat /\ p <= q /\ ACC_SCALE \in Nat \ {0}
  BY ProductMonotone, CompounderNumbers
<1> HIDE DEF p, q
<1>2. p \div ACC_SCALE <= q \div ACC_SCALE
  BY <1>1, DivisionMonotone
<1>3. QED
  BY <1>2 DEF p, q, Compounder!Floor

(* A sync never lowers the rate, so whoever settled before settles after.   *)
LEMMA SyncSettles ==
    ASSUME CompounderSafe, NEW p \in Nat, wethReserve <= weth + p, AllSettle
    PROVE  /\ cumulativeWethPerShare <= Compounder!Synced(p) /\ Compounder!Synced(p) \in Nat
           /\ \A x \in Accounts : Compounder!Settles(x, Compounder!Synced(p))
<1> DEFINE s == Compounder!Synced(p)
<1>1. s \in Nat /\ totalDeposits \in Nat /\ cumulativeWethPerShare \in Nat
  BY CompounderSync DEF CompounderSafe
<1>2. cumulativeWethPerShare <= s
  <2>1. CASE totalDeposits = 0
    BY <1>1, <2>1 DEF Compounder!Synced
  <2>2. CASE totalDeposits # 0
    <3> DEFINE y == (weth + p - wethReserve) * ACC_SCALE
    <3>1. y \in Nat /\ totalDeposits \in Nat \ {0}
      BY <1>1, <2>2, CompounderNumbers DEF CompounderSafe
    <3> HIDE DEF y
    <3>2. y \div totalDeposits \in Nat
      BY <3>1, Division
    <3>3. s = cumulativeWethPerShare + y \div totalDeposits
      BY <2>2 DEF Compounder!Synced, y
    <3> HIDE DEF s
    <3>4. QED
      BY <1>1, <3>2, <3>3
  <2>3. QED
    BY <2>1, <2>2
<1> HIDE DEF s
<1>3. ASSUME NEW x \in Accounts PROVE Compounder!Settles(x, s)
  <2>1. deposits[x] \in Nat /\ wethDebt[x] \in Int
    BY DEF CompounderSafe
  <2>2. /\ Compounder!Floor(deposits[x], cumulativeWethPerShare) \in Nat /\ Compounder!Floor(deposits[x], s) \in Nat
        /\ Compounder!Floor(deposits[x], cumulativeWethPerShare) <= Compounder!Floor(deposits[x], s)
    BY <1>1, <1>2, <2>1, CompounderFloor, RateMonotone
  <2>3. wethDebt[x] <= Compounder!Floor(deposits[x], cumulativeWethPerShare)
    BY DEF AllSettle, Compounder!Settles
  <2>4. QED
    BY <2>1, <2>2, <2>3 DEF Compounder!Settles
<1>4. QED
  BY <1>1, <1>2, <1>3 DEF s

(* A transaction of one account leaves that one freshly settled and the     *)
(* reserve covered.                                                         *)
LEMMA OpenAfter ==
    ASSUME CompounderSafe, CompounderSafe', CompounderOpen, NEW a \in Accounts, NEW n \in Int, NEW p \in Nat,
           Compounder!Checkpoint(a, p),
           \A x \in Accounts : x # a => deposits'[x] = deposits[x] /\ wethDebt'[x] = wethDebt[x],
           wethDebt'[a] = Compounder!Floor(deposits'[a], Compounder!Synced(p)),
           wethReserve' = Compounder!ReserveSynced(p) - n, weth' = weth + p - n,
           sharesOf' \in [Accounts \cup {This} -> Int], sharesOf'[This] = totalDeposits'
    PROVE  CompounderOpen'
<1>1. /\ wethReserve <= weth + p /\ wethArrived + p <= MaxReward /\ wethArrived' = wethArrived + p
      /\ cumulativeWethPerShare' = Compounder!Synced(p)
  BY DEF Compounder!Checkpoint, Compounder!Pull
<1>2. wethReserve \in Int /\ weth \in Int /\ wethReserve <= weth /\ wethArrived \in Int
  BY DEF CompounderSafe, CompounderOpen
<1>3. wethReserve' <= weth'
  BY <1>2 DEF Compounder!ReserveSynced
<1>4. \A x \in Accounts : Compounder!Settles(x, Compounder!Synced(p))
  BY <1>1, SyncSettles DEF CompounderOpen
<1>5. ASSUME NEW x \in Accounts PROVE wethDebt'[x] <= Compounder!Floor(deposits'[x], cumulativeWethPerShare')
  <2>1. CASE x = a
    <3>1. wethDebt'[a] \in Int
      BY DEF CompounderSafe
    <3>2. QED
      BY <1>1, <2>1, <3>1
  <2>2. CASE x # a
    BY <1>1, <1>4, <2>2 DEF Compounder!Settles
  <2>3. QED
    BY <2>1, <2>2
<1>6. AllSettle'
  BY <1>5 DEF AllSettle, Compounder!Settles
<1>7. QED
  BY <1>1, <1>2, <1>3, <1>6 DEF CompounderOpen

(* What moves only by a deposit or a withdrawal.                            *)
LEMMA StakeOpen ==
    ASSUME CompounderSafe, CompounderSafe', CompounderOpen, NEW a \in Accounts, NEW stake \in Nat, NEW p \in Nat,
           Compounder!ChangeStake(a, stake, p),
           NEW d \in Int, totalDeposits' = totalDeposits + d,
           sharesOf' = [sharesOf EXCEPT ![a] = @ - d, ![This] = @ + d]
    PROVE  CompounderOpen'
<1>1. This \notin Accounts
  BY Settings DEF Compounder!CompounderSetting
<1>2. /\ Compounder!Checkpoint(a, p) /\ deposits' = [deposits EXCEPT ![a] = stake]
      /\ wethDebt' = [wethDebt EXCEPT ![a] = Compounder!Floor(stake, Compounder!Synced(p))]
      /\ wethReserve' = Compounder!ReserveSynced(p) /\ weth' = weth + p
  BY DEF Compounder!ChangeStake, Compounder!DebtAfter
<1>3. /\ \A x \in Accounts : x # a => deposits'[x] = deposits[x] /\ wethDebt'[x] = wethDebt[x]
      /\ wethDebt'[a] = Compounder!Floor(deposits'[a], Compounder!Synced(p))
  BY <1>2 DEF CompounderSafe
<1>4. wethReserve' = Compounder!ReserveSynced(p) - 0 /\ weth' = weth + p - 0
  BY <1>2 DEF CompounderSafe
<1>5. sharesOf' \in [Accounts \cup {This} -> Int] /\ sharesOf'[This] = totalDeposits'
  <2>1. sharesOf \in [Accounts \cup {This} -> Int] /\ sharesOf[This] = totalDeposits
    BY DEF CompounderOpen
  <2>2. sharesOf[a] - d \in Int /\ sharesOf[This] + d \in Int
    BY <2>1
  <2>3. sharesOf' = [sharesOf EXCEPT ![a] = sharesOf[a] - d, ![This] = sharesOf[This] + d]
    BY <1>1, <2>1
  <2>4. QED
    BY <2>1, <2>2, <2>3
<1>6. QED
  BY <1>2, <1>3, <1>4, <1>5, OpenAfter

(* What leaves as WETH leaves the reserve covered and the stakes alone.     *)
LEMMA SpendOpen ==
    ASSUME CompounderSafe, CompounderSafe', CompounderOpen, NEW a \in Accounts, NEW n \in Int, NEW p \in Nat,
           Compounder!Spend(a, n, p)
    PROVE  CompounderOpen'
<1>1. /\ Compounder!Checkpoint(a, p) /\ deposits' = deposits /\ totalDeposits' = totalDeposits
      /\ sharesOf' = sharesOf
      /\ wethDebt' = [wethDebt EXCEPT ![a] = Compounder!Floor(deposits[a], Compounder!Synced(p))]
      /\ wethReserve' = Compounder!ReserveSynced(p) - n /\ weth' = weth + p - n
  BY DEF Compounder!Spend, Compounder!stake, Compounder!ReservePaid
<1>2. /\ \A x \in Accounts : x # a => deposits'[x] = deposits[x] /\ wethDebt'[x] = wethDebt[x]
      /\ wethDebt'[a] = Compounder!Floor(deposits'[a], Compounder!Synced(p))
  BY <1>1 DEF CompounderSafe
<1>3. sharesOf' \in [Accounts \cup {This} -> Int] /\ sharesOf'[This] = totalDeposits'
  BY <1>1 DEF CompounderOpen
<1>4. QED
  BY <1>1, <1>2, <1>3, OpenAfter

(* Withdrawals stay open whatever anyone does.                              *)
LEMMA CompounderOpenStep ==
    ASSUME CompounderSafe, CompounderOpen, Compounder!Next \/ UNCHANGED compounderVars
    PROVE  CompounderSafe' /\ CompounderOpen'
<1>1. CompounderSafe'
  BY CompounderStep DEF YieldsGoOn
<1>2. /\ Payments \subseteq Nat /\ MaxReward \in Nat /\ This \notin Accounts
  BY CompounderNumbers, TermSetting, Settings DEF Compounder!CompounderSetting
<1>3. /\ deposits \in [Accounts -> Nat] /\ totalDeposits \in Int /\ weth \in Int /\ wethReserve \in Int
      /\ sharesOf \in [Accounts \cup {This} -> Int]
  BY TotalNatural, CompounderNumbers DEF CompounderSafe, CompounderOpen
<1>4. ASSUME NEW n \in Payments, Compounder!WethArrives(n) PROVE CompounderOpen'
  <2>1. /\ wethArrived + n <= MaxReward /\ wethArrived' = wethArrived + n /\ weth' = weth + n /\ n \in Nat
        /\ sharesOf' = sharesOf /\ totalDeposits' = totalDeposits /\ deposits' = deposits
        /\ wethReserve' = wethReserve /\ wethDebt' = wethDebt /\ cumulativeWethPerShare' = cumulativeWethPerShare
    BY <1>2, <1>4 DEF Compounder!WethArrives, Compounder!stake, Compounder!rewards
  <2>2. AllSettle'
    BY <2>1 DEF CompounderOpen, AllSettle, Compounder!Settles
  <2>3. QED
    BY <1>3, <2>1, <2>2 DEF CompounderOpen
<1>5. ASSUME NEW a \in Accounts, NEW p \in Payments, NEW n \in 1..sharesOf[a], Compounder!Deposit(a, n, p)
      PROVE  CompounderOpen'
  <2>1. /\ Compounder!ChangeStake(a, deposits[a] + n, p) /\ totalDeposits' = totalDeposits + n
        /\ sharesOf' = [sharesOf EXCEPT ![a] = @ - n, ![This] = @ + n]
    BY <1>5 DEF Compounder!Deposit
  <2>2. n \in Int /\ deposits[a] + n \in Nat /\ p \in Nat
    BY <1>2, <1>3
  <2>3. QED
    BY <1>1, <2>1, <2>2, StakeOpen
<1>6. ASSUME NEW a \in Accounts, NEW p \in Payments, NEW n \in 1..deposits[a], Compounder!Withdraw(a, n, p)
      PROVE  CompounderOpen'
  <2>1. /\ Compounder!ChangeStake(a, deposits[a] - n, p) /\ totalDeposits' = totalDeposits - n
        /\ sharesOf' = [sharesOf EXCEPT ![a] = @ + n, ![This] = @ - n]
    BY <1>6 DEF Compounder!Withdraw, Compounder!TotalAfter
  <2>2. n \in Int /\ deposits[a] - n \in Nat /\ p \in Nat
    BY <1>2, <1>3
  <2> DEFINE d == -n
  <2>3. d \in Int /\ totalDeposits' = totalDeposits + d
    BY <1>3, <2>1, <2>2
  <2>4. sharesOf' = [sharesOf EXCEPT ![a] = @ - d, ![This] = @ + d]
    <3>1. sharesOf[a] + n = sharesOf[a] - d /\ sharesOf[This] - n = sharesOf[This] + d
      BY <1>3, <2>2
    <3> HIDE DEF d
    <3>2. QED
      BY <1>2, <1>3, <2>1, <3>1
  <2> HIDE DEF d
  <2>5. QED
    BY <1>1, <2>1, <2>2, <2>3, <2>4, StakeOpen
<1>7. ASSUME NEW a \in Accounts, NEW p \in Payments, wethReserve <= weth + p
      PROVE  Compounder!Settled(a, Compounder!Synced(p)) \in Int
  <2>1. Compounder!Floor(deposits[a], Compounder!Synced(p)) \in Nat
    BY <1>2, <1>7, CompounderSync, CompounderFloor DEF CompounderSafe
  <2>2. QED
    BY <2>1 DEF Compounder!Settled, Compounder!Pending, CompounderSafe
<1>8. ASSUME NEW a \in Accounts, NEW p \in Payments, Compounder!ClaimWeth(a, p) PROVE CompounderOpen'
  <2> DEFINE n == Compounder!Settled(a, Compounder!Synced(p))
  <2>1. Compounder!Spend(a, n, p)
    BY <1>8 DEF Compounder!ClaimWeth
  <2>2. n \in Int
    BY <1>7, <2>1 DEF Compounder!Spend, Compounder!Checkpoint, Compounder!Pull
  <2> HIDE DEF n
  <2>3. QED
    BY <1>1, <1>2, <2>1, <2>2, SpendOpen
<1>9. ASSUME NEW a \in Accounts, NEW allowed \in BOOLEAN, Compounder!SetAutoRoute(a, allowed) PROVE CompounderOpen'
  BY <1>9 DEF Compounder!SetAutoRoute, Compounder!stake, Compounder!rewards, CompounderOpen, AllSettle,
              Compounder!Settles, Compounder!Floor
<1>10. ASSUME NEW caller \in Accounts, NEW a \in Accounts, NEW got \in Yields, NEW x \in Prices, NEW p \in Payments,
              Compounder!Route(caller, a, got, x, p)
       PROVE  CompounderOpen'
  <2> DEFINE s == Compounder!Settled(a, Compounder!Synced(p))
             n == Compounder!RouteAmount(s)
  <2>1. Compounder!Spend(a, n, p)
    BY <1>10 DEF Compounder!Route
  <2>2. s \in Int
    BY <1>7, <2>1 DEF Compounder!Spend, Compounder!Checkpoint, Compounder!Pull
  <2> HIDE DEF s
  <2>3. n \in Int
    BY <2>2, CompounderNumbers DEF Compounder!RouteAmount
  <2> HIDE DEF n
  <2>4. QED
    BY <1>1, <1>2, <2>1, <2>3, SpendOpen
<1>11. ASSUME NEW x \in Prices, Compounder!NewBlock(x) PROVE CompounderOpen'
  BY <1>11 DEF Compounder!NewBlock, Compounder!stake, Compounder!rewards, CompounderOpen, AllSettle,
               Compounder!Settles, Compounder!Floor
<1>12. ASSUME UNCHANGED compounderVars PROVE CompounderOpen'
  BY <1>12 DEF compounderVars, CompounderOpen, AllSettle, Compounder!Settles, Compounder!Floor
<1>13. QED
  BY <1>1, <1>4, <1>5, <1>6, <1>8, <1>9, <1>10, <1>11, <1>12 DEF Compounder!Next

(* They are open to begin with.                                             *)
LEMMA CompounderOpenInit == Compounder!Init => CompounderOpen
<1> SUFFICES ASSUME Compounder!Init PROVE CompounderOpen
  OBVIOUS
<1>1. Purse \in [Accounts -> Nat] /\ MaxReward \in Nat
  BY TermSetting, Settings DEF Compounder!CompounderSetting
<1>2. /\ sharesOf = [h \in Accounts \cup {This} |-> IF h = This THEN 0 ELSE Purse[h]]
      /\ totalDeposits = 0 /\ wethReserve = 0 /\ weth = 0 /\ wethArrived = 0
      /\ \A a \in Accounts : deposits[a] = 0 /\ wethDebt[a] = 0
      /\ cumulativeWethPerShare = 0
  BY DEF Compounder!Init, Compounder!Nobody
<1>3. sharesOf \in [Accounts \cup {This} -> Int] /\ sharesOf[This] = 0
  BY <1>1, <1>2
<1>4. AllSettle
  <2>1. Compounder!Floor(0, 0) \in Nat
    BY CompounderFloor
  <2>2. QED
    BY <1>2, <2>1 DEF AllSettle, Compounder!Settles
<1>5. QED
  BY <1>1, <1>2, <1>3, <1>4 DEF CompounderOpen

(* The guards of withdraw for all of a depositor's shares, from a vault     *)
(* that pays nothing, and what is stored by a step that passes them.        *)
Withdrawable(a) ==
    /\ deposits[a] # 0 /\ deposits[a] <= sharesOf[This]
    /\ wethReserve <= weth /\ wethArrived <= MaxReward
    /\ Compounder!Settles(a, Compounder!Synced(0))

Withdrawal(a) ==
    LET n == deposits[a]
    IN  <<block, [deposits EXCEPT ![a] = n - n], totalDeposits - n, Compounder!Synced(0),
          Compounder!ReserveSynced(0),
          [wethDebt EXCEPT ![a] = Compounder!Floor(n - n, Compounder!Synced(0))],
          [wethOwed EXCEPT ![a] = Compounder!Settled(a, Compounder!Synced(0))],
          autoRouteAllowed, lastRouteBlock, [sharesOf EXCEPT ![a] = @ + n, ![This] = @ - n],
          weth, priceX96, zaps, wethArrived, taken, routedNow>>

(* Nothing else is asked: where the guards hold, withdraw has a step.       *)
LEMMA WithdrawalRuns ==
    ASSUME CompounderSafe, CompounderOpen, NEW a \in Accounts, Withdrawable(a),
           compounderVars' = Withdrawal(a)
    PROVE  Compounder!Withdraw(a, deposits[a], 0)
<1>1. weth + 0 = weth /\ wethArrived + 0 = wethArrived /\ deposits[a] <= deposits[a]
  BY DEF CompounderSafe, CompounderOpen
<1>2. /\ block' = block /\ deposits' = [deposits EXCEPT ![a] = deposits[a] - deposits[a]]
      /\ totalDeposits' = totalDeposits - deposits[a]
      /\ cumulativeWethPerShare' = Compounder!Synced(0) /\ wethReserve' = Compounder!ReserveSynced(0)
      /\ wethDebt' = [wethDebt EXCEPT ![a] = Compounder!Floor(deposits[a] - deposits[a], Compounder!Synced(0))]
      /\ wethOwed' = [wethOwed EXCEPT ![a] = Compounder!Settled(a, Compounder!Synced(0))]
      /\ autoRouteAllowed' = autoRouteAllowed /\ lastRouteBlock' = lastRouteBlock
      /\ sharesOf' = [sharesOf EXCEPT ![a] = @ + deposits[a], ![This] = @ - deposits[a]]
      /\ weth' = weth /\ priceX96' = priceX96 /\ zaps' = zaps /\ wethArrived' = wethArrived
      /\ taken' = taken /\ routedNow' = routedNow
  BY DEF compounderVars, Withdrawal
<1>3. Compounder!ChangeStake(a, deposits[a] - deposits[a], 0)
  BY <1>1, <1>2 DEF Withdrawable, Compounder!ChangeStake, Compounder!Checkpoint, Compounder!Pull,
                    Compounder!DebtAfter, Compounder!routing
<1>4. QED
  BY <1>1, <1>2, <1>3 DEF Withdrawable, Compounder!Withdraw, Compounder!TotalAfter

(* "Withdrawable at any time": the shares held are the deposits, the        *)
(* reserve is covered, and after any history every depositor's withdrawal   *)
(* of all of theirs passes all its guards, with the vault down.             *)
THEOREM WithdrawTheorem ==
    SpecAll => [](/\ sharesOf[This] = totalDeposits /\ totalDeposits = Total(deposits)
                  /\ wethReserve <= weth
                  /\ \A a \in Accounts : deposits[a] # 0 => Withdrawable(a))
<1> DEFINE Open == /\ sharesOf[This] = totalDeposits /\ totalDeposits = Total(deposits)
                   /\ wethReserve <= weth
                   /\ \A a \in Accounts : deposits[a] # 0 => Withdrawable(a)
<1>1. InitAll => CompounderSafe /\ CompounderOpen
  BY CompounderInit, CompounderOpenInit DEF InitAll
<1>2. CompounderSafe /\ CompounderOpen /\ [NextAll]_<<contract, now, wrapVars, compounderVars, hookVars>>
         => CompounderSafe' /\ CompounderOpen'
  <2> SUFFICES ASSUME CompounderSafe, CompounderOpen,
                      [NextAll]_<<contract, now, wrapVars, compounderVars, hookVars>>
               PROVE  CompounderSafe' /\ CompounderOpen'
    OBVIOUS
  <2>1. Compounder!Next \/ UNCHANGED compounderVars
    BY DEF NextAll
  <2>2. QED
    BY <2>1, CompounderOpenStep
<1>3. CompounderSafe /\ CompounderOpen => Open
  <2> SUFFICES ASSUME CompounderSafe, CompounderOpen PROVE Open
    OBVIOUS
  <2>1. /\ sharesOf[This] = totalDeposits /\ totalDeposits = Total(deposits) /\ wethReserve <= weth
        /\ wethArrived <= MaxReward
    BY DEF CompounderSafe, CompounderOpen
  <2>2. \A a \in Accounts : deposits[a] <= Total(deposits)
    BY TotalNatural, CompounderNumbers DEF CompounderSafe
  <2>3. \A a \in Accounts : Compounder!Settles(a, Compounder!Synced(0))
    <3>1. wethReserve <= weth + 0 /\ AllSettle
      BY <2>1 DEF CompounderSafe, CompounderOpen
    <3>2. QED
      BY <3>1, SyncSettles
  <2>4. QED
    BY <2>1, <2>2, <2>3 DEF Withdrawable
<1>4. QED
  BY <1>1, <1>2, <1>3, PTL DEF SpecAll
----------------------------------------------------------------------------
(* The burn campaign: its record and its promise to the keeper.             *)

HookStorage ==
    [feeSharesFunded : BOOLEAN, finalized : BOOLEAN, buybackPaused : BOOLEAN,
     feeSharePrincipal : Int, boughtThisBlock : BOOLEAN, blockCount : Int,
     totalEthSpent : Int, totalHookrBought : Int, totalHookrBurned : Int]
Balances == [shares : Int, weth : Int, native : Int, hookr : Int]

HookTyped ==
    /\ hb \in HookStorage
    /\ held \in Balances
    /\ everHeld \in Balances
    /\ pool \in [native : Int, hookr : Int, nativeNow : Int]

(* What the pool took in this block is one buy's, or nothing yet. *)
HookSafe == HookTyped /\ Hook!LedgerHonest /\ (hb.boughtThisBlock \/ pool.nativeNow = 0)

HookGoesOn == HookSafe' /\ Hook!KeptToLeg

(* The campaign's constants are amounts.                                    *)
LEMMA HookNumbers ==
    MAX_BUY_WEI \in Nat /\ Principals \subseteq Nat
  BY Settings DEF Hook!HookBlocksSetting

(* A buy and its callback keep the record, and are one step of the leg.     *)
LEMMA BuyGoesOn ==
    ASSUME HookSafe, NEW min, NEW p \in Nat, NEW spent \in Nat, NEW bought \in Nat,
           Hook!BuyAndBurn(min, p, spent, bought)
    PROVE  HookGoesOn
<1> DEFINE d == Hook!Draw(held.weth + p)
           e == Hook!EthIn(held.weth + p)
<1>1. /\ ~ hb.buybackPaused /\ ~ hb.boughtThisBlock /\ spent \in 1..e
      /\ held' = [held EXCEPT !.weth = (held.weth + p) - d, !.native = held.native + d - spent, !.hookr = 0]
      /\ hb' = [hb EXCEPT !.boughtThisBlock = TRUE, !.blockCount = @ + 1, !.totalEthSpent = @ + spent,
                          !.totalHookrBought = @ + bought, !.totalHookrBurned = @ + held.hookr + bought]
      /\ everHeld' = [everHeld EXCEPT !.weth = @ + p]
      /\ pool' = [native |-> pool.native + spent, hookr |-> pool.hookr + bought,
                  nativeNow |-> pool.nativeNow + spent]
  BY DEF Hook!BuyAndBurn, Hook!Unpaused, Hook!BoughtOfDelta
<1>2. held.weth \in Int /\ held.native \in Int /\ held.hookr \in Int
  BY DEF HookSafe, HookTyped, HookStorage, Balances
<1>3. d \in Int
  BY <1>2, HookNumbers DEF Hook!Draw, Hook!Least, Hook!Most
<1>4. e \in Int /\ e <= MAX_BUY_WEI
  <2> HIDE DEF d
  <2>1. e = IF held.native + d < MAX_BUY_WEI THEN held.native + d ELSE MAX_BUY_WEI
    BY DEF Hook!EthIn, Hook!Least, d
  <2> HIDE DEF e
  <2>2. QED
    BY <1>2, <1>3, <2>1, HookNumbers
<1> HIDE DEF d, e
<1>5. /\ hb'.boughtThisBlock /\ hb'.totalEthSpent = hb.totalEthSpent + spent
      /\ hb'.totalHookrBought = hb.totalHookrBought + bought
      /\ hb'.totalHookrBurned = hb.totalHookrBurned + held.hookr + bought
      /\ hb'.blockCount = hb.blockCount + 1 /\ hb'.finalized = hb.finalized
      /\ hb'.buybackPaused = hb.buybackPaused
  BY <1>1 DEF HookSafe, HookTyped, HookStorage, Balances
<1>6. held'.hookr = 0 /\ everHeld'.hookr = everHeld.hookr
  BY <1>1 DEF HookSafe, HookTyped, HookStorage, Balances
<1>7. HookTyped'
  <2>1. (held.weth + p) - d \in Int /\ held.native + d - spent \in Int /\ pool.native \in Int /\ pool.hookr \in Int
        /\ pool.nativeNow \in Int /\ everHeld.weth + p \in Int
    BY <1>2, <1>3 DEF HookSafe, HookTyped, HookStorage, Balances
  <2>2. held' \in Balances
    BY <1>1, <2>1 DEF HookSafe, HookTyped, HookStorage, Balances
  <2>3. everHeld' \in Balances
    BY <1>1, <2>1 DEF HookSafe, HookTyped, HookStorage, Balances
  <2>4. pool' \in [native : Int, hookr : Int, nativeNow : Int]
    BY <1>1, <2>1
  <2>5. /\ hb.blockCount + 1 \in Int /\ hb.totalEthSpent + spent \in Int
        /\ hb.totalHookrBought + bought \in Int /\ hb.totalHookrBurned + held.hookr + bought \in Int
    BY <1>2 DEF HookSafe, HookTyped, HookStorage, Balances
  <2>6. hb' \in HookStorage
    BY <1>1, <2>5 DEF HookSafe, HookTyped, HookStorage, Balances
  <2>7. QED
    BY <2>2, <2>3, <2>4, <2>6 DEF HookTyped
<1>8. Hook!LedgerHonest'
  <2>1. /\ hb.totalEthSpent = pool.native /\ hb.totalHookrBought = pool.hookr
        /\ hb.totalHookrBurned + held.hookr = pool.hookr + everHeld.hookr /\ pool.nativeNow = 0
    BY <1>1 DEF HookSafe, Hook!LedgerHonest
  <2>2. pool'.native = pool.native + spent /\ pool'.hookr = pool.hookr + bought /\ pool'.nativeNow = 0 + spent
    BY <1>1, <2>1
  <2>3. /\ pool.native \in Int /\ pool.hookr \in Int /\ hb.totalHookrBurned \in Int /\ everHeld.hookr \in Int
    BY DEF HookSafe, HookTyped, HookStorage, Balances
  <2>4. spent <= MAX_BUY_WEI
    BY <1>1, <1>4, HookNumbers
  <2>5. hb'.totalHookrBurned + held'.hookr = pool'.hookr + everHeld'.hookr
    BY <1>2, <1>5, <1>6, <2>1, <2>2, <2>3
  <2>6. QED
    BY <1>5, <2>1, <2>2, <2>4, <2>5 DEF Hook!LedgerHonest
<1>9. Hook!KeptToLeg
  BY <1>1, <1>5 DEF Hook!KeptToLeg, Hook!Leg, Hook!LegSteps, Hook!Burnt
<1>10. QED
  BY <1>5, <1>7, <1>8, <1>9 DEF HookGoesOn, HookSafe

(* The burn contract keeps its record, and each of its steps is the leg's.  *)
LEMMA HookStep ==
    ASSUME HookSafe, Hook!Next \/ UNCHANGED hookVars
    PROVE  HookGoesOn
<1>1. MaxReward \in Nat /\ MAX_BUY_WEI \in Nat /\ Principals \subseteq Nat
  BY HookNumbers, TermSetting
<1>2. /\ hb.feeSharePrincipal \in Int /\ hb.blockCount \in Int /\ hb.totalEthSpent \in Int
      /\ hb.totalHookrBought \in Int /\ hb.totalHookrBurned \in Int
      /\ held.shares \in Int /\ held.weth \in Int /\ held.native \in Int /\ held.hookr \in Int
      /\ everHeld.shares \in Int /\ everHeld.weth \in Int /\ everHeld.native \in Int /\ everHeld.hookr \in Int
      /\ pool.native \in Int /\ pool.hookr \in Int /\ pool.nativeNow \in Int
  BY DEF HookSafe, HookTyped, HookStorage, Balances
<1>3. ASSUME NEW asset \in Hook!Assets, Hook!Gift(asset) PROVE HookGoesOn
  <2>1. /\ held' = [held EXCEPT ![asset] = @ + 1] /\ everHeld' = [everHeld EXCEPT ![asset] = @ + 1]
        /\ hb' = hb /\ pool' = pool /\ asset \in {"shares", "weth", "native", "hookr"}
    BY <1>3 DEF Hook!Gift, Hook!Assets
  <2>2. /\ held' \in Balances
        /\ held'.hookr = held.hookr + IF asset = "hookr" THEN 1 ELSE 0
    BY <2>1 DEF HookSafe, HookTyped, HookStorage, Balances
  <2>3. /\ everHeld' \in Balances
        /\ everHeld'.hookr = everHeld.hookr + IF asset = "hookr" THEN 1 ELSE 0
    BY <2>1 DEF HookSafe, HookTyped, HookStorage, Balances
  <2>4. HookTyped'
    BY <2>1, <2>2, <2>3 DEF HookSafe, HookTyped, HookStorage, Balances
  <2>5. Hook!LedgerHonest'
    BY <1>2, <2>1, <2>2, <2>3 DEF HookSafe, Hook!LedgerHonest
  <2>6. Hook!KeptToLeg
    BY <2>1 DEF Hook!KeptToLeg, Hook!Leg
  <2>7. QED
    BY <2>1, <2>4, <2>5, <2>6 DEF HookGoesOn, HookSafe
<1>4. ASSUME NEW t, NEW p, Hook!NewBlock(t, p) PROVE HookGoesOn
  <2>1. /\ hb' = [hb EXCEPT !.boughtThisBlock = FALSE] /\ pool' = [pool EXCEPT !.nativeNow = 0]
        /\ held' = held /\ everHeld' = everHeld
    BY <1>4 DEF Hook!NewBlock
  <2>2. HookTyped'
    <3>1. hb' \in HookStorage
      BY <1>2, <2>1 DEF HookSafe, HookTyped, HookStorage
    <3>2. held' \in Balances
      BY <1>2, <2>1 DEF HookSafe, HookTyped, Balances
    <3>3. everHeld' \in Balances
      BY <1>2, <2>1 DEF HookSafe, HookTyped, Balances
    <3>4. pool' \in [native : Int, hookr : Int, nativeNow : Int]
      BY <1>2, <2>1 DEF HookSafe, HookTyped
    <3>5. QED
      BY <3>1, <3>2, <3>3, <3>4 DEF HookTyped
  <2>3. /\ hb'.totalEthSpent = hb.totalEthSpent /\ hb'.totalHookrBought = hb.totalHookrBought
        /\ hb'.totalHookrBurned = hb.totalHookrBurned /\ hb'.blockCount = hb.blockCount
        /\ hb'.finalized = hb.finalized /\ hb'.buybackPaused = hb.buybackPaused
        /\ pool'.native = pool.native /\ pool'.hookr = pool.hookr /\ pool'.nativeNow = 0
    BY <2>1 DEF HookSafe, HookTyped, HookStorage, Balances
  <2>4. Hook!LedgerHonest'
    BY <1>1, <2>1, <2>3 DEF HookSafe, Hook!LedgerHonest
  <2>5. Hook!KeptToLeg
    BY <2>3 DEF Hook!KeptToLeg, Hook!Leg
  <2>6. QED
    BY <2>2, <2>3, <2>4, <2>5 DEF HookGoesOn, HookSafe
<1>5. ASSUME NEW amount \in Principals, Hook!FundFeeShares(amount) PROVE HookGoesOn
  <2>1. /\ hb' = [hb EXCEPT !.feeSharesFunded = TRUE, !.feeSharePrincipal = amount]
        /\ held' = [held EXCEPT !.shares = @ + amount] /\ everHeld' = [everHeld EXCEPT !.shares = @ + amount]
        /\ pool' = pool /\ amount \in Int
    BY <1>1, <1>5 DEF Hook!FundFeeShares
  <2>2. HookTyped'
    <3>1. hb' \in HookStorage
      BY <1>2, <2>1 DEF HookSafe, HookTyped, HookStorage
    <3>2. held' \in Balances
      BY <1>2, <2>1 DEF HookSafe, HookTyped, Balances
    <3>3. everHeld' \in Balances
      BY <1>2, <2>1 DEF HookSafe, HookTyped, Balances
    <3>4. pool' \in [native : Int, hookr : Int, nativeNow : Int]
      BY <1>2, <2>1 DEF HookSafe, HookTyped
    <3>5. QED
      BY <3>1, <3>2, <3>3, <3>4 DEF HookTyped
  <2>3. /\ hb'.totalEthSpent = hb.totalEthSpent /\ hb'.totalHookrBought = hb.totalHookrBought
        /\ hb'.totalHookrBurned = hb.totalHookrBurned /\ hb'.blockCount = hb.blockCount
        /\ hb'.finalized = hb.finalized /\ hb'.buybackPaused = hb.buybackPaused
        /\ hb'.boughtThisBlock = hb.boughtThisBlock
        /\ held'.hookr = held.hookr /\ everHeld'.hookr = everHeld.hookr
    BY <2>1 DEF HookSafe, HookTyped, HookStorage, Balances
  <2>4. Hook!LedgerHonest'
    BY <2>1, <2>3 DEF HookSafe, Hook!LedgerHonest
  <2>5. Hook!KeptToLeg
    BY <2>3 DEF Hook!KeptToLeg, Hook!Leg
  <2>6. QED
    BY <2>1, <2>2, <2>3, <2>4, <2>5 DEF HookGoesOn, HookSafe
<1>6. ASSUME NEW paused \in BOOLEAN, Hook!SetBuybackPaused(paused) PROVE HookGoesOn
  <2>1. /\ hb' = [hb EXCEPT !.buybackPaused = paused] /\ held' = held /\ everHeld' = everHeld /\ pool' = pool
    BY <1>6 DEF Hook!SetBuybackPaused
  <2>2. HookTyped'
    <3>1. hb' \in HookStorage
      BY <1>2, <2>1 DEF HookSafe, HookTyped, HookStorage
    <3>2. held' \in Balances
      BY <1>2, <2>1 DEF HookSafe, HookTyped, Balances
    <3>3. everHeld' \in Balances
      BY <1>2, <2>1 DEF HookSafe, HookTyped, Balances
    <3>4. pool' \in [native : Int, hookr : Int, nativeNow : Int]
      BY <1>2, <2>1 DEF HookSafe, HookTyped
    <3>5. QED
      BY <3>1, <3>2, <3>3, <3>4 DEF HookTyped
  <2>3. /\ hb'.totalEthSpent = hb.totalEthSpent /\ hb'.totalHookrBought = hb.totalHookrBought
        /\ hb'.totalHookrBurned = hb.totalHookrBurned /\ hb'.blockCount = hb.blockCount
        /\ hb'.finalized = hb.finalized /\ hb'.buybackPaused = paused
        /\ hb'.boughtThisBlock = hb.boughtThisBlock
    BY <2>1 DEF HookSafe, HookTyped, HookStorage, Balances
  <2>4. Hook!LedgerHonest'
    BY <2>1, <2>3 DEF HookSafe, Hook!LedgerHonest
  <2>5. Hook!Leg' = [Hook!Leg EXCEPT !.buybackPaused = paused]
    BY <2>3 DEF Hook!Leg
  <2>6. Hook!KeptToLeg
    BY <2>5 DEF Hook!KeptToLeg, Hook!LegSteps, Hook!PauseSet
  <2>7. QED
    BY <2>1, <2>2, <2>3, <2>4, <2>6 DEF HookGoesOn, HookSafe
<1>7. ASSUME NEW p \in 0..MaxReward, NEW min, NEW bought \in 0..MaxBought, NEW spent \in 1..MaxReward,
             Hook!BuyAndBurn(min, p, spent, bought)
      PROVE  HookGoesOn
  <2>1. p \in Nat /\ spent \in Nat /\ bought \in Nat
    BY <1>1
  <2>2. QED
    BY <1>7, <2>1, BuyGoesOn
<1>8. ASSUME NEW p \in 0..MaxReward, Hook!Finalize(p) PROVE HookGoesOn
  <2>1. /\ now > END_AT /\ ~ hb.finalized /\ p \in Int
        /\ hb' = [hb EXCEPT !.finalized = TRUE, !.feeSharePrincipal = 0]
        /\ held' = [held EXCEPT !.shares = @ - hb.feeSharePrincipal, !.weth = @ + p]
        /\ everHeld' = [everHeld EXCEPT !.weth = @ + p] /\ pool' = pool
    BY <1>1, <1>8 DEF Hook!Finalize, Hook!ReturnPrincipal
  <2>2. HookTyped'
    <3>1. hb' \in HookStorage
      <4>1. hb \in HookStorage /\ hb' = [hb EXCEPT !.finalized = TRUE, !.feeSharePrincipal = 0] /\ 0 \in Int
        BY <2>1 DEF HookSafe, HookTyped
      <4>2. QED
        BY <4>1 DEF HookStorage
    <3>2. held' \in Balances
      <4> DEFINE x == held.shares - hb.feeSharePrincipal
                 y == held.weth + p
      <4>1. x \in Int /\ y \in Int /\ held \in Balances
        BY <1>2, <2>1 DEF HookSafe, HookTyped
      <4>2. held' = [held EXCEPT !.shares = x, !.weth = y]
        BY <2>1
      <4> HIDE DEF x, y
      <4>3. QED
        BY <4>1, <4>2 DEF Balances
    <3>3. everHeld' \in Balances
      BY <1>2, <2>1 DEF HookSafe, HookTyped, Balances
    <3>4. pool' \in [native : Int, hookr : Int, nativeNow : Int]
      BY <1>2, <2>1 DEF HookSafe, HookTyped
    <3>5. QED
      BY <3>1, <3>2, <3>3, <3>4 DEF HookTyped
  <2>3. /\ hb'.totalEthSpent = hb.totalEthSpent /\ hb'.totalHookrBought = hb.totalHookrBought
        /\ hb'.totalHookrBurned = hb.totalHookrBurned /\ hb'.blockCount = hb.blockCount
        /\ hb'.finalized = TRUE /\ hb'.buybackPaused = hb.buybackPaused
        /\ hb'.boughtThisBlock = hb.boughtThisBlock
        /\ held'.hookr = held.hookr /\ everHeld'.hookr = everHeld.hookr
    BY <2>1 DEF HookSafe, HookTyped, HookStorage, Balances
  <2>4. Hook!LedgerHonest'
    BY <2>1, <2>3 DEF HookSafe, Hook!LedgerHonest
  <2>5. Hook!Leg' = [Hook!Leg EXCEPT !.finalized = TRUE] /\ ~ Hook!Leg.finalized
    <3>1. Hook!Leg' = [Hook!Leg EXCEPT !.finalized = TRUE]
      <4> DEFINE yes == TRUE
      <4>1. hb' = [hb EXCEPT !.finalized = yes, !.feeSharePrincipal = 0] /\ hb \in HookStorage
        BY <2>1 DEF HookSafe, HookTyped
      <4> HIDE DEF yes
      <4>2. hb'.finalized = yes /\ hb'.blockCount = hb.blockCount /\ hb'.buybackPaused = hb.buybackPaused
        BY <4>1 DEF HookStorage
      <4>3. Hook!Leg' = [Hook!Leg EXCEPT !.finalized = yes]
        BY <4>2 DEF Hook!Leg
      <4>4. QED
        BY <4>3 DEF yes
    <3>2. ~ Hook!Leg.finalized
      BY <2>1 DEF Hook!Leg
    <3>3. QED
      BY <3>1, <3>2
  <2>6. Hook!KeptToLeg
    BY <2>1, <2>5 DEF Hook!KeptToLeg, Hook!LegSteps, Hook!Finalized
  <2>7. QED
    BY <2>1, <2>2, <2>3, <2>4, <2>6 DEF HookGoesOn, HookSafe
<1>9. ASSUME NEW sponsor, Hook!SweepUnspent(sponsor) PROVE HookGoesOn
  <2>1. /\ hb' = [hb EXCEPT !.totalHookrBurned = @ + held.hookr]
        /\ held' = [held EXCEPT !.weth = 0, !.native = 0, !.hookr = 0]
        /\ everHeld' = everHeld /\ pool' = pool
    BY <1>9 DEF Hook!SweepUnspent
  <2>2. HookTyped'
    <3>1. hb' \in HookStorage
      BY <1>2, <2>1 DEF HookSafe, HookTyped, HookStorage
    <3>2. held' \in Balances
      <4>1. held \in Balances /\ held' = [held EXCEPT !.weth = 0, !.native = 0, !.hookr = 0] /\ 0 \in Int
        BY <2>1 DEF HookSafe, HookTyped
      <4>2. QED
        BY <4>1 DEF Balances
    <3>3. everHeld' \in Balances
      BY <1>2, <2>1 DEF HookSafe, HookTyped, Balances
    <3>4. pool' \in [native : Int, hookr : Int, nativeNow : Int]
      BY <1>2, <2>1 DEF HookSafe, HookTyped
    <3>5. QED
      BY <3>1, <3>2, <3>3, <3>4 DEF HookTyped
  <2>3. /\ hb'.totalEthSpent = hb.totalEthSpent /\ hb'.totalHookrBought = hb.totalHookrBought
        /\ hb'.totalHookrBurned = hb.totalHookrBurned + held.hookr /\ hb'.blockCount = hb.blockCount
        /\ hb'.finalized = hb.finalized /\ hb'.buybackPaused = hb.buybackPaused
        /\ hb'.boughtThisBlock = hb.boughtThisBlock /\ held'.hookr = 0
    BY <2>1 DEF HookSafe, HookTyped, HookStorage, Balances
  <2>4. Hook!LedgerHonest'
    BY <1>2, <2>1, <2>3 DEF HookSafe, Hook!LedgerHonest
  <2>5. Hook!KeptToLeg
    BY <2>3 DEF Hook!KeptToLeg, Hook!Leg
  <2>6. QED
    BY <2>1, <2>2, <2>3, <2>4, <2>5 DEF HookGoesOn, HookSafe
<1>10. ASSUME UNCHANGED hookVars PROVE HookGoesOn
  <2>1. hb' = hb /\ held' = held /\ pool' = pool /\ everHeld' = everHeld
    BY <1>10 DEF hookVars
  <2>2. HookSafe'
    BY <2>1 DEF HookSafe, HookTyped, HookStorage, Balances, Hook!LedgerHonest
  <2>3. Hook!KeptToLeg
    BY <2>1 DEF Hook!KeptToLeg, Hook!Leg
  <2>4. QED
    BY <2>2, <2>3 DEF HookGoesOn
<1>11. QED
  BY <1>3, <1>4, <1>5, <1>6, <1>7, <1>8, <1>9, <1>10 DEF Hook!Next

(* The burn contract begins with nothing bought.                            *)
LEMMA HookInit == InitAll => HookSafe /\ Hook!Leg = Hook!LegAtStart
<1> SUFFICES ASSUME InitAll PROVE HookSafe /\ Hook!Leg = Hook!LegAtStart
  OBVIOUS
<1>1. Hook!Init
  BY DEF InitAll
<1>2. HookTyped
  BY <1>1 DEF Hook!Init, Hook!Nothing, HookTyped, HookStorage, Balances
<1>3. Hook!LedgerHonest /\ pool.nativeNow = 0
  BY <1>1, HookNumbers DEF Hook!Init, Hook!Nothing, Hook!LedgerHonest
<1>4. Hook!Leg = Hook!LegAtStart
  BY <1>1 DEF Hook!Init, Hook!Leg, Hook!LegAtStart
<1>5. QED
  BY <1>2, <1>3, <1>4 DEF HookSafe

(* The others' steps leave the burn contract as it is.                      *)
LEMMA HookAlways ==
    ASSUME HookSafe, [NextAll]_<<contract, now, wrapVars, compounderVars, hookVars>>
    PROVE  HookGoesOn
<1>1. Hook!Next \/ UNCHANGED hookVars
  BY DEF NextAll
<1>2. QED
  BY <1>1, HookStep

(* The published record tells the campaign's own trades, whatever is        *)
(* donated, and no block puts more than MAX_BUY_WEI into the pool.          *)
THEOREM LedgerTheorem == SpecAll => []LedgerHonest
<1>1. HookSafe /\ [NextAll]_<<contract, now, wrapVars, compounderVars, hookVars>> => HookSafe'
  BY HookAlways DEF HookGoesOn
<1>2. HookSafe => LedgerHonest
  BY DEF HookSafe, LedgerHonest
<1>3. QED
  BY HookInit, <1>1, <1>2, PTL DEF SpecAll

(* HookBlocks implements the leg its keeper relies on, step by step.        *)
THEOREM LegTheorem == SpecAll => KeepsToLeg
<1>1. HookSafe /\ [NextAll]_<<contract, now, wrapVars, compounderVars, hookVars>> => HookSafe'
  BY HookAlways DEF HookGoesOn
<1>2. HookSafe /\ [NextAll]_<<contract, now, wrapVars, compounderVars, hookVars>> =>
         [contract = "hook" => Hook!KeptToLeg]_hookVars
  BY HookAlways DEF HookGoesOn
<1>3. InitAll => HookSafe
  BY HookInit
<1>4. InitAll => Hook!Leg = Hook!LegAtStart
  BY HookInit
<1>5. QED
  BY <1>1, <1>2, <1>3, <1>4, PTL DEF SpecAll, KeepsToLeg

(* Where the campaign's principal is: nowhere before it is funded, among    *)
(* the shares held until the end, and with the sponsor after it.            *)
PrincipalSafe ==
    /\ returned \in [shares : Int, eth : Int]
    /\ held.shares + returned.shares = everHeld.shares
    /\ 0 <= hb.feeSharePrincipal /\ hb.feeSharePrincipal <= held.shares
    /\ everHeld.weth + everHeld.native <= MaxReward
    /\ ~ hb.feeSharesFunded => ~ hb.finalized /\ hb.feeSharePrincipal = 0
    /\ ~ hb.finalized => returned.shares = 0
    /\ hb.feeSharesFunded /\ ~ hb.finalized => hb.feeSharePrincipal \in Principals
    /\ hb.finalized => returned.shares \in Principals /\ hb.feeSharePrincipal = 0

(* A step that leaves the shares and the flags alone, and takes in no more  *)
(* than the bound, leaves the principal where it is.                        *)
LEMMA PrincipalStays ==
    ASSUME PrincipalSafe, returned' \in [shares : Int, eth : Int],
           hb'.feeSharesFunded = hb.feeSharesFunded, hb'.finalized = hb.finalized,
           hb'.feeSharePrincipal = hb.feeSharePrincipal, returned'.shares = returned.shares,
           held'.shares = held.shares, everHeld'.shares = everHeld.shares,
           everHeld'.weth + everHeld'.native <= MaxReward
    PROVE  PrincipalSafe'
  BY DEF PrincipalSafe

(* A gift of fee shares is no principal.                                    *)
LEMMA GiftPrincipal ==
    ASSUME HookSafe, PrincipalSafe, NEW asset \in Hook!Assets, Hook!Gift(asset)
    PROVE  PrincipalSafe'
<1>1. /\ IF asset = "hookr" THEN TRUE ELSE IF asset = "shares" THEN TRUE ELSE everHeld.weth + everHeld.native < MaxReward
      /\ held' = [held EXCEPT ![asset] = @ + 1] /\ everHeld' = [everHeld EXCEPT ![asset] = @ + 1]
      /\ hb' = hb /\ returned' = returned /\ asset \in {"shares", "weth", "native", "hookr"}
  BY DEF Hook!Gift, Hook!Assets
<1>2. held \in Balances /\ everHeld \in Balances /\ hb \in HookStorage
  BY DEF HookSafe, HookTyped
<1>3. held'.shares = held.shares + IF asset = "shares" THEN 1 ELSE 0
  BY <1>1, <1>2 DEF Balances
<1>4. /\ everHeld'.shares = everHeld.shares + IF asset = "shares" THEN 1 ELSE 0
      /\ everHeld'.weth = everHeld.weth + IF asset = "weth" THEN 1 ELSE 0
      /\ everHeld'.native = everHeld.native + IF asset = "native" THEN 1 ELSE 0
  BY <1>1, <1>2 DEF Balances
<1>5. /\ held.shares \in Int /\ everHeld.shares \in Int /\ everHeld.weth \in Int /\ everHeld.native \in Int
      /\ hb.feeSharePrincipal \in Int /\ returned.shares \in Int /\ MaxReward \in Int
  BY <1>2, TermSetting DEF Balances, HookStorage, PrincipalSafe
<1>6. everHeld'.weth + everHeld'.native <= MaxReward
  BY <1>1, <1>4, <1>5 DEF PrincipalSafe
<1>7. held'.shares + returned'.shares = everHeld'.shares /\ hb'.feeSharePrincipal <= held'.shares
  BY <1>1, <1>3, <1>4, <1>5 DEF PrincipalSafe
<1>8. QED
  BY <1>1, <1>6, <1>7 DEF PrincipalSafe

(* The principal that is funded is held from then on.                       *)
LEMMA FundPrincipal ==
    ASSUME HookSafe, PrincipalSafe, NEW amount \in Principals, Hook!FundFeeShares(amount)
    PROVE  PrincipalSafe'
<1>1. /\ ~ hb.feeSharesFunded /\ returned' = returned
      /\ hb' = [hb EXCEPT !.feeSharesFunded = TRUE, !.feeSharePrincipal = amount]
      /\ held' = [held EXCEPT !.shares = @ + amount] /\ everHeld' = [everHeld EXCEPT !.shares = @ + amount]
  BY DEF Hook!FundFeeShares
<1>2. held \in Balances /\ everHeld \in Balances /\ hb \in HookStorage /\ amount \in Nat
  BY HookNumbers DEF HookSafe, HookTyped
<1>3. /\ hb'.feeSharesFunded /\ hb'.finalized = hb.finalized /\ hb'.feeSharePrincipal = amount
  BY <1>1, <1>2 DEF HookStorage
<1>4. /\ held'.shares = held.shares + amount /\ everHeld'.shares = everHeld.shares + amount
      /\ everHeld'.weth = everHeld.weth /\ everHeld'.native = everHeld.native
  BY <1>1, <1>2 DEF Balances
<1>5. held.shares \in Int /\ everHeld.shares \in Int /\ returned.shares \in Int
  BY <1>2 DEF Balances, PrincipalSafe
<1>6. held'.shares + returned'.shares = everHeld'.shares /\ 0 <= hb'.feeSharePrincipal
      /\ hb'.feeSharePrincipal <= held'.shares
  BY <1>1, <1>2, <1>3, <1>4, <1>5 DEF PrincipalSafe
<1>7. QED
  BY <1>1, <1>3, <1>4, <1>6 DEF PrincipalSafe

(* The end returns the principal, all of it and nothing else.               *)
LEMMA FinalizePrincipal ==
    ASSUME HookSafe, PrincipalSafe, NEW p \in Nat, Hook!Finalize(p)
    PROVE  PrincipalSafe'
<1>1. /\ hb.feeSharesFunded /\ ~ hb.finalized /\ hb.feeSharePrincipal <= held.shares
      /\ everHeld.weth + everHeld.native + p <= MaxReward
      /\ hb' = [hb EXCEPT !.finalized = TRUE, !.feeSharePrincipal = 0]
      /\ held' = [held EXCEPT !.shares = @ - hb.feeSharePrincipal, !.weth = @ + p]
      /\ everHeld' = [everHeld EXCEPT !.weth = @ + p]
      /\ returned' = [returned EXCEPT !.shares = @ + hb.feeSharePrincipal]
  BY DEF Hook!Finalize, Hook!ReturnPrincipal, Hook!Pull
<1>2. /\ held \in Balances /\ everHeld \in Balances /\ hb \in HookStorage
      /\ returned \in [shares : Int, eth : Int]
  BY DEF HookSafe, HookTyped, PrincipalSafe
<1>3. hb'.feeSharesFunded = hb.feeSharesFunded /\ hb'.finalized = TRUE /\ hb'.feeSharePrincipal = 0
  BY <1>1, <1>2 DEF HookStorage
<1>4. /\ held'.shares = held.shares - hb.feeSharePrincipal /\ everHeld'.shares = everHeld.shares
      /\ everHeld'.weth = everHeld.weth + p /\ everHeld'.native = everHeld.native
  BY <1>1, <1>2 DEF Balances
<1>5. /\ held.shares \in Int /\ everHeld.shares \in Int /\ everHeld.weth \in Int /\ everHeld.native \in Int
      /\ hb.feeSharePrincipal \in Int /\ returned.shares \in Int
  BY <1>2 DEF Balances, HookStorage
<1>6. /\ returned' \in [shares : Int, eth : Int]
      /\ returned'.shares = returned.shares + hb.feeSharePrincipal
  BY <1>1, <1>2, <1>5
<1>7. returned'.shares = hb.feeSharePrincipal /\ hb.feeSharePrincipal \in Principals
  BY <1>1, <1>5, <1>6 DEF PrincipalSafe
<1>8. /\ held'.shares + returned'.shares = everHeld'.shares /\ 0 <= held'.shares
      /\ everHeld'.weth + everHeld'.native <= MaxReward
  BY <1>1, <1>4, <1>5, <1>6, TermSetting DEF PrincipalSafe
<1>9. QED
  BY <1>1, <1>3, <1>6, <1>7, <1>8 DEF PrincipalSafe

(* Whatever is done, the principal is accounted for.                        *)
LEMMA PrincipalSafeStep ==
    ASSUME HookSafe, PrincipalSafe, Hook!Next \/ UNCHANGED hookVars
    PROVE  PrincipalSafe'
<1>1. MaxReward \in Nat /\ MAX_BUY_WEI \in Nat
  BY HookNumbers, TermSetting
<1>2. held \in Balances /\ everHeld \in Balances /\ hb \in HookStorage
      /\ returned \in [shares : Int, eth : Int]
  BY DEF HookSafe, HookTyped, PrincipalSafe
<1>3. /\ held.weth \in Int /\ held.native \in Int /\ everHeld.weth \in Int /\ everHeld.native \in Int
      /\ returned.eth \in Int /\ everHeld.weth + everHeld.native <= MaxReward
  BY <1>2 DEF Balances, PrincipalSafe
<1>4. ASSUME NEW t, NEW x, Hook!NewBlock(t, x) PROVE PrincipalSafe'
  <2>1. /\ hb' = [hb EXCEPT !.boughtThisBlock = FALSE] /\ held' = held /\ everHeld' = everHeld
        /\ returned' = returned
    BY <1>4 DEF Hook!NewBlock
  <2>2. /\ hb'.feeSharesFunded = hb.feeSharesFunded /\ hb'.finalized = hb.finalized
        /\ hb'.feeSharePrincipal = hb.feeSharePrincipal
    BY <1>2, <2>1 DEF HookStorage
  <2>3. QED
    BY <1>2, <1>3, <2>1, <2>2, PrincipalStays
<1>5. ASSUME NEW paused \in BOOLEAN, Hook!SetBuybackPaused(paused) PROVE PrincipalSafe'
  <2>1. /\ hb' = [hb EXCEPT !.buybackPaused = paused] /\ held' = held /\ everHeld' = everHeld
        /\ returned' = returned
    BY <1>5 DEF Hook!SetBuybackPaused
  <2>2. /\ hb'.feeSharesFunded = hb.feeSharesFunded /\ hb'.finalized = hb.finalized
        /\ hb'.feeSharePrincipal = hb.feeSharePrincipal
    BY <1>2, <2>1 DEF HookStorage
  <2>3. QED
    BY <1>2, <1>3, <2>1, <2>2, PrincipalStays
<1>6. ASSUME NEW p \in 0..MaxReward, NEW min, NEW bought \in 0..MaxBought, NEW spent \in 1..MaxReward,
             Hook!BuyAndBurn(min, p, spent, bought)
      PROVE  PrincipalSafe'
  <2>1. /\ everHeld.weth + everHeld.native + p <= MaxReward /\ returned' = returned
        /\ hb' = [hb EXCEPT !.boughtThisBlock = TRUE, !.blockCount = @ + 1, !.totalEthSpent = @ + spent,
                            !.totalHookrBought = @ + bought, !.totalHookrBurned = @ + held.hookr + bought]
        /\ everHeld' = [everHeld EXCEPT !.weth = @ + p] /\ p \in Int
    BY <1>1, <1>6 DEF Hook!BuyAndBurn, Hook!Pull, Hook!BoughtOfDelta
  <2>2. held' = [held EXCEPT !.weth = (held.weth + p) - Hook!Draw(held.weth + p),
                             !.native = held.native + Hook!Draw(held.weth + p) - spent, !.hookr = 0]
    BY <1>6 DEF Hook!BuyAndBurn
  <2>3. held'.shares = held.shares
    BY <1>2, <2>2 DEF Balances
  <2>4. /\ hb'.feeSharesFunded = hb.feeSharesFunded /\ hb'.finalized = hb.finalized
        /\ hb'.feeSharePrincipal = hb.feeSharePrincipal
    BY <1>2, <2>1 DEF HookStorage
  <2>5. /\ everHeld'.shares = everHeld.shares /\ everHeld'.weth = everHeld.weth + p
        /\ everHeld'.native = everHeld.native
    BY <1>2, <2>1 DEF Balances
  <2>6. everHeld'.weth + everHeld'.native <= MaxReward
    BY <1>1, <1>3, <2>1, <2>5
  <2>7. QED
    BY <1>2, <2>1, <2>3, <2>4, <2>5, <2>6, PrincipalStays
<1>7. ASSUME NEW p \in 0..MaxReward, Hook!Finalize(p) PROVE PrincipalSafe'
  <2>1. p \in Nat
    BY <1>1
  <2>2. QED
    BY <1>7, <2>1, FinalizePrincipal
<1>8. ASSUME NEW sponsor, Hook!SweepUnspent(sponsor) PROVE PrincipalSafe'
  <2>1. /\ hb' = [hb EXCEPT !.totalHookrBurned = @ + held.hookr]
        /\ held' = [held EXCEPT !.weth = 0, !.native = 0, !.hookr = 0] /\ everHeld' = everHeld
        /\ returned' = [returned EXCEPT !.eth = @ + held.weth + held.native]
    BY <1>8 DEF Hook!SweepUnspent
  <2>2. held'.shares = held.shares
    BY <1>2, <2>1 DEF Balances
  <2>3. /\ hb'.feeSharesFunded = hb.feeSharesFunded /\ hb'.finalized = hb.finalized
        /\ hb'.feeSharePrincipal = hb.feeSharePrincipal
    BY <1>2, <2>1 DEF HookStorage
  <2>4. returned' \in [shares : Int, eth : Int] /\ returned'.shares = returned.shares
    BY <1>2, <1>3, <2>1
  <2>5. QED
    BY <1>3, <2>1, <2>2, <2>3, <2>4, PrincipalStays
<1>9. CASE UNCHANGED hookVars
  BY <1>9 DEF hookVars, PrincipalSafe
<1>10. QED
  BY <1>4, <1>5, <1>6, <1>7, <1>8, <1>9, GiftPrincipal, FundPrincipal DEF Hook!Next

(* The guards of finalize from a vault that pays nothing, and what is       *)
(* stored by a step that passes them.                                       *)
Finalizable ==
    /\ hb.feeSharesFunded /\ now > END_AT /\ ~ hb.finalized
    /\ Hook!Pull(0)
    /\ hb.feeSharePrincipal <= held.shares

Finalization ==
    <<now, price, [hb EXCEPT !.finalized = TRUE, !.feeSharePrincipal = 0],
      [held EXCEPT !.shares = @ - hb.feeSharePrincipal, !.weth = @ + 0],
      [everHeld EXCEPT !.weth = @ + 0], pool, [returned EXCEPT !.shares = @ + hb.feeSharePrincipal]>>

(* Nothing else is asked: where the guards hold, finalize has a step.       *)
LEMMA FinalizationRuns ==
    ASSUME Finalizable, <<now, price, hb, held, everHeld, pool, returned>>' = Finalization
    PROVE  Hook!Finalize(0)
  BY DEF Finalizable, Finalization, Hook!Finalize, Hook!ReturnPrincipal

(* The principal is held or returned, whole and once; after the term it is  *)
(* returned or finalize passes all its guards, whatever happened before: a  *)
(* pause, a sweep, a vault that is down.                                    *)
THEOREM PrincipalReturnsTheorem ==
    SpecAll => [](/\ held.shares + returned.shares = everHeld.shares
                  /\ hb.feeSharesFunded /\ now > END_AT => (hb.finalized \/ Finalizable)
                  /\ hb.finalized => returned.shares \in Principals /\ hb.feeSharePrincipal = 0)
<1> DEFINE Back == /\ held.shares + returned.shares = everHeld.shares
                   /\ hb.feeSharesFunded /\ now > END_AT => (hb.finalized \/ Finalizable)
                   /\ hb.finalized => returned.shares \in Principals /\ hb.feeSharePrincipal = 0
<1>1. InitAll => HookSafe /\ PrincipalSafe
  <2> SUFFICES ASSUME InitAll PROVE PrincipalSafe
    BY HookInit
  <2>1. Hook!Init /\ MaxReward \in Nat
    BY TermSetting DEF InitAll
  <2>2. QED
    BY <2>1 DEF Hook!Init, Hook!Nothing, PrincipalSafe
<1>2. HookSafe /\ PrincipalSafe /\ [NextAll]_<<contract, now, wrapVars, compounderVars, hookVars>>
         => HookSafe' /\ PrincipalSafe'
  <2> SUFFICES ASSUME HookSafe, PrincipalSafe,
                      [NextAll]_<<contract, now, wrapVars, compounderVars, hookVars>>
               PROVE  HookSafe' /\ PrincipalSafe'
    OBVIOUS
  <2>1. Hook!Next \/ UNCHANGED hookVars
    BY DEF NextAll
  <2>2. QED
    BY <2>1, HookAlways, PrincipalSafeStep DEF HookGoesOn
<1>3. HookSafe /\ PrincipalSafe => Back
  <2> SUFFICES ASSUME HookSafe, PrincipalSafe PROVE Back
    OBVIOUS
  <2>1. everHeld.weth \in Int /\ everHeld.native \in Int /\ everHeld.weth + everHeld.native <= MaxReward
    BY DEF HookSafe, HookTyped, Balances, PrincipalSafe
  <2>2. Hook!Pull(0)
    BY <2>1 DEF Hook!Pull
  <2>3. QED
    BY <2>2 DEF PrincipalSafe, Finalizable
<1>4. QED
  BY <1>1, <1>2, <1>3, PTL DEF SpecAll
=============================================================================
