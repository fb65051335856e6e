------------------------ MODULE MovementEstimator_proofs ------------------------
(***************************************************************************)
(* The estimate of a cover's travel, for every length of the travel: it    *)
(* never moves but with time, and a slider movement ends near its target.  *)
(*                                                                         *)
(* The arithmetic comes first.  Rounding makes it one of bounds: how far   *)
(* the curve, the share of the time that has passed and the place on the   *)
(* way move when what they are taken of moves.                             *)
(***************************************************************************)
EXTENDS MovementEstimator, TLAPS

------------------------------------------------------------------------------
(* The curve                                                                *)

\* What a division leaves.
LEMMA Divided ==
    ASSUME NEW a \in Int, NEW d \in Nat \ {0}
    PROVE  /\ a \div d \in Int
           /\ d * (a \div d) <= a /\ a < d * (a \div d) + d
OBVIOUS

Cubic(x) == x * x * (3 * Unit - 2 * x)

\* The curve rises, and nowhere by more than 3/2.
LEMMA CubicSlope ==
    ASSUME NEW a \in 0..Unit, NEW b \in 0..Unit, a <= b
    PROVE  /\ Cubic(a) \in Int /\ Cubic(b) \in Int
           /\ Cubic(a) <= Cubic(b)
           /\ Cubic(b) - Cubic(a) <= 1500000 * (b - a)
<1> DEFINE d == b - a
           slope == 3000 * (a + b) - 2 * (a * a + a * b + b * b)
<1>1. a \in Int /\ b \in Int /\ 0 <= a /\ b <= 1000 /\ a <= 1000 /\ 0 <= b /\ d \in Nat
  BY DEF Unit
<1>2. Cubic(a) = a * a * (3000 - 2 * a) /\ Cubic(b) = b * b * (3000 - 2 * b)
  BY DEF Cubic, Unit
<1>3. Cubic(b) - Cubic(a) = d * slope
  BY <1>1, <1>2
<1>4. slope >= 0
  <2>1. a * a <= 1000 * a /\ b * b <= 1000 * b /\ a * b <= 1000 * a /\ a * b <= 1000 * b
    BY <1>1
  <2>2. QED
    BY <1>1, <2>1
<1>5. slope <= 1500000
  <2>1. PICK u \in Int, w \in Int : u = a - 500 /\ w = b - 500
    BY <1>1
  <2>2. slope = 1500000 - (u * u + w * w + (u + w) * (u + w))
    BY <1>1, <2>1
  <2>3. u * u >= 0 /\ w * w >= 0 /\ (u + w) * (u + w) >= 0
    BY <2>1
  <2>4. QED
    BY <2>2, <2>3
<1>6. slope \in Int
  BY <1>1
<1> HIDE DEF d, slope
<1>7. d * slope >= 0 /\ d * slope <= 1500000 * d
  BY <1>1, <1>4, <1>5, <1>6
<1>8. Cubic(a) \in Int /\ Cubic(b) \in Int
  BY <1>1, <1>2
<1>9. QED
  BY <1>3, <1>7, <1>8 DEF d

\* So does the curve in whole numbers, but for the rounding.
LEMMA EasedSlope ==
    ASSUME NEW a \in 0..Unit, NEW b \in 0..Unit, a <= b
    PROVE  /\ EasedFraction(a) \in 0..Unit /\ EasedFraction(b) \in 0..Unit
           /\ EasedFraction(a) <= EasedFraction(b)
           /\ 2 * (EasedFraction(b) - EasedFraction(a)) <= 3 * (b - a) + 1
<1>1. ASSUME NEW x \in 0..Unit
      PROVE  /\ EasedFraction(x) \in Int /\ Cubic(x) \in Int
             /\ 1000000 * EasedFraction(x) <= Cubic(x)
             /\ Cubic(x) < 1000000 * EasedFraction(x) + 1000000
  <2>1. Clamp(x) = x
    BY DEF Clamp, Unit
  <2>2. EasedFraction(x) = Cubic(x) \div 1000000
    BY <2>1 DEF EasedFraction, Cubic, Unit
  <2>3. Cubic(x) \in Int
    BY CubicSlope
  <2>4. QED
    BY <2>2, <2>3
<1>2. Cubic(0) = 0 /\ Cubic(Unit) = 1000000000 /\ 0 \in 0..Unit /\ Unit \in 0..Unit
  BY DEF Cubic, Unit
<1>3. ASSUME NEW x \in 0..Unit PROVE EasedFraction(x) \in 0..Unit
  <2>1. 0 <= x /\ x <= Unit
    OBVIOUS
  <2>2. Cubic(0) <= Cubic(x) /\ Cubic(x) <= Cubic(Unit)
    BY <1>2, <2>1, CubicSlope
  <2>3. 0 <= Cubic(x) /\ Cubic(x) <= 1000000000
    BY <1>2, <2>2
  <2>4. /\ EasedFraction(x) \in Int /\ 1000000 * EasedFraction(x) <= Cubic(x)
        /\ Cubic(x) < 1000000 * EasedFraction(x) + 1000000 /\ Cubic(x) \in Int
    BY <1>1
  <2>5. QED
    BY <2>3, <2>4 DEF Unit
<1>4. /\ Cubic(a) <= Cubic(b) /\ Cubic(b) - Cubic(a) <= 1500000 * (b - a)
  BY CubicSlope
<1>5. a \in Int /\ b \in Int
  OBVIOUS
<1>6. EasedFraction(a) <= EasedFraction(b)
  BY <1>1, <1>4
<1>7. 2 * (EasedFraction(b) - EasedFraction(a)) <= 3 * (b - a) + 1
  BY <1>1, <1>4, <1>5
<1>8. QED
  BY <1>3, <1>6, <1>7

\* The curve starts at 0 and ends at Unit.
LEMMA EasedEnds == EasedFraction(0) = 0 /\ EasedFraction(Unit) = Unit
BY DEF EasedFraction, Clamp, Unit

------------------------------------------------------------------------------
(* The time that has passed, and the place on the way                       *)

\* The share of the time that has passed, and the place that is a share of the way.
Share(elapsed, duration) == (elapsed * Unit) \div duration
Place(start, end, share) == start + (share * (end - start)) \div Unit

\* A tick moves the share of the time by one in the duration, rounded up.
LEMMA ShareOfTick ==
    ASSUME NEW duration \in Nat \ {0}, NEW elapsed \in Nat, elapsed < duration
    PROVE  /\ Share(elapsed, duration) \in 0..Unit /\ Share(elapsed + 1, duration) \in 0..Unit
           /\ Share(elapsed, duration) <= Share(elapsed + 1, duration)
           /\ duration * (Share(elapsed + 1, duration) - Share(elapsed, duration)) < Unit + duration
<1> DEFINE x == Share(elapsed, duration)
           y == Share(elapsed + 1, duration)
<1>1. /\ x \in Int /\ y \in Int
      /\ duration * x <= elapsed * 1000 /\ elapsed * 1000 < duration * x + duration
      /\ duration * y <= elapsed * 1000 + 1000 /\ elapsed * 1000 + 1000 < duration * y + duration
  <2>1. elapsed * 1000 \in Int /\ (elapsed + 1) * 1000 \in Int /\ (elapsed + 1) * 1000 = elapsed * 1000 + 1000
    OBVIOUS
  <2>2. QED
    BY <2>1, Divided DEF Share, Unit
<1> HIDE DEF x, y
<1>2. 0 <= x /\ 0 <= y
  <2>1. duration * x + duration > 0 /\ duration * y + duration > 0
    BY <1>1
  <2>2. duration * (x + 1) > 0 /\ duration * (y + 1) > 0
    BY <1>1, <2>1
  <2>3. x + 1 > 0 /\ y + 1 > 0
    BY <1>1, <2>2
  <2>4. QED
    BY <1>1, <2>3
<1>3. x <= 1000 /\ y <= 1000
  <2>1. elapsed * 1000 + 1000 <= duration * 1000
    OBVIOUS
  <2>2. duration * (1000 - x) >= 0 /\ duration * (1000 - y) >= 0
    BY <1>1, <2>1
  <2>3. QED
    BY <1>1, <2>2
<1>4. x <= y
  <2>1. duration * (y + 1 - x) > 0
    BY <1>1
  <2>2. y + 1 - x > 0
    BY <1>1, <2>1
  <2>3. QED
    BY <1>1, <2>2
<1>5. duration * (y - x) < 1000 + duration
  BY <1>1
<1>6. /\ x \in 0..Unit /\ y \in 0..Unit /\ x <= y
      /\ duration * (y - x) < Unit + duration
  BY <1>1, <1>2, <1>3, <1>4, <1>5 DEF Unit
<1>7. QED
  BY <1>6, Zenon DEF x, y

\* The place is on the way, and moves no farther than the share does: to the end of the way,
\* or with its start.
LEMMA PlaceOnWay ==
    ASSUME NEW start \in 0..Top, NEW other \in 0..Top, NEW end \in {0, Top},
           NEW f \in 0..Unit, NEW g \in 0..Unit, f <= g
    PROVE  /\ Place(start, end, f) \in 0..Top
           /\ Distance(Place(start, end, g), Place(start, end, f)) <= g - f
           /\ Distance(Place(start, end, g), end) <= Distance(Place(start, end, f), end)
           /\ Distance(Place(start, end, f), Place(other, end, f)) <= Distance(start, other)
           /\ Place(start, end, 0) = start /\ Place(start, end, Unit) = end
<1>1. /\ start \in Int /\ 0 <= start /\ start <= 1000 /\ other \in Int /\ 0 <= other /\ other <= 1000
      /\ f \in Int /\ g \in Int /\ 0 <= f /\ g <= 1000 /\ end \in {0, 1000}
  BY DEF Top, Unit
<1>2. ASSUME NEW s \in 0..Top, NEW h \in 0..Unit
      PROVE  /\ Place(s, end, h) \in Int
             /\ 1000 * Place(s, end, h) <= 1000 * s + h * (end - s)
             /\ 1000 * s + h * (end - s) < 1000 * Place(s, end, h) + 1000
  <2>1. h * (end - s) \in Int /\ s \in Int
    BY <1>1
  <2>2. PICK q \in Int : q = (h * (end - s)) \div 1000
    BY <2>1
  <2>3. 1000 * q <= h * (end - s) /\ h * (end - s) < 1000 * q + 1000
    BY <2>1, <2>2
  <2>4. Place(s, end, h) = s + q
    BY <2>2 DEF Place, Unit
  <2>5. QED
    BY <2>1, <2>3, <2>4
<1> DEFINE p == Place(start, end, f)
           q == Place(start, end, g)
           r == Place(other, end, f)
<1>3. /\ p \in Int /\ q \in Int /\ r \in Int
      /\ 1000 * p <= 1000 * start + f * (end - start)
      /\ 1000 * start + f * (end - start) < 1000 * p + 1000
      /\ 1000 * q <= 1000 * start + g * (end - start)
      /\ 1000 * start + g * (end - start) < 1000 * q + 1000
      /\ 1000 * r <= 1000 * other + f * (end - other)
      /\ 1000 * other + f * (end - other) < 1000 * r + 1000
  BY <1>2
<1>4. Place(start, end, 0) = start /\ Place(start, end, Unit) = end
  BY <1>1 DEF Place, Unit
<1> HIDE DEF p, q, r
<1>5. CASE end = 1000
  <2>1. 0 <= f * (1000 - start) /\ f * (1000 - start) <= 1000 * (1000 - start)
    BY <1>1
  <2>2. 0 <= p /\ p <= 1000
    BY <1>1, <1>3, <1>5, <2>1
  <2>3. 0 <= (g - f) * (1000 - start) /\ (g - f) * (1000 - start) <= 1000 * (g - f)
    BY <1>1
  <2>4. p <= q /\ q - p <= g - f
    BY <1>1, <1>3, <1>5, <2>3
  <2>5. q <= 1000
    <3>1. g * (1000 - start) <= 1000 * (1000 - start)
      BY <1>1
    <3>2. QED
      BY <1>1, <1>3, <1>5, <3>1
  <2>6. start <= other => 0 <= (1000 - f) * (other - start) /\ (1000 - f) * (other - start) <= 1000 * (other - start)
    BY <1>1
  <2>7. other <= start => 0 <= (1000 - f) * (start - other) /\ (1000 - f) * (start - other) <= 1000 * (start - other)
    BY <1>1
  <2>8. start <= other => p <= r /\ r - p <= other - start
    BY <1>1, <1>3, <1>5, <2>6
  <2>9. other <= start => r <= p /\ p - r <= start - other
    BY <1>1, <1>3, <1>5, <2>7
  <2>10. /\ p \in 0..1000 /\ Distance(q, p) <= g - f /\ Distance(q, end) <= Distance(p, end)
         /\ Distance(p, r) <= Distance(start, other)
    BY <1>1, <1>3, <1>5, <2>2, <2>4, <2>5, <2>8, <2>9 DEF Distance
  <2>11. QED
    BY <1>4, <2>10, Zenon DEF Top, p, q, r
<1>6. CASE end = 0
  <2>1. 0 <= f * start /\ f * start <= 1000 * start
    BY <1>1
  <2>2. 0 <= p /\ p <= 1000
    BY <1>1, <1>3, <1>6, <2>1
  <2>3. 0 <= (g - f) * start /\ (g - f) * start <= 1000 * (g - f)
    BY <1>1
  <2>4. q <= p /\ p - q <= g - f
    BY <1>1, <1>3, <1>6, <2>3
  <2>5. 0 <= q
    <3>1. g * start <= 1000 * start
      BY <1>1
    <3>2. QED
      BY <1>1, <1>3, <1>6, <3>1
  <2>6. start <= other => 0 <= (1000 - f) * (other - start) /\ (1000 - f) * (other - start) <= 1000 * (other - start)
    BY <1>1
  <2>7. other <= start => 0 <= (1000 - f) * (start - other) /\ (1000 - f) * (start - other) <= 1000 * (start - other)
    BY <1>1
  <2>8. start <= other => p <= r /\ r - p <= other - start
    BY <1>1, <1>3, <1>6, <2>6
  <2>9. other <= start => r <= p /\ p - r <= start - other
    BY <1>1, <1>3, <1>6, <2>7
  <2>10. /\ p \in 0..1000 /\ Distance(q, p) <= g - f /\ Distance(q, end) <= Distance(p, end)
         /\ Distance(p, r) <= Distance(start, other)
    BY <1>1, <1>3, <1>6, <2>2, <2>4, <2>5, <2>8, <2>9 DEF Distance
  <2>11. QED
    BY <1>4, <2>10, Zenon DEF Top, p, q, r
<1>7. QED
  BY <1>1, <1>5, <1>6

------------------------------------------------------------------------------
(* The estimate                                                             *)

Moving == [position : 0..Top, target : {0, Top}, start : 0..Top, duration : Nat \ {0}, elapsed : Nat]
Rested == {Resting(p) : p \in {Unknown} \cup 0..Top}

\* A movement is that of the travel to its target, and is not longer.
Estimates == Rested \cup {m \in Moving : m.duration = DurationTo(m.target) /\ m.elapsed <= m.duration}

\* A slider movement: where from, where to, and to which end.
Sensible(goal, current, end) ==
    /\ goal \in 0..Top /\ current \in 0..Top /\ Distance(goal, current) >= Percent
    /\ end = IF goal > current THEN Top ELSE 0

Types ==
    /\ est \in Estimates
    /\ command.op \in {"none", "move", "pause"} /\ (command.op = "none" => command = None)
    /\ command.end \in {0, Top}
    /\ autoStop \in Nat \cup {Off}
    /\ command.goal # Unknown =>
          /\ command.op = "move" /\ Sensible(command.goal, command.current, command.end)
          /\ command.delay = StopDelay(command.goal, command.current, command.end)

\* Movements in both directions take time.
LEMMA Durations == \A end \in {0, Top} : DurationTo(end) \in Nat \ {0}
BY DurationAssumption DEF DurationTo

\* An estimate at rest: known or not, without a target.
LEMMA RestedIs ==
    ASSUME NEW m \in Rested
    PROVE  ~IsMoving(m) /\ PositionAt(m) = m.position /\ m.position \in {Unknown} \cup 0..Top /\ Resolved(m) = m
BY DEF Rested, Resting, IsMoving, PositionAt, Resolved

\* An estimate that rests has no movement.
LEMMA RestingIs ==
    ASSUME NEW p \in {Unknown} \cup 0..Top
    PROVE  Resting(p) \in Rested /\ PositionAt(Resting(p)) = p /\ ~IsMoving(Resting(p))
BY DEF Rested, Resting, IsMoving, PositionAt

\* A movement is where the curve says.
LEMMA MovingIs ==
    ASSUME NEW m \in Moving, m.elapsed <= m.duration
    PROVE  /\ IsMoving(m) /\ Share(m.elapsed, m.duration) \in 0..Unit
           /\ EasedFraction(Share(m.elapsed, m.duration)) \in 0..Unit
           /\ PositionAt(m) = Place(m.start, m.target, EasedFraction(Share(m.elapsed, m.duration)))
           /\ PositionAt(m) \in 0..Top
           /\ m.elapsed = 0 => PositionAt(m) = m.start
           /\ m.elapsed = m.duration => PositionAt(m) = m.target
<1> DEFINE share == Share(m.elapsed, m.duration)
           eased == EasedFraction(share)
<1>1. /\ m.start \in 0..Top /\ m.target \in {0, Top} /\ m.duration \in Nat \ {0} /\ m.elapsed \in Nat
      /\ m.target # Unknown
  BY DEF Moving, Unknown, Top
<1>2. ASSUME m.elapsed = m.duration PROVE share = Unit
  <2>1. PICK d \in Nat \ {0} : d = m.duration
    BY <1>1
  <2>2. PICK q \in Int : q = (d * 1000) \div d
    BY <2>1
  <2>3. d * q <= d * 1000 /\ d * 1000 < d * q + d
    BY <2>2, Divided
  <2>4. d * (1000 - q) >= 0 /\ d * (q + 1 - 1000) > 0
    BY <2>3
  <2>5. q <= 1000 /\ q + 1 > 1000
    BY <2>4
  <2>6. share = q
    BY <1>2, <2>1, <2>2 DEF Share, Unit
  <2>7. QED
    BY <2>5, <2>6 DEF Unit
<1>3. m.elapsed = 0 => share = 0
  <2>1. PICK d \in Nat \ {0} : d = m.duration
    BY <1>1
  <2>2. (0 * 1000) \div d = 0
    BY <2>1
  <2>3. QED
    BY <2>1, <2>2 DEF Share, Unit
<1>4. share \in 0..Unit
  <2>1. CASE m.elapsed < m.duration
    BY <1>1, <2>1, ShareOfTick
  <2>2. CASE m.elapsed = m.duration
    BY <1>2, <2>2 DEF Unit
  <2>3. QED
    BY <1>1, <2>1, <2>2
<1> HIDE DEF share
<1>5. eased \in 0..Unit
  <2>1. share <= share
    BY <1>4
  <2>2. QED
    BY <1>4, <2>1, EasedSlope
<1>6. PositionAt(m) = IF eased >= Unit THEN m.target
                      ELSE m.start + (eased * (m.target - m.start)) \div Unit
  BY <1>1, Zenon DEF PositionAt, IsMoving, share, Share
<1> HIDE DEF eased
<1>7. /\ Place(m.start, m.target, Unit) = m.target /\ Place(m.start, m.target, 0) = m.start
      /\ Place(m.start, m.target, eased) \in 0..Top
  <2>1. eased <= eased
    BY <1>5
  <2>2. QED
    BY <1>1, <1>5, <2>1, PlaceOnWay
<1>8. PositionAt(m) = Place(m.start, m.target, eased)
  <2>1. CASE eased >= Unit
    <3>1. eased = Unit
      BY <1>5, <2>1 DEF Unit
    <3>2. QED
      BY <1>6, <1>7, <2>1, <3>1
  <2>2. CASE ~(eased >= Unit)
    BY <1>6, <2>2 DEF Place
  <2>3. QED
    BY <2>1, <2>2
<1>9. m.elapsed = 0 => eased = 0
  BY <1>3, EasedEnds DEF eased
<1>10. m.elapsed = m.duration => eased = Unit
  BY <1>2, EasedEnds DEF eased
<1>11. IsMoving(m)
  BY <1>1 DEF IsMoving
<1>12. QED
  BY <1>4, <1>5, <1>7, <1>8, <1>9, <1>10, <1>11, Zenon DEF eased, share

\* What PositionAt reads of an estimate at rest and of one that moves.
LEMMA EstimateIs ==
    ASSUME NEW m \in Estimates
    PROVE  /\ PositionAt(m) \in {Unknown} \cup 0..Top
           /\ IsMoving(m) => m \in Moving /\ m.duration = DurationTo(m.target) /\ m.elapsed <= m.duration
           /\ Resolved(m) \in Estimates /\ PositionAt(Resolved(m)) = PositionAt(m)
<1>1. CASE m \in Rested
  BY <1>1, RestedIs DEF Estimates
<1>2. CASE m \in Moving /\ m.duration = DurationTo(m.target) /\ m.elapsed <= m.duration
  <2>1. PositionAt(m) \in 0..Top /\ (m.elapsed = m.duration => PositionAt(m) = m.target)
    BY <1>2, MovingIs
  <2>2. m.elapsed \in Nat /\ m.duration \in Nat /\ m.target \in 0..Top
    BY <1>2 DEF Moving, Top
  <2>3. CASE Resolved(m) = m
    BY <1>2, <2>1, <2>3
  <2>4. CASE Resolved(m) = Resting(m.target) /\ m.elapsed >= m.duration
    <3>1. PositionAt(m) = m.target
      BY <1>2, <2>1, <2>2, <2>4
    <3>2. QED
      BY <1>2, <2>1, <2>2, <2>4, <3>1, RestingIs DEF Estimates
  <2>5. QED
    BY <2>3, <2>4 DEF Resolved
<1>3. QED
  BY <1>1, <1>2 DEF Estimates

\* A movement starts where the cover is, or at the other end if that is not known.
LEMMA StartIs ==
    ASSUME NEW m \in Estimates, NEW target \in {0, Top}
    PROVE  LET n == Start(m, target, DurationTo(target))
           IN  /\ n \in Estimates /\ n \in Moving /\ IsMoving(n)
               /\ n.target = target /\ n.elapsed = 0 /\ PositionAt(n) = n.start
               /\ n.start = IF PositionAt(m) = Unknown THEN Top - target ELSE PositionAt(m)
<1> DEFINE n == Start(m, target, DurationTo(target))
           current == IF PositionAt(m) = Unknown THEN Top - target ELSE PositionAt(m)
<1>1. n = [position |-> current, target |-> target, start |-> current,
           duration |-> DurationTo(target), elapsed |-> 0]
  BY DEF Start
<1>2. current \in 0..Top
  <2>1. PositionAt(m) \in {Unknown} \cup 0..Top
    BY EstimateIs
  <2>2. Top - target \in 0..Top
    BY DEF Top
  <2>3. QED
    BY <2>1, <2>2, Zenon
<1>3. DurationTo(target) \in Nat \ {0}
  BY Durations
<1> HIDE DEF n, current
<1>4. n \in Moving /\ n.target = target /\ n.elapsed = 0 /\ n.start = current /\ n.duration = DurationTo(target)
  BY <1>1, <1>2, <1>3 DEF Moving
<1>5. n.elapsed <= n.duration
  BY <1>3, <1>4
<1>6. IsMoving(n) /\ PositionAt(n) = n.start
  BY <1>4, <1>5, MovingIs
<1>7. n \in Estimates
  BY <1>4, <1>5 DEF Estimates
<1>8. QED
  BY <1>4, <1>6, <1>7, Zenon DEF n, current

------------------------------------------------------------------------------
(* The slider                                                               *)

\* The share of the way to the end that the goal is at, and the eased one of the time.
GoalShare(goal, current, end) == (Distance(goal, current) * Unit) \div Distance(end, current)
GoalTime(goal, current, end) == InverseEasedFraction(GoalShare(goal, current, end))

\* The share of the way to a goal lies between nothing and all of it.
LEMMA GoalShareIs ==
    ASSUME NEW goal, NEW current, NEW end, Sensible(goal, current, end)
    PROVE  /\ end \in {0, Top} /\ GoalShare(goal, current, end) \in 0..Unit
           /\ LET way == Distance(end, current)
                  share == GoalShare(goal, current, end)
              IN  /\ way \in 1..Top /\ Distance(goal, current) \in 1..Top
                  /\ way * share <= 1000 * Distance(goal, current)
                  /\ 1000 * Distance(goal, current) < way * share + way
<1>1. /\ goal \in Int /\ current \in Int /\ 0 <= goal /\ goal <= 1000 /\ 0 <= current /\ current <= 1000
      /\ end = IF goal > current THEN 1000 ELSE 0
  BY DEF Sensible, Top
<1>2. Distance(goal, current) >= 10
  BY DEF Sensible, Percent, Top
<1>3. PICK dist \in Int, way \in Int : dist = Distance(goal, current) /\ way = Distance(end, current)
  <2>1. end \in Int
    BY <1>1
  <2>2. \A x \in Int, y \in Int : Distance(x, y) \in Int
    BY DEF Distance
  <2>3. goal \in Int /\ current \in Int
    BY <1>1
  <2>4. Distance(goal, current) \in Int /\ Distance(end, current) \in Int
    BY <2>1, <2>2, <2>3, Zenon
  <2>5. QED
    BY <2>4, Zenon
<1>4. 1 <= dist /\ dist <= way /\ way <= 1000
  BY <1>1, <1>2, <1>3 DEF Distance
<1>5. PICK share \in Int : share = (dist * 1000) \div way
  BY <1>4
<1>6. way * share <= 1000 * dist /\ 1000 * dist < way * share + way
  <2>1. way \in Nat \ {0} /\ dist * 1000 \in Int /\ dist * 1000 = 1000 * dist
    BY <1>4
  <2>2. QED
    BY <1>5, <2>1, Divided
<1>7. 0 <= share /\ share <= 1000
  <2>1. way * (share + 1) > 0 /\ way * (1000 - share) >= 0
    BY <1>4, <1>6
  <2>2. share + 1 > 0 /\ 1000 - share >= 0
    BY <1>4, <2>1
  <2>3. QED
    BY <2>2
<1>8. GoalShare(goal, current, end) = share
  BY <1>3, <1>5 DEF GoalShare, Unit
<1>9. end \in {0, Top} /\ share \in 0..Unit /\ way \in 1..Top /\ dist \in 1..Top
  BY <1>1, <1>4, <1>7 DEF Top, Unit
<1>10. QED
  BY <1>3, <1>6, <1>8, <1>9

\* The auto-stop is due at the first tick at which the share of the time is that of the goal.
LEMMA StopDelayIs ==
    ASSUME NEW goal, NEW current, NEW end, Sensible(goal, current, end)
    PROVE  /\ GoalTime(goal, current, end) \in 0..Unit
           /\ LET delay == StopDelay(goal, current, end)
                  time == GoalTime(goal, current, end)
                  d == DurationTo(end)
              IN  /\ delay \in Nat /\ delay <= d
                  /\ time * d <= 1000 * delay /\ 1000 * delay <= time * d + 999
<1>1. end \in {0, Top} /\ GoalShare(goal, current, end) \in 0..Unit
  BY GoalShareIs
<1>2. GoalTime(goal, current, end) \in 0..Unit
  BY <1>1, InverseAssumption DEF GoalTime
<1>3. PICK time \in 0..1000, d \in Nat \ {0} :
        time = GoalTime(goal, current, end) /\ d = DurationTo(end)
  BY <1>1, <1>2, Durations DEF Unit
<1>4. PICK delay \in Int : delay = (time * d + 999) \div 1000
  OBVIOUS
<1>5. 1000 * delay <= time * d + 999 /\ time * d + 999 < 1000 * delay + 1000
  BY <1>4
<1>6. 0 <= time * d /\ time * d <= 1000 * d
  OBVIOUS
<1>7. 0 <= delay /\ delay <= d
  BY <1>5, <1>6
<1>8. StopDelay(goal, current, end) = delay
  <2>1. StopDelay(goal, current, end) = (time * d + Unit - 1) \div Unit
    BY <1>3, Zenon DEF StopDelay, GoalTime, GoalShare
  <2>2. time * d + Unit - 1 = time * d + 999
    BY DEF Unit
  <2>3. QED
    BY <1>4, <2>1, <2>2 DEF Unit
<1>9. QED
  BY <1>2, <1>3, <1>5, <1>6, <1>7, <1>8

------------------------------------------------------------------------------
(* The steps                                                                *)

\* A record with other fields has their values.
LEMMA CommandIs ==
    /\ None.op = "none" /\ None.end \in {0, Top} /\ None.goal = Unknown
    /\ \A op, end : /\ [None EXCEPT !.op = op, !.end = end].op = op
                    /\ [None EXCEPT !.op = op, !.end = end].end = end
                    /\ [None EXCEPT !.op = op, !.end = end].goal = Unknown
    /\ \A op : /\ [None EXCEPT !.op = op].op = op /\ [None EXCEPT !.op = op].end = 0
               /\ [None EXCEPT !.op = op].goal = Unknown
BY DEF None

\* A command starts or pauses a movement where the cover is.
LEMMA SentIs ==
    ASSUME Types, Sent
    PROVE  /\ est' \in Estimates
           /\ \/ PositionAt(est') = PositionAt(est)
              \/ PositionAt(est) = Unknown /\ IsMoving(est') /\ PositionAt(est') = Top - est'.target
<1>1. /\ est \in Estimates /\ command.end \in {0, Top}
      /\ est' = IF command.op = "move" THEN Start(est, command.end, DurationTo(command.end))
                ELSE Paused(est)
  BY DEF Sent, Types
<1>2. CASE command.op = "move"
  <2>1. est' = Start(est, command.end, DurationTo(command.end))
    BY <1>1, <1>2
  <2>2. /\ est' \in Estimates /\ IsMoving(est') /\ est'.target = command.end
        /\ PositionAt(est') = IF PositionAt(est) = Unknown THEN Top - command.end ELSE PositionAt(est)
    BY <1>1, <2>1, StartIs
  <2>3. QED
    BY <2>2
<1>3. CASE command.op # "move"
  <2>1. est' = Resting(PositionAt(est))
    BY <1>1, <1>3 DEF Paused
  <2>2. PositionAt(est) \in {Unknown} \cup 0..Top
    BY <1>1, EstimateIs
  <2>3. QED
    BY <2>1, <2>2, RestingIs DEF Estimates
<1>4. QED
  BY <1>2, <1>3

\* The travel of a tick: at most the curve's steepest slope takes it.
LEMMA TravelOfTick ==
    ASSUME NEW d \in Nat \ {0}
    PROVE  /\ TickOf(d) \in Nat /\ TickOf(d) >= 2
           /\ \A way \in Nat, moved \in Int :
                d * way < Unit + d /\ 2 * moved <= 3 * way + 1 => moved <= TickOf(d)
           /\ \A way \in Nat, moved \in Int :
                d * way < Unit /\ 2 * moved <= 3 * way + 1 => moved + 1 <= TickOf(d)
<1> DEFINE t == (3 * Top) \div (2 * d)
<1>1. t \in Int /\ 2 * d * t <= 3000 /\ 3000 < 2 * d * t + 2 * d
  <2>1. 2 * d \in Nat \ {0} /\ 3 * Top = 3000
    BY DEF Top
  <2>2. PICK e \in Nat \ {0}, a \in Int : e = 2 * d /\ a = 3000
    BY <2>1
  <2>3. t = a \div e
    BY <2>1, <2>2
  <2> HIDE DEF t
  <2>4. t \in Int /\ e * t <= a /\ a < e * t + e
    BY <2>3, Divided
  <2>5. QED
    BY <2>2, <2>4
<1> HIDE DEF t
<1>2. t >= 0
  <2>1. 2 * d * (t + 1) > 0
    BY <1>1
  <2>2. t + 1 > 0
    BY <1>1, <2>1
  <2>3. QED
    BY <1>1, <2>2
<1>3. TickOf(d) = t + 2
  BY DEF TickOf, t
<1>4. ASSUME NEW way \in Nat, NEW moved \in Int, d * way < 1000 + d, 2 * moved <= 3 * way + 1
      PROVE  moved <= t + 2
  <2> SUFFICES ASSUME moved >= t + 3 PROVE FALSE
    BY <1>1
  <2>1. 3 * way >= 2 * t + 5
    BY <1>1, <1>4
  <2>2. d * (3 * way) >= d * (2 * t + 5)
    BY <1>1, <2>1
  <2>3. d * (3 * way) = 3 * (d * way) /\ d * (2 * t + 5) = 2 * d * t + 5 * d
    BY <1>1
  <2>4. QED
    BY <1>1, <1>4, <2>2, <2>3
<1>5. ASSUME NEW way \in Nat, NEW moved \in Int, d * way < 1000, 2 * moved <= 3 * way + 1
      PROVE  moved <= t + 1
  <2> SUFFICES ASSUME moved >= t + 2 PROVE FALSE
    BY <1>1
  <2>1. 3 * way >= 2 * t + 3
    BY <1>1, <1>5
  <2>2. d * (3 * way) >= d * (2 * t + 3)
    BY <1>1, <2>1
  <2>3. d * (3 * way) = 3 * (d * way) /\ d * (2 * t + 3) = 2 * d * t + 3 * d
    BY <1>1
  <2>4. QED
    BY <1>1, <1>5, <2>2, <2>3
<1>6. QED
  BY <1>1, <1>2, <1>3, <1>4, <1>5 DEF Unit

\* A tick moves the estimate towards the target, and no faster than the travel.
LEMMA TickIs ==
    ASSUME Types, Tick
    PROVE  /\ est' \in Estimates
           /\ \/ est' = est
              \/ /\ est'.elapsed = est.elapsed + 1
                 /\ Distance(PositionAt(est'), PositionAt(est)) <= TickOf(est.duration)
                 /\ Distance(PositionAt(est'), est.target) <= Distance(PositionAt(est), est.target)
<1>1. \/ IsMoving(est) /\ est.elapsed < est.duration /\ est' = [est EXCEPT !.elapsed = @ + 1]
      \/ est' = est
  BY DEF Tick
<1>2. CASE est' = est
  BY <1>2 DEF Types
<1>3. CASE IsMoving(est) /\ est.elapsed < est.duration /\ est' = [est EXCEPT !.elapsed = @ + 1]
  <2>1. est \in Moving /\ est.duration = DurationTo(est.target)
    BY <1>3, EstimateIs DEF Types
  <2>2. PICK d \in Nat \ {0}, e \in Nat, s \in 0..Top, t \in {0, Top} :
          d = est.duration /\ e = est.elapsed /\ s = est.start /\ t = est.target /\ e < d
    BY <1>3, <2>1 DEF Moving
  <2>3. /\ est' \in Moving /\ est'.duration = d /\ est'.elapsed = e + 1 /\ est'.start = s /\ est'.target = t
    BY <1>3, <2>1, <2>2 DEF Moving
  <2> DEFINE x == Share(e, d)
             y == Share(e + 1, d)
             f == EasedFraction(x)
             g == EasedFraction(y)
  <2>4. e <= d /\ e + 1 <= d
    BY <2>2
  <2>5. PositionAt(est) = Place(s, t, f) /\ PositionAt(est') = Place(s, t, g)
    BY <2>1, <2>2, <2>3, <2>4, MovingIs
  <2>6. x \in 0..Unit /\ y \in 0..Unit /\ x <= y /\ d * (y - x) < Unit + d
    BY <2>2, ShareOfTick
  <2> HIDE DEF x, y
  <2>7. f \in 0..Unit /\ g \in 0..Unit /\ f <= g /\ 2 * (g - f) <= 3 * (y - x) + 1
    BY <2>6, EasedSlope
  <2> HIDE DEF f, g
  <2>8. y - x \in Nat /\ g - f \in Int
    BY <2>6, <2>7
  <2>9. g - f <= TickOf(d) /\ TickOf(d) \in Nat
    BY <2>6, <2>7, <2>8, TravelOfTick
  <2>10. /\ Distance(Place(s, t, g), Place(s, t, f)) <= g - f
         /\ Distance(Place(s, t, g), t) <= Distance(Place(s, t, f), t)
         /\ Place(s, t, g) \in 0..Top /\ Place(s, t, f) \in 0..Top
    <3>1. g <= g /\ f <= f
      BY <2>7
    <3>2. QED
      BY <2>7, <3>1, PlaceOnWay
  <2>11. Distance(Place(s, t, g), Place(s, t, f)) <= TickOf(d)
    <3>1. Distance(Place(s, t, g), Place(s, t, f)) \in Int
      BY <2>10 DEF Distance
    <3>2. QED
      BY <2>8, <2>9, <2>10, <3>1
  <2>12. est' \in Estimates
    BY <2>1, <2>2, <2>3, <2>4 DEF Estimates
  <2>13. QED
    BY <2>2, <2>3, <2>5, <2>10, <2>11, <2>12
<1>4. QED
  BY <1>1, <1>2, <1>3

\* The estimate starts at rest.
LEMMA InitTypes == Init => Types
<1> SUFFICES ASSUME Init PROVE Types
  OBVIOUS
<1>1. est = Resting(Unknown) /\ command = None /\ autoStop = Off
  BY DEF Init
<1>2. est \in Estimates
  BY <1>1, RestingIs DEF Estimates
<1>3. QED
  BY <1>1, <1>2, CommandIs DEF Types

\* Commands of the user, which leave the estimate where it is.
LEMMA CallsType ==
    ASSUME Types, Calls,
           \/ \E op \in {"move", "pause"}, end \in {0, Top} :
                 command' = [None EXCEPT !.op = op, !.end = end] /\ est' = est
           \/ \E goal \in Goal : Slides(goal)
    PROVE  Types' /\ PositionAt(est') = PositionAt(est)
<1>1. autoStop' = Off
  BY DEF Calls
<1>2. CASE \E op \in {"move", "pause"}, end \in {0, Top} :
              command' = [None EXCEPT !.op = op, !.end = end] /\ est' = est
  BY <1>1, <1>2, CommandIs DEF Types
<1>3. CASE \E goal \in Goal : Slides(goal)
  <2> DEFINE known == PositionAt(est)
             from(goal) == IF known # Unknown THEN known ELSE IF 2 * goal >= Top THEN 0 ELSE Top
             to(goal, current) == IF goal > current THEN Top ELSE 0
  <2>1. PICK goal \in Goal :
          /\ Distance(goal, from(goal)) >= Percent /\ est' = Resolved(est)
          /\ command' = [op |-> "move", end |-> to(goal, from(goal)), goal |-> goal, current |-> from(goal),
                         delay |-> StopDelay(goal, from(goal), to(goal, from(goal)))]
    BY <1>3, Zenon DEF Slides
  <2>2. est' \in Estimates /\ PositionAt(est') = PositionAt(est) /\ known \in {Unknown} \cup 0..Top
    BY <2>1, EstimateIs DEF Types
  <2>3. goal \in 0..Top /\ from(goal) \in 0..Top
    BY <2>2, GoalAssumption DEF Top
  <2> HIDE DEF known, from
  <2>4. Sensible(goal, from(goal), to(goal, from(goal)))
    BY <2>1, <2>3 DEF Sensible
  <2>5. to(goal, from(goal)) \in {0, Top}
    OBVIOUS
  <2> HIDE DEF to
  <2>6. QED
    BY <1>1, <2>1, <2>2, <2>4, <2>5 DEF Types
<1>4. QED
  BY <1>2, <1>3

\* What the next state's estimate has to do with this one's.
Smooth ==
    \/ PositionAt(est') = PositionAt(est)
    \/ est' = Resting(0)
    \/ PositionAt(est) = Unknown /\ IsMoving(est') /\ PositionAt(est') = Top - est'.target
    \/ /\ est'.elapsed = est.elapsed + 1
       /\ Distance(PositionAt(est'), PositionAt(est)) <= TickOf(est.duration)
       /\ Distance(PositionAt(est'), est.target) <= Distance(PositionAt(est), est.target)

\* Every step keeps the types, and moves the estimate no further than the curve's slope allows.
LEMMA NextTypes == Types /\ [Next]_vars => Types' /\ Smooth
<1> SUFFICES ASSUME Types, [Next]_vars PROVE Types' /\ Smooth
  OBVIOUS
<1>1. CASE UNCHANGED vars
  BY <1>1 DEF vars, Types, Smooth
<1>2. CASE Opens \/ Closes \/ Stops
  <2>1. PICK op \in {"move", "pause"}, end \in {0, Top} : Commands(op, end)
    BY <1>2 DEF Opens, Closes, Stops
  <2>2. Calls /\ command' = [None EXCEPT !.op = op, !.end = end] /\ est' = est
    BY <2>1 DEF Commands
  <2>3. QED
    BY <2>2, CallsType DEF Smooth
<1>3. CASE \E goal \in Goal : Slides(goal)
  <2>1. Calls
    BY <1>3 DEF Slides
  <2>2. QED
    BY <1>3, <2>1, CallsType DEF Smooth
<1>4. CASE Sent
  <2>1. est' \in Estimates /\ Smooth
    BY <1>4, SentIs DEF Smooth
  <2>2. command' = None /\ autoStop' \in Nat \cup {Off}
    <3>1. command' = None /\ (autoStop' = autoStop \/ (command.goal # Unknown /\ autoStop' = command.delay))
      BY <1>4, Zenon DEF Sent
    <3>2. command.goal # Unknown => command.delay \in Nat
      BY StopDelayIs DEF Types
    <3>3. QED
      BY <3>1, <3>2 DEF Types
  <2>3. QED
    BY <1>4, <2>1, <2>2, CommandIs DEF Types
<1>5. CASE Fails
  BY <1>5, CommandIs DEF Fails, Types, Smooth
<1>6. CASE AutoStopFires
  BY <1>6, CommandIs DEF AutoStopFires, Types, Smooth
<1>7. CASE Reads
  <2>1. est' \in Estimates /\ PositionAt(est') = PositionAt(est) /\ UNCHANGED <<command, autoStop>>
    BY <1>7, EstimateIs DEF Reads, Types
  <2>2. QED
    BY <2>1 DEF Types, Smooth
<1>8. CASE ConfirmedClosed
  <2>1. est' = Resting(0) /\ UNCHANGED <<command, autoStop>>
    BY <1>8 DEF ConfirmedClosed
  <2>2. Resting(0) \in Estimates
    BY RestingIs DEF Estimates, Top
  <2>3. QED
    BY <2>1, <2>2 DEF Types, Smooth
<1>9. CASE Tick
  <2>1. est' \in Estimates /\ Smooth
    BY <1>9, TickIs DEF Smooth
  <2>2. UNCHANGED command /\ autoStop' \in Nat \cup {Off}
    BY <1>9 DEF Tick, Left, Types, Off
  <2>3. QED
    BY <2>1, <2>2 DEF Types
<1>10. CASE RetryFires \/ RetryFails
  BY <1>10 DEF RetryFires, RetryFails, Types, Smooth
<1>11. CASE RetryChecks
  <2>1. est' \in {est, Resting(0)} /\ UNCHANGED <<command, autoStop>>
    BY <1>11 DEF RetryChecks
  <2>2. Resting(0) \in Estimates
    BY RestingIs DEF Estimates, Top
  <2>3. QED
    BY <2>1, <2>2 DEF Types, Smooth
<1>12. CASE RetrySent
  <2>1. est' = Start(est, Top, DurationTo(Top)) /\ UNCHANGED <<command, autoStop>>
    BY <1>12 DEF RetrySent, DurationTo
  <2>2. /\ est' \in Estimates /\ IsMoving(est') /\ est'.target = Top
        /\ PositionAt(est') = IF PositionAt(est) = Unknown THEN Top - Top ELSE PositionAt(est)
    BY <2>1, StartIs DEF Types
  <2>3. QED
    BY <2>1, <2>2 DEF Types, Smooth
<1>13. QED
  BY <1>1, <1>2, <1>3, <1>4, <1>5, <1>6, <1>7, <1>8, <1>9, <1>10, <1>11, <1>12 DEF Next

\* The estimate is at rest, or on a movement to one of the ends that has that direction's duration and
\* is not over its time; a slide's goal is one that async_set_cover_position goes on with
\* (MovementEstimator and cover.py's use of it).
THEOREM EstimatesAreMovements == Spec => []Types
BY InitTypes, NextTypes, PTL DEF Spec

\* Starting, redirecting, pausing, finishing and reading a movement never move the estimate:
\* only time does, towards the target and no faster than the travel, and a closed status
\* (MovementEstimator, _handle_coordinator_update), for every length of the travel.
THEOREM OnlyTimeMoves == Spec => EstimateIsSmooth
<1>1. Types /\ [Next]_vars => Smooth
  BY NextTypes
<1>2. Smooth =>
        LET old == PositionAt(est)
            new == PositionAt(est')
        IN  new # old =>
              \/ est' = Resting(0)
              \/ old = Unknown /\ IsMoving(est') /\ new = Top - est'.target
              \/ /\ est'.elapsed = est.elapsed + 1
                 /\ Distance(new, old) <= TickOf(est.duration)
                 /\ Distance(new, est.target) <= Distance(old, est.target)
  BY Zenon DEF Smooth
<1>3. QED
  BY <1>1, <1>2, EstimatesAreMovements, PTL DEF Spec, EstimateIsSmooth

------------------------------------------------------------------------------
(* Where a slider movement ends                                             *)

\* Until the auto-stop fires or a retry starts the gate anew, its time left and the time that
\* has passed are those from where the movement was planned to the goal; it started no farther
\* from there than the drift.
Sliding(current) ==
    /\ Sensible(slide.goal, current, est.target)
    /\ slide.drift = Distance(est.start, current)
    /\ est.elapsed + autoStop = StopDelay(slide.goal, current, est.target)

OnTheWay ==
    /\ command # None => autoStop = Off
    /\ autoStop # Off /\ IsMoving(est) /\ ~slide.restarted => \E current \in 0..Top : Sliding(current)

\* Every step keeps a slide on its way.
LEMMA OnTheWayNext == Types /\ OnTheWay /\ [Next]_vars => OnTheWay'
<1> SUFFICES ASSUME Types, OnTheWay, [Next]_vars PROVE OnTheWay'
  OBVIOUS
<1>1. CASE UNCHANGED vars
  BY <1>1 DEF vars, OnTheWay, Sliding
<1>2. CASE autoStop' = Off
  BY <1>2 DEF OnTheWay
<1>3. CASE Opens \/ Closes \/ Stops \/ AutoStopFires \/ \E goal \in Goal : Slides(goal)
  BY <1>2, <1>3 DEF Opens, Closes, Stops, Commands, Slides, Calls, AutoStopFires
<1>4. CASE Sent
  <2>1. command # None /\ command' = None /\ autoStop = Off
    BY <1>4 DEF Sent, OnTheWay
  <2>2. CASE command.goal = Unknown
    BY <1>2, <1>4, <2>1, <2>2 DEF Sent
  <2>3. CASE command.goal # Unknown
    <3>1. /\ command.op = "move" /\ Sensible(command.goal, command.current, command.end)
          /\ command.delay = StopDelay(command.goal, command.current, command.end)
      BY <2>3 DEF Types
    <3>2. /\ est' = Start(est, command.end, DurationTo(command.end)) /\ autoStop' = command.delay
          /\ slide' = [goal |-> command.goal, restarted |-> FALSE,
                       drift |-> Distance(PositionAt(est'), command.current)]
      BY <1>4, <2>3, <3>1 DEF Sent
    <3>3. /\ est'.target = command.end /\ est'.elapsed = 0 /\ PositionAt(est') = est'.start
      BY <3>2, StartIs DEF Types
    <3>4. slide'.goal = command.goal /\ slide'.drift = Distance(est'.start, command.current)
      BY <3>2, <3>3
    <3>5. command.delay \in Nat /\ command.current \in 0..Top
      BY <3>1, StopDelayIs DEF Sensible
    <3>6. est'.elapsed + autoStop' = command.delay
      BY <3>2, <3>3, <3>5
    <3>7. PICK current \in 0..Top : current = command.current
      BY <3>5
    <3>8. Sliding(current)'
      BY <3>1, <3>3, <3>4, <3>6, <3>7 DEF Sliding
    <3>9. QED
      BY <2>1, <3>8 DEF OnTheWay
  <2>4. QED
    BY <2>2, <2>3
<1>5. CASE Fails
  BY <1>2, <1>5 DEF Fails, OnTheWay
<1>6. CASE Reads
  <2>1. UNCHANGED <<command, autoStop, slide>> /\ (est' = est \/ est' = Resting(est.target))
    BY <1>6 DEF Reads, Resolved
  <2>2. ~IsMoving(Resting(est.target))
    BY DEF IsMoving, Resting
  <2>3. QED
    BY <2>1, <2>2 DEF OnTheWay, Sliding
<1>7. CASE ConfirmedClosed
  <2>1. UNCHANGED <<command, autoStop, slide>> /\ est' = Resting(0) /\ ~IsMoving(Resting(0))
    BY <1>7 DEF ConfirmedClosed, IsMoving, Resting
  <2>2. QED
    BY <2>1 DEF OnTheWay
<1>8. CASE Tick
  <2>1. /\ UNCHANGED <<command, slide>> /\ autoStop # 0
        /\ est' = IF IsMoving(est) /\ est.elapsed < est.duration
                  THEN [est EXCEPT !.elapsed = @ + 1] ELSE est
        /\ autoStop' = IF autoStop = Off THEN Off ELSE autoStop - 1
    BY <1>8 DEF Tick, Left
  <2>2. CASE autoStop # Off /\ IsMoving(est) /\ ~slide.restarted
    <3>1. PICK current \in 0..Top : Sliding(current)
      BY <2>2 DEF OnTheWay
    <3>2. est \in Moving /\ est.duration = DurationTo(est.target) /\ est.elapsed \in Nat /\ autoStop \in Nat
      BY <2>2, EstimateIs DEF Types, Moving
    <3>3. est.elapsed < est.duration
      <4>1. est.elapsed + autoStop <= est.duration
        BY <3>1, <3>2, StopDelayIs DEF Sliding
      <4>2. est.duration \in Nat
        BY <3>2 DEF Moving
      <4>3. QED
        BY <2>1, <3>2, <4>1, <4>2
    <3>4. est' = [est EXCEPT !.elapsed = @ + 1] /\ autoStop' = autoStop - 1
      BY <2>1, <2>2, <3>3
    <3>5. est'.elapsed = est.elapsed + 1 /\ est'.start = est.start /\ est'.target = est.target
      BY <3>2, <3>4 DEF Moving
    <3>6. est'.elapsed + autoStop' = est.elapsed + autoStop
      BY <3>2, <3>4, <3>5
    <3>7. Sliding(current)'
      BY <2>1, <3>1, <3>5, <3>6 DEF Sliding
    <3>8. command = None
      BY <2>2 DEF OnTheWay
    <3>9. QED
      BY <2>1, <3>7, <3>8 DEF OnTheWay
  <2>3. CASE autoStop = Off
    BY <1>2, <2>1, <2>3
  <2>4. CASE autoStop # Off /\ ~IsMoving(est)
    <3>1. est' = est /\ UNCHANGED command
      BY <2>1, <2>4
    <3>2. QED
      BY <2>4, <3>1 DEF OnTheWay
  <2>6. CASE autoStop # Off /\ slide.restarted
    BY <2>1, <2>6 DEF OnTheWay
  <2>5. QED
    BY <2>2, <2>3, <2>4, <2>6
<1>9. CASE RetryFires \/ RetryFails
  BY <1>9 DEF RetryFires, RetryFails, OnTheWay, Sliding
<1>10. CASE RetryChecks
  <2>1. UNCHANGED <<command, autoStop, slide>> /\ est' \in {est, Resting(0)} /\ ~IsMoving(Resting(0))
    BY <1>10 DEF RetryChecks, IsMoving, Resting
  <2>2. QED
    BY <2>1 DEF OnTheWay, Sliding
<1>11. CASE RetrySent
  BY <1>11 DEF RetrySent, OnTheWay
<1>12. QED
  BY <1>1, <1>3, <1>4, <1>5, <1>6, <1>7, <1>8, <1>9, <1>10, <1>11 DEF Next

\* At the time of the auto-stop the place on the way from where the movement was planned is
\* within a tick's travel of the goal.
LEMMA PlaceAtStop ==
    ASSUME NEW goal, NEW current, NEW end, Sensible(goal, current, end),
           NEW share, share = Share(StopDelay(goal, current, end), DurationTo(end))
    PROVE  /\ share \in 0..Unit
           /\ Distance(Place(current, end, EasedFraction(share)), goal) <= TickOf(DurationTo(end))
<1> DEFINE f == EasedFraction(share)
           way == Distance(end, current)
           dist == Distance(goal, current)
           goalShare == GoalShare(goal, current, end)
           time == GoalTime(goal, current, end)
<1>1. /\ end \in {0, Top} /\ goalShare \in 0..Unit /\ way \in 1..Top /\ dist \in 1..Top
      /\ way * goalShare <= 1000 * dist /\ 1000 * dist < way * goalShare + way
  BY GoalShareIs
<1>2. PICK d \in Nat \ {0}, delay \in Nat :
         /\ d = DurationTo(end) /\ delay = StopDelay(goal, current, end) /\ delay <= d
         /\ time * d <= 1000 * delay /\ 1000 * delay <= time * d + 999
  BY <1>1, StopDelayIs, Durations
<1>3. time \in 0..Unit /\ EasedFraction(time) \in 0..Unit /\ Distance(EasedFraction(time), goalShare) <= 1
  <2>1. time \in 0..Unit /\ Distance(EasedFraction(time), goalShare) <= 1
    BY <1>1, InverseAssumption DEF GoalTime
  <2>2. time <= time
    BY <2>1
  <2>3. QED
    BY <2>1, <2>2, EasedSlope
<1> HIDE DEF way, dist, goalShare, time, f
<1>4. /\ share \in Int /\ d * share <= 1000 * delay /\ 1000 * delay < d * share + d
  <2>1. share = (delay * 1000) \div d
    BY <1>2 DEF Share, Unit
  <2>2. delay * 1000 \in Int /\ delay * 1000 = 1000 * delay
    BY <1>2
  <2>3. QED
    BY <2>1, <2>2, Divided
<1>5. share <= 1000 /\ time <= share /\ d * (share - time) < 1000
  <2>1. time \in Int
    BY <1>3
  <2>2. d * (1000 - share) >= 0
    BY <1>2, <1>4
  <2>3. d * (share + 1 - time) > 0
    BY <1>2, <1>4, <2>1
  <2>4. 1000 - share >= 0 /\ share + 1 - time > 0
    BY <1>4, <2>1, <2>2, <2>3
  <2>5. d * (share - time) < 1000
    BY <1>2, <1>4, <2>1
  <2>6. QED
    BY <1>4, <2>1, <2>4, <2>5
<1>6. share \in 0..Unit
  <2>1. time \in Int /\ 0 <= time /\ time <= share /\ share \in Int /\ share <= 1000
    BY <1>3, <1>4, <1>5
  <2>2. QED
    BY <2>1 DEF Unit
<1>7. /\ f \in 0..Unit /\ EasedFraction(time) <= f
      /\ 2 * (f - EasedFraction(time)) <= 3 * (share - time) + 1
  BY <1>3, <1>5, <1>6, EasedSlope DEF f
<1>8. PICK t \in Nat : t = TickOf(d) /\ t >= 2 /\ f - EasedFraction(time) + 1 <= t
  <2>1. share - time \in Nat /\ f - EasedFraction(time) \in Int /\ d * (share - time) < Unit
    <3>1. time \in Int /\ share \in Int /\ time <= share /\ EasedFraction(time) \in Int /\ f \in Int
      BY <1>3, <1>4, <1>5, <1>7
    <3>2. d * (share - time) < Unit
      BY <1>5 DEF Unit
    <3>3. share - time \in Nat /\ f - EasedFraction(time) \in Int
      BY <3>1
    <3>4. QED
      BY <3>2, <3>3
  <2>2. QED
    BY <1>7, <2>1, TravelOfTick
<1>9. /\ f \in Int /\ goalShare \in Int /\ goalShare - 1 <= f /\ f <= goalShare + t
      /\ 0 <= f /\ f <= 1000
  <2>1. PICK g \in Int, h \in Int : g = EasedFraction(time) /\ h = goalShare /\ Distance(g, h) <= 1
    BY <1>1, <1>3
  <2>2. h - 1 <= g /\ g <= h + 1
    BY <2>1 DEF Distance
  <2>3. f \in Int /\ 0 <= f /\ f <= 1000 /\ g <= f /\ f - g + 1 <= t
    BY <1>7, <1>8, <2>1 DEF Unit
  <2>4. QED
    BY <2>1, <2>2, <2>3
<1>10. /\ way \in Int /\ 1 <= way /\ way <= 1000 /\ dist \in Int
       /\ goal \in Int /\ current \in Int
  BY <1>1 DEF Top, Sensible
<1>11. way * f >= way * goalShare - way /\ way * f <= way * goalShare + way * t /\ way * t <= 1000 * t
  BY <1>9, <1>10
<1>12. way * f > 1000 * dist - 2000 /\ way * f <= 1000 * dist + 1000 * t
  BY <1>1, <1>9, <1>10, <1>11
<1>13. \/ end = 1000 /\ dist = goal - current /\ way = 1000 - current
       \/ end = 0 /\ dist = current - goal /\ way = current
  BY DEF Sensible, Distance, Top, dist, way
<1>14. Distance(Place(current, end, f), goal) <= t
  <2>1. PICK q \in Int : /\ q = (f * (end - current)) \div 1000
                         /\ 1000 * q <= f * (end - current) /\ f * (end - current) < 1000 * q + 1000
    BY <1>9, <1>10, <1>13
  <2>2. Place(current, end, f) = current + q
    BY <2>1 DEF Place, Unit
  <2>3. CASE end = 1000 /\ dist = goal - current /\ way = 1000 - current
    <3>1. f * (end - current) = way * f
      BY <1>9, <1>10, <2>3
    <3>2. PICK z \in Int : z = way * f /\ 1000 * q <= z /\ z < 1000 * q + 1000
      BY <1>9, <1>10, <2>1, <3>1
    <3>3. z > 1000 * dist - 2000 /\ z <= 1000 * dist + 1000 * t
      BY <1>12, <3>2
    <3>4. q >= dist - 2 /\ q <= dist + t
      BY <1>8, <1>10, <3>2, <3>3
    <3>5. QED
      BY <1>8, <1>10, <2>2, <2>3, <3>4 DEF Distance
  <2>4. CASE end = 0 /\ dist = current - goal /\ way = current
    <3>1. f * (end - current) = 0 - way * f
      BY <1>9, <1>10, <2>4
    <3>2. PICK z \in Int : z = way * f /\ 1000 * q <= 0 - z /\ 0 - z < 1000 * q + 1000
      BY <1>9, <1>10, <2>1, <3>1
    <3>3. z > 1000 * dist - 2000 /\ z <= 1000 * dist + 1000 * t
      BY <1>12, <3>2
    <3>4. q <= 2 - dist /\ q >= 0 - dist - t
      BY <1>8, <1>10, <3>2, <3>3
    <3>5. QED
      BY <1>8, <1>10, <2>2, <2>4, <3>4 DEF Distance
  <2>5. QED
    BY <1>13, <2>3, <2>4
<1>15. QED
  BY <1>2, <1>6, <1>8, <1>14, Zenon DEF f

\* "Automatically paused near the target": when the auto-stop of a slider movement fires, the
\* estimate is as near the target as the travel of one tick and of the time the command itself
\* took allow, whatever movement the slider interrupted (async_set_cover_position), for every
\* length of the travel and delay of the retry -- unless the retry of an earlier open has
\* started the gate anew meanwhile (cover.py:211-214), of which nothing is claimed.
THEOREM SliderStops == Spec => []SliderStopsNear
<1>1. ASSUME Types, OnTheWay PROVE SliderStopsNear
  <2> SUFFICES ASSUME autoStop = 0, IsMoving(est), ~slide.restarted
               PROVE  Distance(PositionAt(est), slide.goal) <= slide.drift + TickOf(est.duration)
    BY DEF SliderStopsNear
  <2>1. PICK current \in 0..Top : Sliding(current)
    <3>1. autoStop # Off
      BY DEF Off
    <3>2. QED
      BY <1>1, <3>1, Zenon DEF OnTheWay
  <2>2. /\ est \in Moving /\ est.duration = DurationTo(est.target) /\ est.elapsed <= est.duration
        /\ est.elapsed \in Nat /\ est.start \in 0..Top /\ est.target \in {0, Top}
    <3>1. est \in Moving /\ est.duration = DurationTo(est.target) /\ est.elapsed <= est.duration
      BY <1>1, EstimateIs DEF Types
    <3>2. QED
      BY <3>1 DEF Moving
  <2>3. est.elapsed = StopDelay(slide.goal, current, est.target)
    BY <2>1, <2>2 DEF Sliding
  <2> DEFINE share == Share(est.elapsed, est.duration)
             eased == EasedFraction(share)
             planned == Place(current, est.target, eased)
             place == Place(est.start, est.target, eased)
  <2>4. eased \in 0..Unit /\ PositionAt(est) = place
    BY <2>2, MovingIs
  <2>5. Distance(planned, slide.goal) <= TickOf(est.duration)
    BY <2>1, <2>2, <2>3, PlaceAtStop DEF Sliding
  <2> HIDE DEF eased
  <2>6. place \in 0..Top /\ planned \in 0..Top /\ Distance(place, planned) <= Distance(est.start, current)
    <3>1. eased <= eased
      BY <2>4
    <3>2. QED
      BY <2>2, <2>4, <3>1, PlaceOnWay
  <2>7. slide.drift = Distance(est.start, current) /\ slide.goal \in 0..Top
    BY <2>1 DEF Sliding, Sensible
  <2>8. TickOf(est.duration) \in Int
    BY <2>2, TravelOfTick, Durations
  <2> HIDE DEF place, planned
  <2>9. ASSUME NEW a \in 0..Top, NEW b \in 0..Top, NEW c \in 0..Top, NEW m \in Int, NEW n \in Int,
               Distance(a, b) <= m, Distance(b, c) <= n
        PROVE  Distance(a, c) <= m + n
    BY <2>9 DEF Distance
  <2>10. Distance(est.start, current) \in Int
    BY <2>2 DEF Distance
  <2>11. QED
    BY <2>4, <2>5, <2>6, <2>7, <2>8, <2>9, <2>10
<1>2. Init => OnTheWay
  BY DEF Init, OnTheWay
<1>3. QED
  BY <1>1, <1>2, OnTheWayNext, EstimatesAreMovements, PTL DEF Spec

==============================================================================
