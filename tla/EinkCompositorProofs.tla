------------------------ MODULE EinkCompositorProofs ------------------------
(***************************************************************************)
(* Every frame hwc_compose composes is on the panel in full, for every     *)
(* panel, granularity of the EPDC, period of full updates and list of      *)
(* layers that ask for no scaling.                                         *)
(*                                                                         *)
(* A partial update is enough because both pictures are white outside of   *)
(* it: a composed frame is white where no layer covers it (ComposeAll, by  *)
(* induction over the layers), the region touched contains what they cover *)
(* (Touched), and the painted region contains what earlier frames left on  *)
(* the panel (Outside in IInv).  IInv also counts: the update counter is   *)
(* ahead of the partial updates since the last full one (Ghosting).        *)
(***************************************************************************)
EXTENDS EinkCompositor, WellFoundedInduction, TLAPS

------------------------------------------------------------------------------
(* Numbers.                                                                 *)

Less == {p \in Nat \X Nat : p[1] < p[2]}

\* A set of natural numbers has a least element.
LEMMA Least ==
  ASSUME NEW S \in SUBSET Nat, S # {}
  PROVE  \E i \in S : \A j \in S : i <= j
<1>1. IsWellFoundedOn(Less, Nat)
  BY NatLessThanWellFounded DEF OpToRel, Less
<1>2. PICK i \in S : \A j \in S : ~ (<<j, i>> \in Less)
  BY <1>1, WFMin, Zenon
<1>3. ASSUME NEW j \in S PROVE i <= j
  <2>1. i \in Nat /\ j \in Nat /\ <<j, i>> \in Nat \X Nat
    OBVIOUS
  <2>2. <<j, i>>[1] = j /\ <<j, i>>[2] = i
    OBVIOUS
  <2>3. ~ (<<j, i>>[1] < <<j, i>>[2])
    BY <1>2, <2>1, Zenon DEF Less
  <2> QED
    BY <2>1, <2>2, <2>3
<1> QED
  BY <1>3, Zenon

\* A set of numbers with a bound has a least and a greatest element.
LEMMA Extremes ==
  ASSUME NEW S \in SUBSET Int, S # {}, NEW b \in Nat, \A x \in S : -b <= x /\ x <= b
  PROVE  /\ Min(S) \in S /\ \A x \in S : Min(S) <= x
         /\ Max(S) \in S /\ \A x \in S : x <= Max(S)
<1>1. Min(S) \in S /\ \A x \in S : Min(S) <= x
  <2> DEFINE T == {x + b : x \in S}
  <2>1. T \in SUBSET Nat /\ T # {}
    <3>1. \A x \in S : x + b \in Nat
      OBVIOUS
    <3>2. PICK x \in S : TRUE
      BY Zenon
    <3>3. x + b \in T
      BY Zenon
    <3> QED
      BY <3>1, <3>3, Zenon
  <2>2. PICK i \in T : \A j \in T : i <= j
    BY <2>1, Least, Zenon
  <2>3. PICK x \in S : i = x + b
    OBVIOUS
  <2>4. ASSUME NEW y \in S PROVE x <= y
    <3>1. y + b \in T
      OBVIOUS
    <3>2. x + b <= y + b
      BY Zenon, <2>2, <2>3, <3>1
    <3> QED
      BY <3>2
  <2> QED
    BY <2>4, Zenon DEF Min
<1>2. Max(S) \in S /\ \A x \in S : x <= Max(S)
  <2> DEFINE T == {b - x : x \in S}
  <2>1. T \in SUBSET Nat /\ T # {}
    <3>1. \A x \in S : b - x \in Nat
      OBVIOUS
    <3>2. PICK x \in S : TRUE
      BY Zenon
    <3>3. b - x \in T
      BY Zenon
    <3> QED
      BY <3>1, <3>3, Zenon
  <2>2. PICK i \in T : \A j \in T : i <= j
    BY <2>1, Least, Zenon
  <2>3. PICK x \in S : i = b - x
    OBVIOUS
  <2>4. ASSUME NEW y \in S PROVE x >= y
    <3>1. b - y \in T
      OBVIOUS
    <3>2. b - x <= b - y
      BY Zenon, <2>2, <2>3, <3>1
    <3> QED
      BY <3>2
  <2>5. Max(S) \in S /\ \A y \in S : Max(S) >= y
    BY <2>4, Zenon DEF Max
  <2> QED
    BY <2>5
<1> QED
  BY <1>1, <1>2

\* The lesser and the greater of two numbers.
LEMMA Two ==
  ASSUME NEW a \in Int, NEW b \in Int
  PROVE  /\ Min({a, b}) = IF a <= b THEN a ELSE b
         /\ Max({a, b}) = IF a >= b THEN a ELSE b
<1>1. /\ \E x \in {a, b} : \A y \in {a, b} : x =< y
      /\ \E x \in {a, b} : \A y \in {a, b} : x >= y
  OBVIOUS
<1>2. /\ Min({a, b}) \in {a, b} /\ \A y \in {a, b} : Min({a, b}) =< y
      /\ Max({a, b}) \in {a, b} /\ \A y \in {a, b} : Max({a, b}) >= y
  BY <1>1, Zenon DEF Min, Max
<1> QED
  BY <1>2

\* Induction up to n, for a set.
LEMMA Upwards ==
  ASSUME NEW n \in Nat, NEW S, 0 \in S, \A m \in 1 .. n : m - 1 \in S => m \in S
  PROVE  \A m \in 0 .. n : m \in S
<1> DEFINE T == 0 .. n \ S
<1>1. T \in SUBSET Nat
  OBVIOUS
<1>2. ASSUME T # {} PROVE FALSE
  <2>1. PICK m \in T : \A j \in T : m <= j
    BY <1>1, <1>2, Least, Zenon
  <2>2. m \in 1 .. n /\ m - 1 \in 0 .. n /\ m - 1 < m
    OBVIOUS
  <2>3. m - 1 \notin T
    BY <2>1, <2>2
  <2> QED
    BY <2>1, <2>2, <2>3
<1> QED
  BY <1>2

\* Finitely many numbers have a bound.
LEMMA Bound ==
  ASSUME NEW n \in Nat, NEW f, \A i \in 1 .. n : f[i] \in Nat
  PROVE  \E b \in Nat : \A i \in 1 .. n : f[i] <= b
<1> DEFINE Bounded(m) == \E b \in Nat : \A i \in 1 .. m : f[i] <= b
           S == {m \in 0 .. n : Bounded(m)}
<1>1. Bounded(0)
  <2>1. 1 .. 0 = {}
    OBVIOUS
  <2> QED
    BY <2>1
<1>2. ASSUME NEW m \in 1 .. n, Bounded(m - 1)
      PROVE  Bounded(m)
  <2>1. PICK b \in Nat : \A i \in 1 .. m - 1 : f[i] <= b
    BY <1>2
  <2>2. b + f[m] \in Nat /\ \A i \in 1 .. m : f[i] <= b + f[m]
    BY <2>1
  <2> QED
    BY <2>2
<1> HIDE DEF Bounded
<1>3. \A m \in 1 .. n : m - 1 \in S => m \in S
  BY <1>2
<1>4. 0 \in S
  BY <1>1
<1> HIDE DEF S
<1>5. \A m \in 0 .. n : m \in S
  BY <1>3, <1>4, Upwards, Zenon
<1>6. Bounded(n)
  BY <1>5 DEF S
<1> QED
  BY <1>6 DEF Bounded

------------------------------------------------------------------------------
(* What a scene is composed to.                                             *)

\* compose_layer draws inside the layer's frame and nowhere else.
LEMMA LandsInFrame ==
  ASSUME NEW l, IsLayer(l), Composes(l), NEW s \in landing(l), NEW p \in Pixels,
         place(l.xform, s[1], s[2], cw(l), ch(l)) = <<p[1] - l.frame.x0, p[2] - l.frame.y0>>
  PROVE  In(p, l.frame)
<1> DEFINE dw == l.frame.x1 - l.frame.x0
           dh == l.frame.y1 - l.frame.y0
<1>1. l.type = "overlay" /\ HasCorners(l.frame) /\ HasCorners(l.crop) /\ Unscaled(l)
  BY DEF IsLayer, Composes
<1>2. /\ cw(l) \in Int /\ ch(l) \in Int /\ dw \in Int /\ dh \in Int
      /\ l.frame.x0 \in Int /\ l.frame.x1 \in Int /\ l.frame.y0 \in Int /\ l.frame.y1 \in Int
  BY <1>1 DEF HasCorners, cw, ch
<1>3. s[1] \in 0 .. cw(l) - 1 /\ s[2] \in 0 .. ch(l) - 1
  BY DEF landing
<1>4. p[1] \in Int /\ p[2] \in Int
  BY PanelAssumption DEF Pixels
<1>5. CASE l.xform \in {"ROT_90", "ROT_270"}
  <2>1. ch(l) <= dw /\ cw(l) <= dh
    BY <1>1, <1>5, Zenon DEF Unscaled
  <2>2. \/ place(l.xform, s[1], s[2], cw(l), ch(l)) = <<ch(l) - 1 - s[2], s[1]>>
        \/ place(l.xform, s[1], s[2], cw(l), ch(l)) = <<s[2], cw(l) - 1 - s[1]>>
    BY <1>5 DEF place
  <2>3. p[1] - l.frame.x0 \in 0 .. dw - 1 /\ p[2] - l.frame.y0 \in 0 .. dh - 1
    BY <1>2, <1>3, <1>4, <2>1, <2>2
  <2> QED
    BY <1>2, <1>4, <2>3 DEF In
<1>6. CASE l.xform \notin {"ROT_90", "ROT_270"}
  <2>1. cw(l) <= dw /\ ch(l) <= dh
    BY <1>1, <1>6, Zenon DEF Unscaled
  <2>2. \/ place(l.xform, s[1], s[2], cw(l), ch(l)) = <<cw(l) - 1 - s[1], ch(l) - 1 - s[2]>>
        \/ place(l.xform, s[1], s[2], cw(l), ch(l)) = <<cw(l) - 1 - s[1], s[2]>>
        \/ place(l.xform, s[1], s[2], cw(l), ch(l)) = <<s[1], ch(l) - 1 - s[2]>>
        \/ place(l.xform, s[1], s[2], cw(l), ch(l)) = <<s[1], s[2]>>
    BY <1>6 DEF place
  <2>3. p[1] - l.frame.x0 \in 0 .. dw - 1 /\ p[2] - l.frame.y0 \in 0 .. dh - 1
    BY <1>2, <1>3, <1>4, <2>1, <2>2
  <2> QED
    BY <1>2, <1>4, <2>3 DEF In
<1> QED
  BY <1>5, <1>6

\* One layer leaves a picture, and what lies outside of it alone.
Covers(l, p) == l.type = "background" \/ (Composes(l) /\ In(p, l.frame))

LEMMA ComposeOne ==
  ASSUME NEW l, IsLayer(l), NEW pic \in Pictures
  PROVE  /\ compose(pic, l) \in Pictures
         /\ \A p \in Pixels : Covers(l, p) \/ compose(pic, l)[p] = pic[p]
<1>1. CASE l.type = "background"
  <2>1. Gray[l.colour] \in Colours
    BY <1>1, ScenesAssumption DEF IsLayer
  <2>2. compose(pic, l) = Fill(Gray[l.colour])
    <3>1. ~Composes(l)
      BY <1>1 DEF Composes
    <3> QED
      BY <1>1, <3>1, Zenon DEF compose, compose_background
  <2> QED
    BY <1>1, <2>1, <2>2 DEF Fill, Pictures, Covers
<1>2. CASE l.type # "background" /\ ~Composes(l)
  <2>1. compose(pic, l) = pic
    BY <1>2, Zenon DEF compose
  <2> QED
    BY <2>1
<1>3. CASE l.type # "background" /\ Composes(l)
  <2>1. compose(pic, l) = compose_layer(pic, l)
    BY <1>3, Zenon DEF compose
  <2>2. ASSUME NEW p \in Pixels
        PROVE  /\ compose_layer(pic, l)[p] \in Colours
               /\ In(p, l.frame) \/ compose_layer(pic, l)[p] = pic[p]
    <3>1. CASE source_of(l, p) = {}
      BY <3>1 DEF compose_layer, Pictures
    <3>2. CASE source_of(l, p) # {}
      <4>1. PICK s \in source_of(l, p) :
              compose_layer(pic, l)[p]
                = Paint[l.buffer[<<l.crop.x0 + s[1], l.crop.y0 + s[2]>>]][pic[p]]
        BY Zenon, <3>2 DEF compose_layer, blend_px
      <4>2. /\ s \in landing(l)
            /\ place(l.xform, s[1], s[2], cw(l), ch(l)) = <<p[1] - l.frame.x0, p[2] - l.frame.y0>>
            /\ <<l.crop.x0 + s[1], l.crop.y0 + s[2]>> \in DOMAIN l.buffer
        BY DEF source_of, landing
      <4>3. In(p, l.frame)
        BY <1>3, <4>2, LandsInFrame
      <4>4. l.buffer[<<l.crop.x0 + s[1], l.crop.y0 + s[2]>>] \in DOMAIN Paint /\ pic[p] \in Colours
        BY <1>3, <4>2 DEF IsLayer, Composes, Pictures
      <4>5. \A c \in DOMAIN Paint : \A d \in Colours : Paint[c][d] \in Colours
        BY ScenesAssumption
      <4> QED
        BY <4>1, <4>3, <4>4, <4>5, Zenon
    <3> QED
      BY <3>1, <3>2
  <2>3. compose_layer(pic, l) \in Pictures
    BY <2>2 DEF compose_layer, Pictures
  <2> QED
    BY <1>3, <2>1, <2>2, <2>3, Zenon DEF Covers
<1> QED
  BY <1>1, <1>2, <1>3, Zenon

\* The pictures after each layer: the composition loop of hwc_compose is well
\* defined.
Loop(scene, n, f) ==
  /\ f \in [0 .. n -> Pictures] /\ f[0] = Fill(White)
  /\ \A i \in 1 .. n : f[i] = compose(f[i - 1], scene[i])

LEMMA Loops ==
  ASSUME NEW scene \in Scenes
  PROVE  \E f : Loop(scene, Len(scene), f)
<1> DEFINE Has(m) == \E f : Loop(scene, m, f)
           S == {m \in 0 .. Len(scene) : Has(m)}
<1>1. /\ Len(scene) \in Nat
      /\ \A i \in 1 .. Len(scene) : IsLayer(scene[i])
  BY ScenesAssumption
<1>2. Has(0)
  <2> DEFINE f == [i \in 0 .. 0 |-> Fill(White)]
  <2>1. Fill(White) \in Pictures
    BY PanelAssumption DEF Fill, Pictures
  <2>2. Loop(scene, 0, f)
    BY <2>1 DEF Loop
  <2> QED
    BY <2>2
<1>3. ASSUME NEW m \in 1 .. Len(scene), Has(m - 1)
      PROVE  Has(m)
  <2>1. PICK f : Loop(scene, m - 1, f)
    BY <1>3
  <2> DEFINE next == compose(f[m - 1], scene[m])
             g == [i \in 0 .. m |-> IF i = m THEN next ELSE f[i]]
  <2>2. m \in Nat /\ m - 1 \in 0 .. m - 1 /\ f[m - 1] \in Pictures
    BY <1>1, <2>1 DEF Loop
  <2>3. next \in Pictures
    BY <1>1, <2>2, ComposeOne
  <2>4. \A i \in 1 .. m - 1 : f[i] = compose(f[i - 1], scene[i])
    BY <2>1 DEF Loop
  <2>5. f \in [0 .. m - 1 -> Pictures] /\ f[0] = Fill(White)
    BY <2>1 DEF Loop
  <2>6. next = compose(f[m - 1], scene[m])
    OBVIOUS
  <2> HIDE DEF next
  <2>7. g \in [0 .. m -> Pictures] /\ g[0] = Fill(White) /\ g[m] = next
    BY <2>2, <2>3, <2>5
  <2>8. \A i \in 0 .. m - 1 : g[i] = f[i]
    BY <2>2
  <2>9. ASSUME NEW i \in 1 .. m PROVE g[i] = compose(g[i - 1], scene[i])
    <3>1. CASE i = m
      BY <2>2, <2>6, <2>7, <2>8, <3>1
    <3>2. CASE i # m
      <4>1. i \in 1 .. m - 1 /\ i \in 0 .. m - 1 /\ i - 1 \in 0 .. m - 1
        BY <2>2, <3>2
      <4> QED
        BY <2>4, <2>8, <4>1, Zenon
    <3> QED
      BY <3>1, <3>2
  <2> HIDE DEF g
  <2>10. Loop(scene, m, g)
    BY <2>7, <2>9, Zenon DEF Loop
  <2> QED
    BY <2>10
<1> HIDE DEF Has
<1>4. \A m \in 1 .. Len(scene) : m - 1 \in S => m \in S
  BY <1>1, <1>3
<1>5. 0 \in S
  BY <1>1, <1>2
<1> HIDE DEF S
<1>6. \A m \in 0 .. Len(scene) : m \in S
  BY <1>1, <1>4, <1>5, Upwards, Zenon
<1>7. Has(Len(scene))
  BY <1>1, <1>6 DEF S
<1> QED
  BY <1>7 DEF Has

\* A composed frame is a picture, white wherever no layer was drawn.
LEMMA ComposeAll ==
  ASSUME NEW scene \in Scenes
  PROVE  /\ compose_all(scene) \in Pictures
         /\ \A p \in Pixels :
              compose_all(scene)[p] = White \/ \E i \in 1 .. Len(scene) : Covers(scene[i], p)
<1> DEFINE L == Len(scene)
           after[i \in 0 .. L] ==
             IF i = 0 THEN Fill(White) ELSE compose(after[i - 1], scene[i])
<1>1. L \in Nat /\ \A i \in 1 .. L : IsLayer(scene[i])
  BY ScenesAssumption
<1>2. PICK f : Loop(scene, L, f)
  BY Loops
<1>3. f = [i \in 0 .. L |-> IF i = 0 THEN Fill(White) ELSE compose(f[i - 1], scene[i])]
  BY <1>1, <1>2 DEF Loop
<1>4. after = [i \in 0 .. L |-> IF i = 0 THEN Fill(White) ELSE compose(after[i - 1], scene[i])]
  BY <1>3
<1>5. compose_all(scene) = after[L]
  BY DEF compose_all
<1> HIDE DEF after
<1>6. after[L] = f[L]
  <2> DEFINE S == {i \in 0 .. L : after[i] = f[i]}
  <2>1. 0 \in S
    BY <1>1, <1>3, <1>4
  <2>2. ASSUME NEW m \in 1 .. L, m - 1 \in S
        PROVE  m \in S
    <3>1. m \in 0 .. L /\ m # 0
      BY <1>1
    <3>2. after[m] = compose(after[m - 1], scene[m]) /\ f[m] = compose(f[m - 1], scene[m])
      BY Zenon, <1>3, <1>4, <3>1
    <3> QED
      BY <2>2, <3>1, <3>2, Zenon
  <2> HIDE DEF S
  <2>3. \A m \in 0 .. L : m \in S
    BY <1>1, <2>1, <2>2, Upwards, Zenon
  <2> QED
    BY <1>1, <2>3 DEF S
<1>7. ASSUME NEW p \in Pixels
      PROVE  f[L][p] = White \/ \E i \in 1 .. L : Covers(scene[i], p)
  <2> DEFINE S == {m \in 0 .. L : f[m][p] = White \/ \E i \in 1 .. m : Covers(scene[i], p)}
  <2>1. 0 \in S
    BY <1>1, <1>2 DEF Loop, Fill
  <2>2. ASSUME NEW m \in 1 .. L, m - 1 \in S
        PROVE  m \in S
    <3>1. m \in 0 .. L /\ m - 1 \in 0 .. L /\ 1 .. m - 1 \subseteq 1 .. m /\ m \in 1 .. m
      BY <1>1
    <3>2. f[m] = compose(f[m - 1], scene[m]) /\ f[m - 1] \in Pictures
      BY <1>2, <3>1 DEF Loop
    <3>3. Covers(scene[m], p) \/ f[m][p] = f[m - 1][p]
      BY <1>1, <3>2, ComposeOne
    <3> QED
      BY <2>2, <3>1, <3>3
  <2> HIDE DEF S
  <2>3. \A m \in 0 .. L : m \in S
    BY <1>1, <2>1, <2>2, Upwards, Zenon
  <2> QED
    BY <1>1, <2>3 DEF S
<1>8. f[L] \in Pictures
  BY <1>1, <1>2 DEF Loop
<1> QED
  BY <1>5, <1>6, <1>7, <1>8
------------------------------------------------------------------------------
(* The region of an update.                                                 *)

Within(r, b) ==
  /\ HasCorners(r) /\ -b <= r.x0 /\ r.x0 <= b /\ -b <= r.y0 /\ r.y0 <= b
  /\ -b <= r.x1 /\ r.x1 <= b /\ -b <= r.y1 /\ r.y1 <= b

\* The corners of a rectangle.
LEMMA RectCorners ==
  \A a, b, c, d : LET r == Rect(a, b, c, d) IN r.x0 = a /\ r.y0 = b /\ r.x1 = c /\ r.y1 = d
  BY DEF Rect

\* The hull of some rectangles is made of their corners and contains them.
LEMMA Hull ==
  ASSUME NEW rs, rs # {}, NEW b \in Nat, \A r \in rs : Within(r, b)
  PROVE  LET h == hull(rs) IN
         /\ HasCorners(h)
         /\ \A r \in rs : h.x0 <= r.x0 /\ h.y0 <= r.y0 /\ r.x1 <= h.x1 /\ r.y1 <= h.y1
         /\ (\E r \in rs : h.x0 = r.x0) /\ (\E r \in rs : h.y0 = r.y0)
         /\ (\E r \in rs : h.x1 = r.x1) /\ (\E r \in rs : h.y1 = r.y1)
<1> DEFINE X0 == {r.x0 : r \in rs}
           Y0 == {r.y0 : r \in rs}
           X1 == {r.x1 : r \in rs}
           Y1 == {r.y1 : r \in rs}
<1>1. \A r \in rs : r.x0 \in Int /\ r.y0 \in Int /\ r.x1 \in Int /\ r.y1 \in Int
  BY DEF Within, HasCorners
<1>2. Min(X0) \in X0 /\ \A x \in X0 : Min(X0) <= x
  <2>1. X0 \in SUBSET Int /\ X0 # {} /\ \A x \in X0 : -b <= x /\ x <= b
    BY <1>1 DEF Within
  <2> QED
    BY <2>1, Extremes, Zenon
<1>3. Min(Y0) \in Y0 /\ \A x \in Y0 : Min(Y0) <= x
  <2>1. Y0 \in SUBSET Int /\ Y0 # {} /\ \A x \in Y0 : -b <= x /\ x <= b
    BY <1>1 DEF Within
  <2> QED
    BY <2>1, Extremes, Zenon
<1>4. Max(X1) \in X1 /\ \A x \in X1 : x <= Max(X1)
  <2>1. X1 \in SUBSET Int /\ X1 # {} /\ \A x \in X1 : -b <= x /\ x <= b
    BY <1>1 DEF Within
  <2> QED
    BY <2>1, Extremes, Zenon
<1>5. Max(Y1) \in Y1 /\ \A x \in Y1 : x <= Max(Y1)
  <2>1. Y1 \in SUBSET Int /\ Y1 # {} /\ \A x \in Y1 : -b <= x /\ x <= b
    BY <1>1 DEF Within
  <2> QED
    BY <2>1, Extremes, Zenon
<1>6. hull(rs) = Rect(Min(X0), Min(Y0), Max(X1), Max(Y1))
  BY Zenon DEF hull
<1>7. /\ hull(rs).x0 = Min(X0) /\ hull(rs).y0 = Min(Y0)
      /\ hull(rs).x1 = Max(X1) /\ hull(rs).y1 = Max(Y1)
  BY <1>6 DEF Rect
<1>8. \A r \in rs : r.x0 \in X0 /\ r.y0 \in Y0 /\ r.x1 \in X1 /\ r.y1 \in Y1
  BY Zenon
<1>9. /\ (\E r \in rs : Min(X0) = r.x0) /\ (\E r \in rs : Min(Y0) = r.y0)
      /\ (\E r \in rs : Max(X1) = r.x1) /\ (\E r \in rs : Max(Y1) = r.y1)
  BY <1>2, <1>3, <1>4, <1>5, Zenon
<1> HIDE DEF X0, Y0, X1, Y1
<1>10. HasCorners(hull(rs))
  BY <1>1, <1>7, <1>9 DEF HasCorners
<1> QED
  BY <1>2, <1>3, <1>4, <1>5, <1>7, <1>8, <1>9, <1>10, Zenon

\* The layers' frames have a bound.
LEMMA FramesBounded ==
  ASSUME NEW scene \in Scenes
  PROVE  \E b \in Nat : \A r \in frames(scene) \cup {Rect(Width, Height, 0, 0)} : Within(r, b)
<1> DEFINE n == Len(scene)
           reach(r) == CHOOSE b \in Nat : Within(r, b)
           f == [i \in 1 .. n |-> IF Composes(scene[i]) THEN reach(scene[i].frame) ELSE 0]
<1>1. /\ n \in Nat /\ ToSet(scene) = {scene[i] : i \in 1 .. n}
      /\ \A i \in 1 .. n : IsLayer(scene[i])
  <2>1. n \in Nat /\ DOMAIN scene = 1 .. n /\ \A i \in 1 .. n : scene[i] \in ToSet(scene)
    BY ScenesAssumption
  <2> QED
    BY <2>1, ScenesAssumption, Zenon DEF ToSet
<1>2. ASSUME NEW r, HasCorners(r)
      PROVE  \E b \in Nat : Within(r, b)
  <2> DEFINE abs(x) == IF x < 0 THEN -x ELSE x
  <2>1. r.x0 \in Int /\ r.y0 \in Int /\ r.x1 \in Int /\ r.y1 \in Int
    BY <1>2 DEF HasCorners
  <2>2. \A x \in Int : abs(x) \in Nat /\ -abs(x) <= x /\ x <= abs(x)
    OBVIOUS
  <2> HIDE DEF abs
  <2> DEFINE b == abs(r.x0) + abs(r.y0) + abs(r.x1) + abs(r.y1)
  <2>3. b \in Nat /\ Within(r, b)
    BY <1>2, <2>1, <2>2 DEF Within
  <2> QED
    BY <2>3
<1>3. \A r : HasCorners(r) => reach(r) \in Nat /\ Within(r, reach(r))
  BY <1>2, Zenon
<1> HIDE DEF reach
<1>4. \A i \in 1 .. n : Composes(scene[i]) => HasCorners(scene[i].frame)
  BY <1>1 DEF IsLayer, Composes
<1>5. \A i \in 1 .. n : /\ f[i] \in Nat
                        /\ Composes(scene[i]) => f[i] = reach(scene[i].frame)
  BY <1>3, <1>4
<1> HIDE DEF f
<1>6. PICK c \in Nat : \A i \in 1 .. n : f[i] <= c
  BY <1>1, <1>5, Bound, Zenon
<1> DEFINE b == c + Width + Height
<1>7. b \in Nat /\ b >= c /\ Width \in Nat /\ Height \in Nat
  BY PanelAssumption
<1>8. Within(Rect(Width, Height, 0, 0), b) /\ Within(Whole, b)
  BY <1>7 DEF Within, HasCorners, Whole, Rect
<1>9. ASSUME NEW i \in 1 .. n, Composes(scene[i])
      PROVE  Within(scene[i].frame, b)
  <2>1. /\ f[i] \in Nat /\ f[i] <= c /\ Within(scene[i].frame, f[i])
    BY <1>3, <1>4, <1>5, <1>6, <1>9
  <2>2. /\ scene[i].frame.x0 \in Int /\ scene[i].frame.y0 \in Int
        /\ scene[i].frame.x1 \in Int /\ scene[i].frame.y1 \in Int
    BY <2>1 DEF Within, HasCorners
  <2> HIDE DEF b
  <2>3. \A x \in Int : -f[i] <= x /\ x <= f[i] => -b <= x /\ x <= b
    BY <1>7, <2>1
  <2> QED
    BY <2>1, <2>2, <2>3, Zenon DEF Within
<1>10. ASSUME NEW r \in frames(scene)
       PROVE  Within(r, b)
  <2>1. r = Whole \/ \E i \in 1 .. n : Composes(scene[i]) /\ r = scene[i].frame
    BY <1>1 DEF frames
  <2> QED
    BY <1>8, <1>9, <2>1, Zenon
<1> HIDE DEF b
<1> QED
  BY <1>7, <1>8, <1>10

\* The region a frame touches lies on the panel and contains every pixel that
\* a layer covers.
LEMMA Touched ==
  ASSUME NEW scene \in Scenes
  PROVE  /\ IsRect(touched(scene))
         /\ \A p \in Pixels : (\E i \in 1 .. Len(scene) : Covers(scene[i], p))
                                => In(p, touched(scene))
<1> DEFINE rs == frames(scene) \cup {Rect(Width, Height, 0, 0)}
           h == hull(rs)
           r == clip(h)
<1>1. PICK b \in Nat : \A q \in rs : Within(q, b)
  BY FramesBounded
<1>2. /\ HasCorners(h)
      /\ \A q \in rs : h.x0 <= q.x0 /\ h.y0 <= q.y0 /\ q.x1 <= h.x1 /\ q.y1 <= h.y1
  <2>1. rs # {}
    OBVIOUS
  <2> HIDE DEF rs
  <2> QED
    BY <1>1, <2>1, Hull, Zenon
<1>3. Width \in Nat /\ Width > 0 /\ Height \in Nat /\ Height > 0
  BY PanelAssumption
<1>4. touched(scene) = IF NonEmpty(r) THEN r ELSE Whole
  BY Zenon DEF touched
<1>5. h.x0 \in Int /\ h.y0 \in Int /\ h.x1 \in Int /\ h.y1 \in Int
  BY <1>2 DEF HasCorners
<1> HIDE DEF h
<1>9. 0 \in Int
  OBVIOUS
<1>6. /\ r.x0 = (IF h.x0 >= 0 THEN h.x0 ELSE 0) /\ r.y0 = (IF h.y0 >= 0 THEN h.y0 ELSE 0)
      /\ r.x1 = (IF h.x1 <= Width THEN h.x1 ELSE Width)
      /\ r.y1 = (IF h.y1 <= Height THEN h.y1 ELSE Height)
  <2>1. r = Rect(Max({h.x0, 0}), Max({h.y0, 0}), Min({h.x1, Width}), Min({h.y1, Height}))
    BY Zenon DEF clip
  <2> HIDE DEF r
  <2>2. /\ r.x0 = Max({h.x0, 0}) /\ r.y0 = Max({h.y0, 0})
        /\ r.x1 = Min({h.x1, Width}) /\ r.y1 = Min({h.y1, Height})
    BY <2>1, RectCorners
  <2>3. Max({h.x0, 0}) = IF h.x0 >= 0 THEN h.x0 ELSE 0
    BY <1>5, <1>9, Two, Zenon
  <2>4. Max({h.y0, 0}) = IF h.y0 >= 0 THEN h.y0 ELSE 0
    BY <1>5, <1>9, Two, Zenon
  <2>5. Min({h.x1, Width}) = IF h.x1 <= Width THEN h.x1 ELSE Width
    BY <1>3, <1>5, Two
  <2>6. Min({h.y1, Height}) = IF h.y1 <= Height THEN h.y1 ELSE Height
    BY <1>3, <1>5, Two
  <2> QED
    BY <2>2, <2>3, <2>4, <2>5, <2>6, Zenon
<1> HIDE DEF r
<1>7. IsRect(touched(scene))
  <2>1. CASE NonEmpty(r)
    BY <1>3, <1>4, <1>5, <1>6, <2>1 DEF NonEmpty, IsRect
  <2>2. CASE ~NonEmpty(r)
    BY <1>3, <1>4, <2>2 DEF IsRect, Whole, Rect
  <2> QED
    BY <2>1, <2>2
<1>8. ASSUME NEW p \in Pixels, NEW i \in 1 .. Len(scene), Covers(scene[i], p)
      PROVE  In(p, touched(scene))
  <2>1. p[1] \in 0 .. Width - 1 /\ p[2] \in 0 .. Height - 1
    BY DEF Pixels
  <2>2. In(p, Whole)
    BY <1>3, <2>1 DEF In, Whole, Rect
  <2>3. scene[i] \in ToSet(scene)
    BY ScenesAssumption DEF ToSet
  <2>4. PICK q \in frames(scene) : In(p, q)
    BY <1>8, <2>2, <2>3, Zenon DEF Covers, frames
  <2>5. /\ h.x0 <= q.x0 /\ h.y0 <= q.y0 /\ q.x1 <= h.x1 /\ q.y1 <= h.y1
        /\ q.x0 \in Int /\ q.y0 \in Int /\ q.x1 \in Int /\ q.y1 \in Int
    BY <1>1, <1>2 DEF Within, HasCorners
  <2>6. r.x0 <= p[1] /\ p[1] < r.x1 /\ r.y0 <= p[2] /\ p[2] < r.y1
    <3>1. h.x0 <= p[1] /\ p[1] < h.x1 /\ h.y0 <= p[2] /\ p[2] < h.y1
      <4>1. q.x0 <= p[1] /\ p[1] < q.x1 /\ q.y0 <= p[2] /\ p[2] < q.y1
        BY <2>4, Zenon DEF In
      <4>2. p[1] \in Int /\ p[2] \in Int
        BY <1>3, <2>1
      <4>3. \A u, v, w \in Int : /\ u <= v /\ v <= w => u <= w
                                 /\ u < v /\ v <= w => u < w
        OBVIOUS
      <4> QED
        BY <1>5, <2>5, <4>1, <4>2, <4>3, Zenon
    <3> QED
      BY SMTT(30), <1>3, <1>5, <1>6, <2>1, <3>1
  <2>7. r.x0 \in Int /\ r.y0 \in Int /\ r.x1 \in Int /\ r.y1 \in Int
    BY <1>3, <1>5, <1>6
  <2>8. In(p, r) /\ NonEmpty(r)
    BY <1>3, <2>1, <2>6, <2>7 DEF In, NonEmpty
  <2> QED
    BY <1>4, <2>8, Zenon
<1> QED
  BY <1>7, <1>8, Zenon

\* What was painted before stays part of the region.
LEMMA WithPainted ==
  ASSUME IsRect(painted), NEW r, IsRect(r)
  PROVE  /\ IsRect(with_painted(r))
         /\ \A p \in Pixels : In(p, r) \/ In(p, painted) => In(p, with_painted(r))
<1> DEFINE h == hull({r, painted})
<1>1. Width \in Nat /\ Height \in Nat
  BY PanelAssumption
<1>2. \A q \in {r, painted} : IsRect(q) /\ Within(q, Width + Height)
  BY <1>1 DEF IsRect, Within, HasCorners
<1>3. /\ HasCorners(h)
      /\ \A q \in {r, painted} : h.x0 <= q.x0 /\ h.y0 <= q.y0 /\ q.x1 <= h.x1 /\ q.y1 <= h.y1
      /\ (\E q \in {r, painted} : h.x0 = q.x0) /\ (\E q \in {r, painted} : h.y0 = q.y0)
      /\ (\E q \in {r, painted} : h.x1 = q.x1) /\ (\E q \in {r, painted} : h.y1 = q.y1)
  <2>1. Width + Height \in Nat /\ {r, painted} # {}
    BY <1>1
  <2> QED
    BY <1>2, <2>1, Hull, Zenon
<1> HIDE DEF h
<1>4. IsRect(h)
  BY <1>2, <1>3, Zenon DEF IsRect
<1>5. CASE NonEmpty(painted)
  <2>1. with_painted(r) = h
    BY <1>5, Zenon DEF with_painted, h
  <2>2. ASSUME NEW p \in Pixels, NEW q \in {r, painted}, In(p, q)
        PROVE  In(p, h)
    <3>1. q.x0 <= p[1] /\ p[1] < q.x1 /\ q.y0 <= p[2] /\ p[2] < q.y1
      BY <2>2, Zenon DEF In
    <3>2. p[1] \in Int /\ p[2] \in Int
      BY <1>1 DEF Pixels
    <3>3. \A u, v, w \in Int : /\ u <= v /\ v <= w => u <= w
                               /\ u < v /\ v <= w => u < w
      OBVIOUS
    <3>4. \A s : IsRect(s) => s.x0 \in Int /\ s.y0 \in Int /\ s.x1 \in Int /\ s.y1 \in Int
      BY <1>1 DEF IsRect
    <3>5. /\ h.x0 \in Int /\ h.y0 \in Int /\ h.x1 \in Int /\ h.y1 \in Int
          /\ q.x0 \in Int /\ q.y0 \in Int /\ q.x1 \in Int /\ q.y1 \in Int
      BY <1>2, <1>4, <3>4, Zenon
    <3>6. h.x0 <= q.x0 /\ h.y0 <= q.y0 /\ q.x1 <= h.x1 /\ q.y1 <= h.y1
      BY <1>3, Zenon
    <3>7. h.x0 <= p[1] /\ p[1] < h.x1
      BY <3>1, <3>2, <3>3, <3>5, <3>6, Zenon
    <3>8. h.y0 <= p[2] /\ p[2] < h.y1
      BY <3>1, <3>2, <3>3, <3>5, <3>6, Zenon
    <3> QED
      BY <3>7, <3>8, Zenon DEF In
  <2> QED
    BY <1>4, <2>1, <2>2, Zenon
<1>6. CASE ~NonEmpty(painted)
  <2>1. with_painted(r) = r
    BY <1>6, Zenon DEF with_painted
  <2>2. ASSUME NEW p \in Pixels PROVE ~In(p, painted)
    <3>1. p[1] \in Int /\ p[2] \in Int
      BY <1>1 DEF Pixels
    <3>2. painted.x0 \in Int /\ painted.y0 \in Int /\ painted.x1 \in Int /\ painted.y1 \in Int
      BY <1>1 DEF IsRect
    <3> QED
      BY <1>6, <3>1, <3>2 DEF In, NonEmpty
  <2> QED
    BY <2>1, <2>2, Zenon
<1> QED
  BY <1>5, <1>6

\* Rounding up to a multiple does not fall short.
LEMMA RoundUp ==
  ASSUME NEW n \in Int, NEW a \in Nat \ {0}
  PROVE  a * ((n + a - 1) \div a) \in Int /\ a * ((n + a - 1) \div a) >= n
  OBVIOUS

\* eink_send_update grows a region, on the panel.
LEMMA Aligned ==
  ASSUME NEW r, IsRect(r)
  PROVE  /\ IsRect(aligned(r))
         /\ \A p \in Pixels : In(p, r) => In(p, aligned(r))
<1> DEFINE left == r.x0 - (r.x0 % Align)
           w == Align * ((r.x1 - left + Align - 1) \div Align)
           right == Min({left + w, Width})
<1>1. Width \in Nat /\ Height \in Nat /\ Align \in Nat \ {0}
  BY PanelAssumption
<1>2. /\ r.x0 \in 0 .. Width /\ r.x1 \in 0 .. Width
      /\ r.y0 \in 0 .. Height /\ r.y1 \in 0 .. Height
  BY Zenon DEF IsRect
<1>3. \A n, a \in Nat : a > 0 => n % a \in Nat /\ n % a <= n
  OBVIOUS
<1>4. left \in 0 .. Width /\ left <= r.x0
  BY <1>1, <1>2, <1>3
<1> HIDE DEF left
<1>5. left + w \in Int /\ left + w >= r.x1
  <2>1. r.x1 - left \in Int /\ r.x1 \in Int /\ left \in Int
    BY <1>1, <1>2, <1>4
  <2>2. w \in Int /\ w >= r.x1 - left
    BY Zenon, <1>1, <2>1, RoundUp
  <2> HIDE DEF w
  <2> QED
    BY <2>1, <2>2
<1> HIDE DEF w
<1>6. right = IF left + w <= Width THEN left + w ELSE Width
  BY <1>1, <1>5, Two
<1> HIDE DEF right
<1>7. right \in 0 .. Width /\ right >= r.x1
  BY <1>1, <1>2, <1>5, <1>6
<1>8. aligned(r) = Rect(left, r.y0, right, r.y1)
  BY Zenon DEF aligned, left, w, right
<1>9. /\ aligned(r).x0 = left /\ aligned(r).y0 = r.y0
      /\ aligned(r).x1 = right /\ aligned(r).y1 = r.y1
  BY <1>8, RectCorners
<1>10. IsRect(aligned(r))
  BY <1>2, <1>4, <1>7, <1>9, Zenon DEF IsRect
<1>11. ASSUME NEW p \in Pixels, In(p, r)
       PROVE  In(p, aligned(r))
  <2>1. r.x0 <= p[1] /\ p[1] < r.x1 /\ r.y0 <= p[2] /\ p[2] < r.y1
    BY <1>11, Zenon DEF In
  <2>2. p[1] \in Int /\ p[2] \in Int
    BY <1>1 DEF Pixels
  <2>3. left <= p[1] /\ p[1] < right
    BY <1>1, <1>2, <1>4, <1>7, <2>1, <2>2
  <2> QED
    BY <1>9, <2>1, <2>3, Zenon DEF In
<1> QED
  BY <1>10, <1>11
------------------------------------------------------------------------------
(* The inductive invariant: what the panel holds outside of the painted     *)
(* region, and how many partial updates the update counter stands for.      *)

Outside(pic, r) == \A p \in Pixels : In(p, r) \/ pic[p] = White

Ghosting(u, g) == IF u = 0 THEN g < FullEvery ELSE g < u

IInv ==
  /\ TypeOK
  /\ fb = panel
  /\ ~lost => panel = shown /\ Ghosting(updates, ghosts)
  /\ composed => Outside(panel, painted)
  /\ ~composed => updates = 0
  /\ last.dirty /\ ~lost => shown = shadow

\* Copying the rows that differ makes the copy of the panel the new picture,
\* if nothing differs outside of the region.
LEMMA RowsCopied ==
  ASSUME panel \in Pictures, NEW pic \in Pictures, NEW r, IsRect(r),
         \A p \in Pixels : In(p, r) \/ panel[p] = pic[p]
  PROVE  /\ [p \in Pixels |-> IF In(p, r) /\ p[2] \in changed_rows(pic, r) THEN pic[p]
                              ELSE panel[p]] = pic
         /\ changed_rows(pic, r) = {} => panel = pic
<1>1. Width \in Nat /\ Height \in Nat
  BY PanelAssumption
<1>2. ASSUME NEW p \in Pixels, In(p, r), p[2] \notin changed_rows(pic, r)
      PROVE  panel[p] = pic[p]
  <2>1. p[1] \in Int /\ p[2] \in Int /\ p = <<p[1], p[2]>>
    BY <1>1 DEF Pixels
  <2>2. r.x0 \in Int /\ r.x1 \in Int /\ r.y0 \in Int /\ r.y1 \in Int
    BY <1>1 DEF IsRect
  <2>3. r.x0 <= p[1] /\ p[1] < r.x1 /\ r.y0 <= p[2] /\ p[2] < r.y1
    BY <1>2, Zenon DEF In
  <2>4. p[1] \in r.x0 .. r.x1 - 1 /\ p[2] \in r.y0 .. r.y1 - 1
    BY <2>1, <2>2, <2>3
  <2>5. panel[<<p[1], p[2]>>] = pic[<<p[1], p[2]>>]
    BY <1>2, <2>4, Zenon DEF changed_rows
  <2> QED
    BY <2>1, <2>5, Zenon
<1>3. panel = [p \in Pixels |-> panel[p]] /\ pic = [p \in Pixels |-> pic[p]]
  BY DEF Pictures
<1>4. changed_rows(pic, r) = {} => panel = pic
  <2> SUFFICES ASSUME changed_rows(pic, r) = {} PROVE panel = pic
    OBVIOUS
  <2>1. \A p \in Pixels : panel[p] = pic[p]
    BY <1>2, Zenon
  <2> QED
    BY <1>3, <2>1
<1>5. \A p \in Pixels : (IF In(p, r) /\ p[2] \in changed_rows(pic, r) THEN pic[p] ELSE panel[p])
                          = pic[p]
  BY <1>2, Zenon
<1> QED
  BY <1>3, <1>4, <1>5

\* A frame that is pushed is what the composer believes to be on the panel, and
\* what the panel shows unless an update was lost.
LEMMA PushShows ==
  ASSUME IInv, NEW pic \in Pictures, NEW r, IsRect(r), NEW full \in BOOLEAN,
         \A p \in Pixels : In(p, r) \/ panel[p] = pic[p],
         full => r = Whole, updates = 0 => full,
         push(pic, r, full)
  PROVE  /\ panel' = pic /\ fb' = pic /\ composed' = TRUE /\ shown' \in Pictures
         /\ updates' \in 0 .. FullEvery - 1 /\ ghosts' \in 0 .. FullEvery /\ lost' \in BOOLEAN
         /\ ~lost' => shown' = pic /\ Ghosting(updates', ghosts')
         /\ IsRect(last'.region)
<1> DEFINE rows == changed_rows(pic, r)
           changed == rows # {}
<1>1. /\ panel \in Pictures /\ shown \in Pictures /\ fb = panel
      /\ updates \in 0 .. FullEvery - 1 /\ ghosts \in 0 .. FullEvery /\ lost \in BOOLEAN
      /\ ~lost => panel = shown /\ Ghosting(updates, ghosts)
  BY Zenon DEF IInv, TypeOK
<1>2. Width \in Nat /\ Height \in Nat /\ FullEvery \in Nat \ {0}
  BY PanelAssumption
<1>3. /\ panel' = [p \in Pixels |-> IF In(p, r) /\ p[2] \in rows THEN pic[p] ELSE panel[p]]
      /\ fb' = [p \in Pixels |-> IF In(p, r) /\ p[2] \in rows THEN pic[p] ELSE fb[p]]
      /\ updates' = count_update(changed) /\ composed' = TRUE
      /\ last' = [dirty |-> TRUE, region |-> IF changed THEN aligned(r) ELSE Empty]
      /\ changed => \E ok \in {TRUE, lost} : eink_send_update(r, full, ok)
      /\ ~changed => UNCHANGED <<shown, ghosts, lost>>
  BY Zenon DEF push
<1>4. panel' = pic /\ fb' = pic /\ (~changed => panel = pic)
  <2>1. /\ [p \in Pixels |-> IF In(p, r) /\ p[2] \in rows THEN pic[p] ELSE panel[p]] = pic
        /\ rows = {} => panel = pic
    BY <1>1, RowsCopied
  <2> QED
    BY <1>1, <1>3, <2>1, Zenon
<1>5. IsRect(last'.region)
  <2>1. IsRect(Empty)
    BY <1>2, RectCorners DEF Empty, IsRect
  <2>2. IsRect(aligned(r))
    BY Aligned
  <2>3. \A b \in BOOLEAN : \A q : [dirty |-> b, region |-> q].region = q
    OBVIOUS
  <2>4. last'.region = aligned(r) \/ last'.region = Empty
    BY <1>3, <2>3, Zenon
  <2> QED
    BY <2>1, <2>2, <2>4, Zenon
<1> HIDE DEF rows
<1>6. CASE ~changed
  <2>1. shown' = shown /\ ghosts' = ghosts /\ lost' = lost /\ updates' = updates
    BY <1>3, <1>6, Zenon DEF count_update
  <2> QED
    BY <1>1, <1>3, <1>4, <1>5, <1>6, <2>1, Zenon
<1>7. CASE changed
  <2>1. PICK ok \in {TRUE, lost} : eink_send_update(r, full, ok)
    BY <1>3, <1>7, Zenon
  <2>2. ok \in BOOLEAN
    BY <1>1, Zenon
  <2>3. updates' = (updates + 1) % FullEvery
    BY <1>3, <1>7, Zenon DEF count_update
  <2>4. updates' = IF updates + 1 = FullEvery THEN 0 ELSE updates + 1
    <3>1. \A n \in Nat \ {0} : \A u \in 0 .. n - 1 :
            (u + 1) % n = IF u + 1 = n THEN 0 ELSE u + 1
      OBVIOUS
    <3> QED
      BY <1>1, <1>2, <2>3, <3>1, Zenon
  <2>5. updates' \in 0 .. FullEvery - 1
    BY <1>1, <1>2, <2>4
  <2>6. lost' = (~ok \/ (lost /\ ~full))
    BY <2>1, Zenon DEF eink_send_update
  <2>7. CASE ~ok
    <3>1. shown' = shown /\ ghosts' = ghosts /\ lost'
      BY <2>1, <2>7, Zenon DEF eink_send_update
    <3>2. lost' \in BOOLEAN
      BY <2>6, Zenon
    <3> QED
      BY <1>1, <1>3, <1>4, <1>5, <2>5, <3>1, <3>2, Zenon
  <2>8. CASE ok
    <3>1. /\ shown' = [p \in Pixels |-> IF In(p, aligned(r)) THEN fb'[p] ELSE shown[p]]
          /\ ghosts' = IF full THEN 0 ELSE Min({ghosts + 1, FullEvery})
      BY <2>1, <2>8, Zenon DEF eink_send_update
    <3>2. lost' = (lost /\ ~full) /\ lost' \in BOOLEAN
      BY <2>6, <2>8, Zenon
    <3>3. shown' \in Pictures
      <4>1. \A p \in Pixels : pic[p] \in Colours /\ shown[p] \in Colours
        BY <1>1 DEF Pictures
      <4> QED
        BY <1>4, <3>1, <4>1 DEF Pictures
    <3>4. Min({ghosts + 1, FullEvery}) = IF ghosts + 1 <= FullEvery THEN ghosts + 1 ELSE FullEvery
      BY <1>1, <1>2, Two
    <3>5. ghosts' \in 0 .. FullEvery
      BY <1>1, <1>2, <3>1, <3>4
    <3>6. ASSUME ~lost'
          PROVE  shown' = pic
      <4>1. full \/ ~lost
        BY <3>2, <3>6, Zenon
      <4>2. ASSUME NEW p \in Pixels, ~In(p, aligned(r))
            PROVE  shown[p] = pic[p]
        <5>1. ~In(p, r)
          BY <4>2, Aligned
        <5>2. ~full
          <6>1. In(p, Whole)
            BY <1>2, RectCorners DEF In, Whole, Pixels
          <6> QED
            BY <5>1, <6>1, Zenon
        <5> QED
          BY <1>1, <4>1, <5>1, <5>2, Zenon
      <4>3. \A p \in Pixels : (IF In(p, aligned(r)) THEN fb'[p] ELSE shown[p]) = pic[p]
        BY <1>4, <4>2, Zenon
      <4>4. pic = [p \in Pixels |-> pic[p]]
        BY DEF Pictures
      <4> QED
        BY <3>1, <4>3, <4>4
    <3>7. ASSUME ~lost'
          PROVE  Ghosting(updates', ghosts')
      <4>1. CASE full
        <5>1. ghosts' = 0
          BY <3>1, <4>1
        <5> QED
          BY <1>1, <1>2, <2>4, <5>1 DEF Ghosting
      <4>2. CASE ~full
        <5>1. ~lost /\ updates # 0 /\ ghosts < updates
          BY <1>1, <3>2, <3>7, <4>2, Zenon DEF Ghosting
        <5>2. ghosts' = ghosts + 1
          BY <1>1, <1>2, <3>1, <3>4, <4>2, <5>1
        <5> QED
          BY <1>1, <1>2, <2>4, <5>1, <5>2 DEF Ghosting
      <4> QED
        BY <4>1, <4>2
    <3> QED
      BY <1>3, <1>4, <1>5, <2>5, <3>2, <3>3, <3>5, <3>6, <3>7, Zenon
  <2> QED
    BY <2>2, <2>7, <2>8, Zenon
<1> QED
  BY <1>6, <1>7, Zenon

------------------------------------------------------------------------------
(* Every call keeps the invariant.                                          *)

\* A frame that is composed: what the panel does not get is white before and
\* after.
LEMMA ComposeKeeps ==
  ASSUME IInv, NEW scene \in Scenes, compose_frame(scene)
  PROVE  IInv'
<1> DEFINE pic == compose_all(scene)
<1>1. pic \in Pictures
      /\ \A p \in Pixels : pic[p] = White \/ \E i \in 1 .. Len(scene) : Covers(scene[i], p)
  BY ComposeAll
<1>2. shadow' = pic /\ blanked' = blanked
  BY Zenon DEF compose_frame
<1>3. /\ {shadow, fb, panel, shown} \subseteq Pictures /\ IsRect(painted)
      /\ updates \in 0 .. FullEvery - 1 /\ {force_full, blanked, composed, lost} \subseteq BOOLEAN
      /\ ghosts \in 0 .. FullEvery /\ fb = panel
      /\ ~lost => panel = shown /\ Ghosting(updates, ghosts)
      /\ composed => Outside(panel, painted)
      /\ ~composed => updates = 0
  BY Zenon DEF IInv, TypeOK
<1>4. CASE frames(scene) = {}
  <2>1. /\ last' = [dirty |-> FALSE]
        /\ UNCHANGED <<fb, panel, painted, updates, force_full, composed, shown, ghosts, lost>>
    BY <1>4, Zenon DEF compose_frame
  <2>2. ~last'.dirty
    <3>1. \A b \in BOOLEAN : [dirty |-> b].dirty = b
      OBVIOUS
    <3> QED
      BY <2>1, <3>1, Zenon
  <2>3. TypeOK'
    BY <1>1, <1>2, <1>3, <2>1, <2>2, Zenon DEF TypeOK
  <2> QED
    BY <1>3, <2>1, <2>2, <2>3, Zenon DEF IInv
<1>5. CASE frames(scene) # {}
  <2> DEFINE r == with_painted(touched(scene))
             full == updates = 0 \/ force_full
             region == IF full THEN Whole ELSE r
  <2>1. painted' = r /\ force_full' = FALSE /\ push(pic, region, full)
    BY <1>2, <1>5, Zenon DEF compose_frame
  <2>2. /\ IsRect(r)
        /\ \A p \in Pixels : In(p, touched(scene)) \/ In(p, painted) => In(p, r)
    BY <1>3, Touched, WithPainted, Zenon
  <2>3. Outside(pic, r)
    BY <1>1, <2>2, Touched, Zenon DEF Outside
  <2>4. IsRect(Whole) /\ \A p \in Pixels : In(p, Whole)
    BY PanelAssumption, RectCorners DEF IsRect, In, Whole, Pixels
  <2>5. full \in BOOLEAN /\ (full => region = Whole) /\ (updates = 0 => full) /\ IsRect(region)
    BY <1>3, <2>2, <2>4, Zenon
  <2>6. ASSUME NEW p \in Pixels
        PROVE  In(p, region) \/ panel[p] = pic[p]
    <3>1. CASE full
      BY <2>4, <2>5, <3>1, Zenon
    <3>2. CASE ~full
      <4>1. composed /\ region = r
        BY <1>3, <3>2, Zenon
      <4>2. In(p, r) \/ (panel[p] = White /\ pic[p] = White)
        BY <1>3, <2>2, <2>3, <4>1, Zenon DEF Outside
      <4> QED
        BY <4>1, <4>2, Zenon
    <3> QED
      BY <3>1, <3>2
  <2> HIDE DEF region, full, r, pic
  <2>7. /\ panel' = pic /\ fb' = pic /\ composed' = TRUE /\ shown' \in Pictures
        /\ updates' \in 0 .. FullEvery - 1 /\ ghosts' \in 0 .. FullEvery /\ lost' \in BOOLEAN
        /\ ~lost' => shown' = pic /\ Ghosting(updates', ghosts')
        /\ IsRect(last'.region)
    BY <1>1, <2>1, <2>5, <2>6, PushShows, Zenon
  <2>8. TypeOK'
    BY <1>1, <1>2, <1>3, <2>1, <2>2, <2>7, Zenon DEF TypeOK
  <2> QED
    BY <1>2, <2>1, <2>3, <2>7, <2>8, Zenon DEF IInv
<1> QED
  BY <1>4, <1>5

\* A call that draws nothing keeps it too.
LEMMA QuietKeeps ==
  ASSUME IInv, UNCHANGED <<shadow, fb, panel, painted, updates, composed, shown, ghosts, lost>>,
         last' = [dirty |-> FALSE], force_full' \in BOOLEAN, blanked' \in BOOLEAN
  PROVE  IInv'
<1>1. ~last'.dirty
  <2>1. \A b \in BOOLEAN : [dirty |-> b].dirty = b
    OBVIOUS
  <2> QED
    BY <2>1, Zenon
<1>2. TypeOK'
  BY <1>1, Zenon DEF IInv, TypeOK
<1> QED
  BY <1>1, <1>2, Zenon DEF IInv

\* The panel's contents, the painted region and the update counter agree after
\* every call.
THEOREM PanelInvariance == Spec => []IInv
<1>1. Init => IInv
  <2> SUFFICES ASSUME Init PROVE IInv
    OBVIOUS
  <2>1. Fill(White) \in Pictures /\ BootPicture \in Pictures
    BY PanelAssumption, ScenesAssumption DEF Fill, Pictures
  <2>2. IsRect(Empty) /\ 0 \in 0 .. FullEvery - 1 /\ 0 \in 0 .. FullEvery /\ 0 \in Nat
    BY PanelAssumption, RectCorners DEF IsRect, Empty
  <2>3. ~last.dirty
    <3>1. \A b \in BOOLEAN : [dirty |-> b].dirty = b
      OBVIOUS
    <3> QED
      BY <3>1, Zenon DEF Init
  <2>4. TypeOK
    BY <2>1, <2>2, <2>3, Zenon DEF Init, TypeOK
  <2>5. Ghosting(updates, ghosts)
    BY PanelAssumption DEF Init, Ghosting
  <2> QED
    BY <2>3, <2>4, <2>5, Zenon DEF Init, IInv
<1>2. IInv /\ [Next]_vars => IInv'
  <2> SUFFICES ASSUME IInv, [Next]_vars PROVE IInv'
    OBVIOUS
  <2>1. {force_full, blanked} \subseteq BOOLEAN
    BY Zenon DEF IInv, TypeOK
  <2>2. ASSUME NEW scene \in Scenes, hwc_compose(scene)
        PROVE  IInv'
    <3>1. CASE blanked
      <4>1. blanked_compose
        BY <2>2, <3>1, Zenon DEF hwc_compose
      <4>2. /\ UNCHANGED <<shadow, fb, panel, painted, updates, composed, shown, ghosts, lost>>
            /\ last' = [dirty |-> FALSE] /\ force_full' \in BOOLEAN /\ blanked' \in BOOLEAN
        BY <2>1, <4>1, Zenon DEF blanked_compose
      <4> QED
        BY <4>2, QuietKeeps, Zenon
    <3>2. CASE ~blanked
      <4>1. compose_frame(scene)
        BY <2>2, <3>2, Zenon DEF hwc_compose
      <4> QED
        BY <4>1, ComposeKeeps, Zenon
    <3> QED
      BY <3>1, <3>2
  <2>3. ASSUME NEW scene \in Scenes, hwc_set(scene) \/ hwc_prepare(scene)
        PROVE  IInv'
    BY <2>2, <2>3, Zenon DEF hwc_set, hwc_prepare
  <2>4. ASSUME NEW b \in BOOLEAN, hwc_blank(b)
        PROVE  IInv'
    <3>1. force_full' \in BOOLEAN /\ blanked' \in BOOLEAN
      BY <2>1, <2>4, Zenon DEF hwc_blank
    <3> QED
      BY <2>4, <3>1, QuietKeeps, Zenon DEF hwc_blank
  <2>5. CASE UNCHANGED vars
    BY <2>5, Zenon DEF vars, IInv, TypeOK
  <2> QED
    BY <2>3, <2>4, <2>5, Zenon DEF Next
<1> QED
  BY <1>1, <1>2, PTL DEF Spec

\* Every composed frame is on the panel in full, the composer's copy of the
\* panel is exact, and full updates clear the ghosting in time, for every
\* panel, update period and list of unscaled layers.
THEOREM FramesShown == Spec => []ShowsFrame
<1>1. IInv => ShowsFrame
  <2> SUFFICES ASSUME IInv PROVE ShowsFrame
    OBVIOUS
  <2>1. ~lost => ghosts < FullEvery
    <3> SUFFICES ASSUME ~lost PROVE ghosts < FullEvery
      OBVIOUS
    <3>1. /\ Ghosting(updates, ghosts) /\ updates \in 0 .. FullEvery - 1
          /\ ghosts \in 0 .. FullEvery
      BY Zenon DEF IInv, TypeOK
    <3> QED
      BY <3>1, PanelAssumption DEF Ghosting
  <2> QED
    BY <2>1, Zenon DEF IInv, ShowsFrame
<1> QED
  BY <1>1, PanelInvariance, PTL
=============================================================================
