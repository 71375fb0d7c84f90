------------------------- MODULE Instrumented_proofs -------------------------
(***************************************************************************)
(* The numbers the generated programs give to objects (Numbering) and the  *)
(* callback functions and types the store is given (Candidates), for any   *)
(* program, any input and any size of the stack.                           *)
(***************************************************************************)
EXTENDS Instrumented, SequenceTheorems, WellFoundedInduction, TLAPS

IsSeq(s) == \E S : s \in Seq(S)

-----------------------------------------------------------------------------
(* Stacks and lists, whatever they hold. *)
Push(x, s) == <<x>> \o s

LEMMA Pushed ==
  ASSUME NEW s, IsSeq(s), NEW x
  PROVE  /\ IsSeq(Push(x, s))
         /\ Len(s) \in Nat /\ DOMAIN s = 1 .. Len(s)
         /\ Len(Push(x, s)) = Len(s) + 1 /\ DOMAIN Push(x, s) = 1 .. (Len(s) + 1)
         /\ Push(x, s)[1] = x
         /\ \A k \in 1 .. Len(s) : Push(x, s)[k + 1] = s[k]
<1>1. PICK S : s \in Seq(S)
  BY DEF IsSeq
<1>2. s \in Seq(S \cup {x}) /\ <<x>> \in Seq(S \cup {x})
  BY <1>1
<1>3. Push(x, s) \in Seq(S \cup {x})
  BY <1>2 DEF Push
<1>4. IsSeq(Push(x, s))
  BY <1>3 DEF IsSeq
<1> QED
  BY <1>2, <1>3, <1>4 DEF Push

LEMMA PushedOnNothing ==
  ASSUME NEW x
  PROVE  Push(x, <<>>) = <<x>>
<1>1. <<x>> \in Seq({x})
  OBVIOUS
<1> QED
  BY <1>1 DEF Push

LEMMA Popped ==
  ASSUME NEW s, IsSeq(s), s # <<>>
  PROVE  /\ IsSeq(Tail(s))
         /\ Len(s) \in Nat \ {0} /\ DOMAIN s = 1 .. Len(s)
         /\ Len(Tail(s)) = Len(s) - 1 /\ DOMAIN Tail(s) = 1 .. (Len(s) - 1)
         /\ Head(s) = s[1]
         /\ \A k \in 1 .. (Len(s) - 1) : Tail(s)[k] = s[k + 1]
<1>1. PICK S : s \in Seq(S)
  BY DEF IsSeq
<1>2. Tail(s) \in Seq(S)
  BY <1>1
<1>3. IsSeq(Tail(s))
  BY <1>2 DEF IsSeq
<1> QED
  BY <1>1, <1>2, <1>3

LEMMA Topped ==
  ASSUME NEW s, IsSeq(s), s # <<>>, NEW x
  PROVE  /\ IsSeq(Push(x, Tail(s)))
         /\ Len(s) \in Nat \ {0} /\ DOMAIN s = 1 .. Len(s)
         /\ Len(Push(x, Tail(s))) = Len(s) /\ DOMAIN Push(x, Tail(s)) = DOMAIN s
         /\ Head(s) = s[1]
         /\ Push(x, Tail(s))[1] = x
         /\ \A k \in DOMAIN s \ {1} : Push(x, Tail(s))[k] = s[k]
<1>1. PICK S : s \in Seq(S)
  BY DEF IsSeq
<1>2. s \in Seq(S \cup {x}) /\ Tail(s) \in Seq(S \cup {x}) /\ <<x>> \in Seq(S \cup {x})
  BY <1>1
<1>3. Push(x, Tail(s)) \in Seq(S \cup {x})
  BY <1>2 DEF Push
<1>4. IsSeq(Push(x, Tail(s)))
  BY <1>3 DEF IsSeq
<1>5. \A k \in DOMAIN s \ {1} : Push(x, Tail(s))[k] = s[k]
  BY <1>2 DEF Push
<1> QED
  BY <1>2, <1>3, <1>4, <1>5 DEF Push

LEMMA Appended ==
  ASSUME NEW s, IsSeq(s), NEW x
  PROVE  /\ IsSeq(Append(s, x))
         /\ Len(s) \in Nat /\ DOMAIN s = 1 .. Len(s)
         /\ Len(Append(s, x)) = Len(s) + 1 /\ DOMAIN Append(s, x) = 1 .. (Len(s) + 1)
         /\ Append(s, x)[Len(s) + 1] = x
         /\ \A k \in 1 .. Len(s) : Append(s, x)[k] = s[k]
<1>1. PICK S : s \in Seq(S)
  BY DEF IsSeq
<1>2. s \in Seq(S \cup {x}) /\ x \in S \cup {x}
  BY <1>1
<1>3. Append(s, x) \in Seq(S \cup {x})
  BY <1>2
<1>4. IsSeq(Append(s, x))
  BY <1>3 DEF IsSeq
<1> QED
  BY <1>2, <1>3, <1>4

LEMMA Replaced ==
  ASSUME NEW s, IsSeq(s), NEW n \in DOMAIN s, NEW x
  PROVE  /\ IsSeq([s EXCEPT ![n] = x])
         /\ DOMAIN [s EXCEPT ![n] = x] = DOMAIN s
         /\ [s EXCEPT ![n] = x][n] = x
         /\ \A k \in DOMAIN s \ {n} : [s EXCEPT ![n] = x][k] = s[k]
<1>1. PICK S : s \in Seq(S)
  BY DEF IsSeq
<1>2. s \in Seq(S \cup {x}) /\ x \in S \cup {x}
  BY <1>1
<1>3. [s EXCEPT ![n] = x] \in Seq(S \cup {x})
  BY <1>2
<1>4. IsSeq([s EXCEPT ![n] = x])
  BY <1>3 DEF IsSeq
<1> QED
  BY <1>2, <1>3, <1>4

-----------------------------------------------------------------------------
(* What the common program keeps of its stack and its objects: those under
   construction are the ones on the stack, the outermost with the lowest number. *)
TypeFrames == [in : {"type"}, of : DOMAIN Types, left : Int, n : Nat]

Framed(fs, os) ==
  \A k \in DOMAIN fs :
    /\ "in" \in DOMAIN fs[k]
    /\ fs[k].in = "type" => fs[k] \in TypeFrames /\ fs[k].n \in DOMAIN os
    /\ fs[k].in = "main" => k = Len(fs)

Stated(fs, os) ==
  \A n \in DOMAIN os :
    /\ os[n] = Object(os[n].type, os[n].state)
    /\ os[n].state = "building" <=> (\E k \in DOMAIN fs : Making(fs[k], n))
    /\ os[n].state = "wild" => Kind(os[n].type) \in UnsizedKinds

Stacked(fs, os) ==
  \A j, k \in DOMAIN fs : \A m, n \in DOMAIN os :
    j < k /\ Making(fs[j], m) /\ Making(fs[k], n) => n < m

Good(fs, os) == IsSeq(fs) /\ IsSeq(os) /\ Framed(fs, os) /\ Stated(fs, os) /\ Stacked(fs, os)

LEMMA PushOther ==
  ASSUME NEW fs, NEW os, Good(fs, os), NEW f,
         "in" \in DOMAIN f, f.in # "type", f.in # "main",
         NEW gs, gs = Push(f, fs)
  PROVE  Good(gs, os)
<1>0. IsSeq(fs) /\ IsSeq(os) /\ Framed(fs, os) /\ Stated(fs, os) /\ Stacked(fs, os)
  BY DEF Good
<1>1. /\ IsSeq(gs)
      /\ Len(fs) \in Nat /\ DOMAIN fs = 1 .. Len(fs)
      /\ Len(gs) = Len(fs) + 1 /\ DOMAIN gs = 1 .. (Len(fs) + 1)
      /\ gs[1] = f
      /\ \A k \in 1 .. Len(fs) : gs[k + 1] = fs[k]
  BY <1>0, Pushed
<1>2. \A k \in DOMAIN gs \ {1} : k - 1 \in DOMAIN fs /\ gs[k] = fs[k - 1]
  BY <1>1
<1>3. Framed(gs, os)
  BY <1>0, <1>1, <1>2 DEF Framed
<1>4. \A n \in DOMAIN os : (\E k \in DOMAIN gs : Making(gs[k], n)) <=> (\E k \in DOMAIN fs : Making(fs[k], n))
  <2> TAKE n \in DOMAIN os
  <2>1. ~Making(gs[1], n)
    BY <1>1 DEF Making
  <2>2. \A k \in DOMAIN fs : k + 1 \in DOMAIN gs /\ gs[k + 1] = fs[k]
    BY <1>1
  <2> QED
    BY <2>1, <2>2, <1>2
<1>5. Stated(gs, os)
  BY <1>0, <1>4 DEF Stated
<1>6. Stacked(gs, os)
  <2> SUFFICES ASSUME NEW j \in DOMAIN gs, NEW k \in DOMAIN gs, NEW m \in DOMAIN os, NEW n \in DOMAIN os,
                      j < k, Making(gs[j], m), Making(gs[k], n)
               PROVE  n < m
    BY DEF Stacked
  <2>1. j # 1 /\ k # 1
    BY <1>1 DEF Making
  <2> QED
    BY <1>0, <2>1, <1>1, <1>2 DEF Stacked
<1> QED
  BY <1>0, <1>1, <1>3, <1>5, <1>6 DEF Good

LEMMA PushType ==
  ASSUME NEW fs, NEW os, Good(fs, os), NEW t \in DOMAIN Types, NEW left \in Int,
         NEW ps, ps = Append(os, Object(t, "building")),
         NEW gs, gs = Push([in |-> "type", of |-> t, left |-> left, n |-> Len(os) + 1], fs)
  PROVE  Good(gs, ps)
<1> DEFINE f == [in |-> "type", of |-> t, left |-> left, n |-> Len(os) + 1]
           o == Object(t, "building")
<1>0. IsSeq(fs) /\ IsSeq(os) /\ Framed(fs, os) /\ Stated(fs, os) /\ Stacked(fs, os)
  BY DEF Good
<1>1. /\ IsSeq(gs)
      /\ Len(fs) \in Nat /\ DOMAIN fs = 1 .. Len(fs)
      /\ Len(gs) = Len(fs) + 1 /\ DOMAIN gs = 1 .. (Len(fs) + 1)
      /\ gs[1] = f
      /\ \A k \in 1 .. Len(fs) : gs[k + 1] = fs[k]
  BY <1>0, Pushed
<1>2. /\ IsSeq(ps)
      /\ Len(os) \in Nat /\ DOMAIN os = 1 .. Len(os)
      /\ Len(ps) = Len(os) + 1 /\ DOMAIN ps = 1 .. (Len(os) + 1)
      /\ ps[Len(os) + 1] = o
      /\ \A k \in 1 .. Len(os) : ps[k] = os[k]
  BY <1>0, Appended
<1>3. \A k \in DOMAIN gs \ {1} : k - 1 \in DOMAIN fs /\ gs[k] = fs[k - 1]
  BY <1>1
<1>4. /\ f.in = "type" /\ f.n = Len(os) + 1 /\ f \in TypeFrames /\ "in" \in DOMAIN f
      /\ o.state = "building" /\ o = Object(o.type, o.state)
  BY <1>2 DEF TypeFrames, Object
<1> HIDE DEF f, o
<1>5. Framed(gs, ps)
  <2> SUFFICES ASSUME NEW k \in DOMAIN gs
               PROVE  /\ "in" \in DOMAIN gs[k]
                      /\ gs[k].in = "type" => gs[k] \in TypeFrames /\ gs[k].n \in DOMAIN ps
                      /\ gs[k].in = "main" => k = Len(gs)
    BY DEF Framed
  <2>1. CASE k = 1
    BY <2>1, <1>1, <1>2, <1>4
  <2>2. CASE k # 1
    <3>1. k - 1 \in DOMAIN fs /\ gs[k] = fs[k - 1]
      BY <2>2, <1>3
    <3>2. /\ "in" \in DOMAIN fs[k - 1]
          /\ fs[k - 1].in = "type" => fs[k - 1] \in TypeFrames /\ fs[k - 1].n \in DOMAIN os
          /\ fs[k - 1].in = "main" => k - 1 = Len(fs)
      BY <3>1, <1>0 DEF Framed
    <3> QED
      BY <3>1, <3>2, <1>1, <1>2
  <2> QED
    BY <2>1, <2>2
<1>6. \A k \in DOMAIN gs \ {1} : \A n : Making(gs[k], n) => n \in DOMAIN os
  BY <1>0, <1>3 DEF Framed, Making
<1>7. \A n : Making(gs[1], n) <=> n = Len(os) + 1
  BY <1>1, <1>4 DEF Making
<1>8. \A n \in DOMAIN os : (\E k \in DOMAIN gs : Making(gs[k], n)) <=> (\E k \in DOMAIN fs : Making(fs[k], n))
  <2> TAKE n \in DOMAIN os
  <2>1. ~Making(gs[1], n)
    BY <1>7, <1>2
  <2>2. \A k \in DOMAIN fs : k + 1 \in DOMAIN gs /\ gs[k + 1] = fs[k]
    BY <1>1
  <2> QED
    BY <2>1, <2>2, <1>3
<1>9. Stated(gs, ps)
  <2> SUFFICES ASSUME NEW n \in DOMAIN ps
               PROVE  /\ ps[n] = Object(ps[n].type, ps[n].state)
                      /\ ps[n].state = "building" <=> \E k \in DOMAIN gs : Making(gs[k], n)
                      /\ ps[n].state = "wild" => Kind(ps[n].type) \in UnsizedKinds
    BY DEF Stated
  <2>1. CASE n = Len(os) + 1
    BY <2>1, <1>2, <1>4, <1>7, <1>1
  <2>2. CASE n \in DOMAIN os
    BY <1>0, <2>2, <1>2, <1>8 DEF Stated
  <2> QED
    BY <2>1, <2>2, <1>2
<1>10. Stacked(gs, ps)
  <2> SUFFICES ASSUME NEW j \in DOMAIN gs, NEW k \in DOMAIN gs, NEW m \in DOMAIN ps, NEW n \in DOMAIN ps,
                      j < k, Making(gs[j], m), Making(gs[k], n)
               PROVE  n < m
    BY DEF Stacked
  <2>0. k # 1
    BY <1>1
  <2>1. k - 1 \in DOMAIN fs /\ Making(fs[k - 1], n) /\ n \in DOMAIN os
    BY <2>0, <1>3, <1>6
  <2>2. CASE j = 1
    BY <2>1, <2>2, <1>7, <1>2
  <2>3. CASE j # 1
    <3>1. j - 1 \in DOMAIN fs /\ Making(fs[j - 1], m) /\ m \in DOMAIN os
      BY <2>3, <1>3, <1>6
    <3>2. j - 1 < k - 1
      BY <1>1
    <3> QED
      BY <1>0, <2>1, <3>1, <3>2 DEF Stacked
  <2> QED
    BY <2>2, <2>3
<1> QED
  BY <1>0, <1>1, <1>2, <1>5, <1>9, <1>10 DEF Good

LEMMA TakeGood ==
  ASSUME NEW fs, NEW os, Good(fs, os), fs # <<>>,
         NEW g, g = [Head(fs) EXCEPT !.left = @ - 1],
         NEW gs, gs = Push(g, Tail(fs))
  PROVE  Good(gs, os)
<1> DEFINE f == Head(fs)
<1>0. IsSeq(fs) /\ IsSeq(os) /\ Framed(fs, os) /\ Stated(fs, os) /\ Stacked(fs, os)
  BY DEF Good
<1>1. /\ IsSeq(gs)
      /\ Len(fs) \in Nat \ {0} /\ DOMAIN fs = 1 .. Len(fs)
      /\ Len(gs) = Len(fs) /\ DOMAIN gs = DOMAIN fs
      /\ f = fs[1]
      /\ gs[1] = g
      /\ \A k \in DOMAIN fs \ {1} : gs[k] = fs[k]
  BY <1>0, Topped
<1>4. /\ "in" \in DOMAIN f
      /\ f.in = "type" => f \in TypeFrames /\ f.n \in DOMAIN os
      /\ f.in = "main" => 1 = Len(fs)
  BY <1>0, <1>1 DEF Framed
<1>5. "in" \in DOMAIN g /\ g.in = f.in
  BY <1>4
<1>6. f.in = "type" => g \in TypeFrames /\ g.n = f.n
  BY <1>4 DEF TypeFrames
<1> HIDE DEF f
<1>7. Framed(gs, os)
  <2> SUFFICES ASSUME NEW k \in DOMAIN gs
               PROVE  /\ "in" \in DOMAIN gs[k]
                      /\ gs[k].in = "type" => gs[k] \in TypeFrames /\ gs[k].n \in DOMAIN os
                      /\ gs[k].in = "main" => k = Len(gs)
    BY DEF Framed
  <2>1. CASE k = 1
    BY <2>1, <1>1, <1>4, <1>5, <1>6
  <2>2. CASE k # 1
    BY <2>2, <1>0, <1>1 DEF Framed
  <2> QED
    BY <2>1, <2>2
<1>8. \A k \in DOMAIN fs : \A n : Making(gs[k], n) <=> Making(fs[k], n)
  BY <1>1, <1>5, <1>6 DEF Making
<1>9. Stated(gs, os)
  BY <1>0, <1>1, <1>8 DEF Stated
<1>10. Stacked(gs, os)
  BY <1>0, <1>1, <1>8 DEF Stacked
<1> QED
  BY <1>0, <1>1, <1>7, <1>9, <1>10 DEF Good

LEMMA SaveGood ==
  ASSUME NEW fs, NEW os, Good(fs, os), NEW t, NEW state \in {"complete", "wild"},
         state = "wild" => Kind(t) \in UnsizedKinds,
         NEW ps, ps = Append(os, Object(t, state))
  PROVE  Good(fs, ps)
<1> DEFINE o == Object(t, state)
<1>0. IsSeq(fs) /\ IsSeq(os) /\ Framed(fs, os) /\ Stated(fs, os) /\ Stacked(fs, os)
  BY DEF Good
<1>1. /\ IsSeq(ps)
      /\ Len(os) \in Nat /\ DOMAIN os = 1 .. Len(os)
      /\ Len(ps) = Len(os) + 1 /\ DOMAIN ps = 1 .. (Len(os) + 1)
      /\ ps[Len(os) + 1] = o
      /\ \A k \in 1 .. Len(os) : ps[k] = os[k]
  BY <1>0, Appended
<1>2. o.type = t /\ o.state = state /\ o = Object(o.type, o.state)
  BY DEF Object
<1> HIDE DEF o
<1>3. \A k \in DOMAIN fs : \A n : Making(fs[k], n) => n \in DOMAIN os
  BY <1>0 DEF Framed, Making
<1>4. Framed(fs, ps)
  BY <1>0, <1>1 DEF Framed
<1>5. Stated(fs, ps)
  <2> SUFFICES ASSUME NEW n \in DOMAIN ps
               PROVE  /\ ps[n] = Object(ps[n].type, ps[n].state)
                      /\ ps[n].state = "building" <=> \E k \in DOMAIN fs : Making(fs[k], n)
                      /\ ps[n].state = "wild" => Kind(ps[n].type) \in UnsizedKinds
    BY DEF Stated
  <2>1. CASE n = Len(os) + 1
    BY <2>1, <1>1, <1>2, <1>3
  <2>2. CASE n \in DOMAIN os
    BY <2>2, <1>0, <1>1 DEF Stated
  <2> QED
    BY <2>1, <2>2, <1>1
<1>6. Stacked(fs, ps)
  BY <1>0, <1>3 DEF Stacked
<1> QED
  BY <1>0, <1>1, <1>4, <1>5, <1>6 DEF Good

LEMMA PopOther ==
  ASSUME NEW fs, NEW os, Good(fs, os), fs # <<>>, Head(fs).in # "type"
  PROVE  Good(Tail(fs), os)
<1> DEFINE gs == Tail(fs)
<1>0. IsSeq(fs) /\ IsSeq(os) /\ Framed(fs, os) /\ Stated(fs, os) /\ Stacked(fs, os)
  BY DEF Good
<1>1. /\ IsSeq(gs)
      /\ Len(fs) \in Nat \ {0} /\ DOMAIN fs = 1 .. Len(fs)
      /\ Len(gs) = Len(fs) - 1 /\ DOMAIN gs = 1 .. (Len(fs) - 1)
      /\ Head(fs) = fs[1]
      /\ \A k \in 1 .. (Len(fs) - 1) : gs[k] = fs[k + 1]
  BY <1>0, Popped
<1> HIDE DEF gs
<1>2. \A k \in DOMAIN gs : k + 1 \in DOMAIN fs /\ gs[k] = fs[k + 1]
  BY <1>1
<1>3. \A k \in DOMAIN fs \ {1} : k - 1 \in DOMAIN gs /\ fs[k] = gs[k - 1]
  <2> TAKE k \in DOMAIN fs \ {1}
  <2>1. k - 1 \in 1 .. (Len(fs) - 1) /\ (k - 1) + 1 = k
    BY <1>1
  <2> QED
    BY <2>1, <1>1
<1>4. \A n : ~Making(fs[1], n)
  BY <1>1 DEF Making
<1>5. Framed(gs, os)
  <2> SUFFICES ASSUME NEW k \in DOMAIN gs
               PROVE  /\ "in" \in DOMAIN gs[k]
                      /\ gs[k].in = "type" => gs[k] \in TypeFrames /\ gs[k].n \in DOMAIN os
                      /\ gs[k].in = "main" => k = Len(gs)
    BY DEF Framed
  <2>1. /\ "in" \in DOMAIN fs[k + 1]
        /\ fs[k + 1].in = "type" => fs[k + 1] \in TypeFrames /\ fs[k + 1].n \in DOMAIN os
        /\ fs[k + 1].in = "main" => k + 1 = Len(fs)
    BY <1>0, <1>2 DEF Framed
  <2> QED
    BY <2>1, <1>1, <1>2
<1>6. \A n : (\E k \in DOMAIN gs : Making(gs[k], n)) <=> (\E k \in DOMAIN fs : Making(fs[k], n))
  BY <1>2, <1>3, <1>4
<1>7. Stated(gs, os)
  BY <1>0, <1>6 DEF Stated
<1>8. Stacked(gs, os)
  <2> SUFFICES ASSUME NEW j \in DOMAIN gs, NEW k \in DOMAIN gs, NEW m \in DOMAIN os, NEW n \in DOMAIN os,
                      j < k, Making(gs[j], m), Making(gs[k], n)
               PROVE  n < m
    BY DEF Stacked
  <2>1. j + 1 < k + 1
    BY <1>1
  <2> QED
    BY <2>1, <1>0, <1>2 DEF Stacked
<1> QED
  BY <1>0, <1>1, <1>5, <1>7, <1>8 DEF Good, gs

LEMMA PopType ==
  ASSUME NEW fs, NEW os, Good(fs, os), fs # <<>>, Head(fs).in = "type",
         NEW ps, ps = [os EXCEPT ![Head(fs).n].state = "complete"]
  PROVE  Good(Tail(fs), ps)
<1> DEFINE gs == Tail(fs)
           i  == Head(fs).n
           o  == [os[i] EXCEPT !.state = "complete"]
<1>0. IsSeq(fs) /\ IsSeq(os) /\ Framed(fs, os) /\ Stated(fs, os) /\ Stacked(fs, os)
  BY DEF Good
<1>1. /\ IsSeq(gs)
      /\ Len(fs) \in Nat \ {0} /\ DOMAIN fs = 1 .. Len(fs)
      /\ Len(gs) = Len(fs) - 1 /\ DOMAIN gs = 1 .. (Len(fs) - 1)
      /\ Head(fs) = fs[1]
      /\ \A k \in 1 .. (Len(fs) - 1) : gs[k] = fs[k + 1]
  BY <1>0, Popped
<1>2. i \in DOMAIN os
  BY <1>0, <1>1 DEF Framed
<1>3. ps = [os EXCEPT ![i] = o]
  BY Zenon
<1>5. o.state = "complete" /\ o = Object(o.type, o.state)
  BY <1>0, <1>2 DEF Stated, Object
<1>6. \A n : Making(fs[1], n) <=> n = i
  BY <1>1 DEF Making
<1> HIDE DEF gs, i, o
<1>4. IsSeq(ps) /\ DOMAIN ps = DOMAIN os /\ ps[i] = o /\ \A k \in DOMAIN os \ {i} : ps[k] = os[k]
  <2>1. /\ IsSeq([os EXCEPT ![i] = o])
        /\ DOMAIN [os EXCEPT ![i] = o] = DOMAIN os
        /\ [os EXCEPT ![i] = o][i] = o
        /\ \A k \in DOMAIN os \ {i} : [os EXCEPT ![i] = o][k] = os[k]
    BY <1>0, <1>2, Replaced, Zenon
  <2> QED
    BY <1>3, <2>1
<1>7. \A k \in DOMAIN gs : k + 1 \in DOMAIN fs /\ gs[k] = fs[k + 1]
  BY <1>1
<1>8. \A k \in DOMAIN fs \ {1} : k - 1 \in DOMAIN gs /\ fs[k] = gs[k - 1]
  <2> TAKE k \in DOMAIN fs \ {1}
  <2>1. k - 1 \in 1 .. (Len(fs) - 1) /\ (k - 1) + 1 = k
    BY <1>1
  <2> QED
    BY <2>1, <1>1
<1>9. Framed(gs, ps)
  <2> SUFFICES ASSUME NEW k \in DOMAIN gs
               PROVE  /\ "in" \in DOMAIN gs[k]
                      /\ gs[k].in = "type" => gs[k] \in TypeFrames /\ gs[k].n \in DOMAIN ps
                      /\ gs[k].in = "main" => k = Len(gs)
    BY DEF Framed
  <2>1. /\ "in" \in DOMAIN fs[k + 1]
        /\ fs[k + 1].in = "type" => fs[k + 1] \in TypeFrames /\ fs[k + 1].n \in DOMAIN os
        /\ fs[k + 1].in = "main" => k + 1 = Len(fs)
    BY <1>0, <1>7 DEF Framed
  <2> QED
    BY <2>1, <1>1, <1>4, <1>7
<1>10. \A k \in DOMAIN gs : ~Making(gs[k], i)
  <2> SUFFICES ASSUME NEW k \in DOMAIN gs, Making(gs[k], i)
               PROVE  FALSE
    OBVIOUS
  <2>1. 1 \in DOMAIN fs /\ 1 < k + 1
    BY <1>1
  <2>2. i < i
    BY <2>1, <1>0, <1>2, <1>6, <1>7 DEF Stacked
  <2>3. i \in Nat
    BY <1>0, <1>2 DEF IsSeq
  <2> QED
    BY <2>2, <2>3
<1>11. \A n \in DOMAIN os \ {i} :
         (\E k \in DOMAIN gs : Making(gs[k], n)) <=> (\E k \in DOMAIN fs : Making(fs[k], n))
  BY <1>6, <1>7, <1>8
<1>12. Stated(gs, ps)
  <2> SUFFICES ASSUME NEW n \in DOMAIN ps
               PROVE  /\ ps[n] = Object(ps[n].type, ps[n].state)
                      /\ ps[n].state = "building" <=> \E k \in DOMAIN gs : Making(gs[k], n)
                      /\ ps[n].state = "wild" => Kind(ps[n].type) \in UnsizedKinds
    BY DEF Stated
  <2>1. CASE n = i
    BY <2>1, <1>4, <1>5, <1>10
  <2>2. CASE n # i
    BY <2>2, <1>0, <1>4, <1>11 DEF Stated
  <2> QED
    BY <2>1, <2>2
<1>13. Stacked(gs, ps)
  <2> SUFFICES ASSUME NEW j \in DOMAIN gs, NEW k \in DOMAIN gs, NEW m \in DOMAIN os, NEW n \in DOMAIN os,
                      j < k, Making(gs[j], m), Making(gs[k], n)
               PROVE  n < m
    BY <1>4 DEF Stacked
  <2>1. j + 1 < k + 1
    BY <1>1
  <2> QED
    BY <2>1, <1>0, <1>7 DEF Stacked
<1> QED
  BY <1>1, <1>4, <1>9, <1>12, <1>13 DEF Good, gs

-----------------------------------------------------------------------------
(* The common program, step by step. *)
LEMMA EnterGood ==
  ASSUME NEW rest, NEW new, Good(rest, objects'), Enter(new, rest),
         "in" \in DOMAIN new, new.in = "call"
  PROVE  Running' => Good(frames', objects')
<1>1. CASE Len(rest) < StackSize
  <2>1. frames' = Push(new, rest)
    BY <1>1 DEF Enter, Push
  <2> QED
    BY <2>1, PushOther
<1>2. CASE ~(Len(rest) < StackSize)
  BY <1>2 DEF Enter, Running
<1> QED
  BY <1>1, <1>2

LEMMA EnterTypeGood ==
  ASSUME NEW rest, Good(rest, objects), NEW t \in DOMAIN Types, NEW left \in Int,
         SaveToObjectList(Object(t, "building")), Enter(TypeFrame(t, left), rest)
  PROVE  Running' => Good(frames', objects')
<1>1. CASE Len(rest) < StackSize
  <2>1. frames' = Push([in |-> "type", of |-> t, left |-> left, n |-> Len(objects) + 1], rest)
    BY <1>1 DEF Enter, Push, TypeFrame
  <2>2. objects' = Append(objects, Object(t, "building"))
    BY DEF SaveToObjectList
  <2> QED
    BY <2>1, <2>2, PushType
<1>2. CASE ~(Len(rest) < StackSize)
  BY <1>2 DEF Enter, Running
<1> QED
  BY <1>1, <1>2

LEMMA TakenGood ==
  ASSUME Good(frames, objects), frames # <<>>
  PROVE  Good(Taken, objects)
<1>1. Taken = Push([Head(frames) EXCEPT !.left = @ - 1], Tail(frames))
  BY DEF Taken, Top, Push
<1> QED
  BY <1>1, TakeGood

LEMMA SavedGood ==
  ASSUME Good(frames, objects), frames # <<>>, frames' = Taken,
         NEW t, NEW state \in {"complete", "wild"}, state = "wild" => Kind(t) \in UnsizedKinds,
         SaveToObjectList(Object(t, state))
  PROVE  Good(frames', objects')
BY TakenGood, SaveGood DEF SaveToObjectList

(* What a call leaves of the frame of main, which is the outermost. *)
LEMMA MainGood ==
  ASSUME Good(frames, objects), frames # <<>>, Top.in = "main"
  PROVE  Good(<<[Top EXCEPT !.left = @ - 1]>>, objects)
<1>0. IsSeq(frames) /\ Framed(frames, objects)
  BY DEF Good
<1>1. Len(frames) = 1 /\ IsSeq(Tail(frames)) /\ Len(Tail(frames)) = 0
  <2>1. /\ Len(frames) \in Nat \ {0} /\ DOMAIN frames = 1 .. Len(frames)
        /\ Len(Tail(frames)) = Len(frames) - 1
        /\ Head(frames) = frames[1] /\ IsSeq(Tail(frames))
    BY <1>0, Popped
  <2> QED
    BY <2>1, <1>0 DEF Framed, Top
<1>2. Tail(frames) = <<>>
  <2>1. PICK S : Tail(frames) \in Seq(S)
    BY <1>1 DEF IsSeq
  <2> QED
    BY <1>1, <2>1, EmptySeq
<1>3. Taken = <<[Top EXCEPT !.left = @ - 1]>>
  BY <1>2, PushedOnNothing DEF Taken, Push
<1> QED
  BY <1>3, TakenGood

LEMMA NothingGood == Good(<<>>, <<>>)
<1>1. IsSeq(<<>>)
  <2>1. <<>> \in Seq({})
    OBVIOUS
  <2> QED
    BY <2>1 DEF IsSeq
<1>2. DOMAIN <<>> = {}
  OBVIOUS
<1> QED
  BY <1>1, <1>2 DEF Good, Framed, Stated, Stacked

LEMMA StartGood ==
  ASSUME NEW os, Good(<<>>, os), NEW left
  PROVE  Good(<<[in |-> "main", left |-> left]>>, os)
<1> DEFINE f  == [in |-> "main", left |-> left]
           fs == <<f>>
<1>0. IsSeq(os) /\ Stated(<<>>, os)
  BY DEF Good
<1>1. IsSeq(fs) /\ DOMAIN fs = {1} /\ Len(fs) = 1 /\ fs[1] = f
  <2> HIDE DEF f
  <2>1. fs \in Seq({f})
    OBVIOUS
  <2>2. IsSeq(fs)
    BY <2>1 DEF IsSeq
  <2> QED
    BY <2>1, <2>2
<1>2. "in" \in DOMAIN f /\ f.in = "main"
  OBVIOUS
<1> HIDE DEF f, fs
<1>3. \A k \in DOMAIN fs : \A n : ~Making(fs[k], n)
  BY <1>1, <1>2 DEF Making
<1>4. Framed(fs, os)
  BY <1>1, <1>2 DEF Framed
<1>5. Stated(fs, os)
  BY <1>0, <1>3 DEF Stated
<1>6. Stacked(fs, os)
  BY <1>3 DEF Stacked
<1>7. Good(fs, os)
  BY <1>0, <1>1, <1>4, <1>5, <1>6 DEF Good
<1> QED
  BY <1>7 DEF f, fs

-----------------------------------------------------------------------------
LEMMA CommonStep ==
  ASSUME CommonNext, Running, Good(frames, objects)
  PROVE  Running' => Good(frames', objects')
<1>1. CASE CallCommonApi
  <2>1. Good(<<[Top EXCEPT !.left = @ - 1]>>, objects) /\ objects' = objects
    BY <1>1, MainGood DEF CallCommonApi, In
  <2>2. PICK id \in -1 .. MaxCount :
          IF id + 1 \in DOMAIN apis
          THEN Enter(CallFrame(apis[id + 1], FALSE), <<[Top EXCEPT !.left = @ - 1]>>)
          ELSE frames' = <<[Top EXCEPT !.left = @ - 1]>> /\ UNCHANGED status
    BY <1>1 DEF CallCommonApi
  <2>3. CASE id + 1 \in DOMAIN apis
    <3> DEFINE new == CallFrame(apis[id + 1], FALSE)
    <3>1. "in" \in DOMAIN new /\ new.in = "call"
      BY DEF CallFrame
    <3>2. Enter(new, <<[Top EXCEPT !.left = @ - 1]>>)
      BY <2>2, <2>3
    <3> HIDE DEF new
    <3> QED
      BY <2>1, <3>1, <3>2, EnterGood
  <2>4. CASE id + 1 \notin DOMAIN apis
    BY <2>1, <2>2, <2>4
  <2> QED
    BY <2>3, <2>4
<1>2. CASE MallocUnsaved
  BY <1>2, TakenGood DEF MallocUnsaved
<1>3. CASE FinishObject
  <2>1. frames # <<>> /\ Head(frames).in = "type" /\ frames' = Tail(frames)
    BY <1>3 DEF FinishObject, In, Top
  <2>2. objects' = [objects EXCEPT ![Head(frames).n].state = "complete"]
    BY <1>3 DEF FinishObject, Top
  <2> QED
    BY <2>1, <2>2, PopType
<1>4. CASE InvokeCommonApi
  <2>1. frames # <<>> /\ Head(frames).in # "type"
    BY <1>4 DEF InvokeCommonApi, CommonApiRuns, In, Top
  <2>2. CASE Crash
    BY <2>2 DEF Crash, Running
  <2>3. CASE /\ IF Top.ctor THEN UNCHANGED objects
                ELSE SaveToObjectList(Object(RetType(Top.of), "complete"))
             /\ frames' = Tail(frames)
    <3>1. Good(Tail(frames), objects)
      BY <2>1, PopOther
    <3>2. CASE Top.ctor
      BY <2>3, <3>1, <3>2
    <3>3. CASE ~Top.ctor
      BY <2>3, <3>1, <3>3, SaveGood DEF SaveToObjectList
    <3> QED
      BY <3>2, <3>3
  <2> QED
    BY <1>4, <2>2, <2>3 DEF InvokeCommonApi, CommonApiRuns
<1>5. ASSUME NEW t \in DOMAIN Types, MallocSaved(t)
      PROVE  frames # <<>>
  BY <1>5 DEF MallocSaved, Wants
<1>6. ASSUME NEW t \in DOMAIN Types, ReferToObject(t)
      PROVE  Running' => Good(frames', objects')
  BY <1>5, <1>6, TakenGood DEF ReferToObject, Crash, Running
<1>7. ASSUME NEW t \in DOMAIN Types, MallocBits(t)
      PROVE  Running' => Good(frames', objects')
  BY <1>5, <1>7, SavedGood DEF MallocBits
<1>8. ASSUME NEW t \in DOMAIN Types, MallocNull(t)
      PROVE  Running' => Good(frames', objects')
  BY <1>5, <1>8, SavedGood DEF MallocNull
<1>9. ASSUME NEW t \in DOMAIN Types, MallocUnsized(t)
      PROVE  Running' => Good(frames', objects')
  <2>1. CASE Crash
    BY <2>1 DEF Crash, Running
  <2>2. CASE SaveToObjectList(Object(t, "wild")) /\ frames' = Taken
    BY <1>5, <1>9, <2>2, SavedGood DEF MallocUnsized
  <2> QED
    BY <1>9, <2>1, <2>2 DEF MallocUnsized
<1>10. ASSUME NEW t \in DOMAIN Types, MallocComposite(t)
       PROVE  Running' => Good(frames', objects')
  <2> DEFINE left == CASE Kind(t) = "pointer" -> 1
                       [] Kind(t) \in {"array", "vector"} -> Types[t].n
                       [] OTHER -> Len(Parts(t))
  <2>1. left \in Int
    BY ProgramAssumption DEF Kind, Parts
  <2>2. SaveToObjectList(Object(t, "building")) /\ Enter(TypeFrame(t, left), Taken)
    BY <1>10 DEF MallocComposite
  <2>3. Good(Taken, objects)
    BY <1>5, <1>10, TakenGood DEF MallocComposite
  <2> HIDE DEF left
  <2> QED
    BY <2>1, <2>2, <2>3, EnterTypeGood
<1>11. ASSUME NEW t \in DOMAIN Types, MallocByConstructor(t)
       PROVE  Running' => Good(frames', objects')
  <2>1. Good(Taken, objects) /\ frames # <<>>
    BY <1>5, <1>11, TakenGood DEF MallocByConstructor
  <2>2. PICK id \in -1 .. MaxCount :
          IF id + 1 \in DOMAIN GetConstructors(t)
          THEN /\ SaveToObjectList(Object(t, "building"))
               /\ Enter(CallFrame(GetConstructors(t)[id + 1], TRUE), <<TypeFrame(t, 0)>> \o Taken)
          ELSE SaveToObjectList(Object(t, "complete")) /\ frames' = Taken /\ UNCHANGED status
    BY <1>11 DEF MallocByConstructor
  <2>3. CASE id + 1 \in DOMAIN GetConstructors(t)
    <3> DEFINE new  == CallFrame(GetConstructors(t)[id + 1], TRUE)
               rest == Push([in |-> "type", of |-> t, left |-> 0, n |-> Len(objects) + 1], Taken)
    <3>1. objects' = Append(objects, Object(t, "building")) /\ Enter(new, rest)
      BY <2>2, <2>3 DEF SaveToObjectList, Push, TypeFrame
    <3>2. "in" \in DOMAIN new /\ new.in = "call"
      BY DEF CallFrame
    <3>3. Good(rest, objects')
      <4>1. \A left \in Int :
              Good(Push([in |-> "type", of |-> t, left |-> left, n |-> Len(objects) + 1], Taken),
                   Append(objects, Object(t, "building")))
        BY <2>1, PushType
      <4>2. 0 \in Int
        OBVIOUS
      <4> QED
        BY <3>1, <4>1, <4>2, Zenon
    <3> HIDE DEF new, rest
    <3> QED
      BY <3>1, <3>2, <3>3, EnterGood
  <2>4. CASE id + 1 \notin DOMAIN GetConstructors(t)
    BY <2>1, <2>2, <2>4, SavedGood
  <2> QED
    BY <2>3, <2>4
<1> QED
  BY <1>1, <1>2, <1>3, <1>4, <1>6, <1>7, <1>8, <1>9, <1>10, <1>11 DEF CommonNext

-----------------------------------------------------------------------------
(* What the program for Node.js keeps of its stack and its objects: an array is
   read inside a call or another array, and its elements are objects. *)
MainFrames == [in : {"main"}, left : Int]
CallFrames == [in : {"this", "args", "array"}, left : Int, refs : SUBSET Nat]

Nested(fs) ==
  \A k \in DOMAIN fs :
    fs[k].in = "array" => k + 1 \in DOMAIN fs /\ fs[k + 1].in # "main"

Held(fs, os) ==
  /\ \A n \in DOMAIN os : os[n] \subseteq 1 .. (n - 1)
  /\ \A k \in DOMAIN fs : fs[k].in # "main" => fs[k].refs \subseteq DOMAIN os

Sound(fs, os) ==
  /\ fs \in Seq(MainFrames \cup CallFrames)
  /\ os \in Seq(SUBSET Nat)
  /\ Nested(fs)
  /\ Held(fs, os)

LEMMA PushSound ==
  ASSUME NEW fs, NEW os, Sound(fs, os), NEW f \in MainFrames \cup CallFrames,
         f.in # "main" => f.refs \subseteq DOMAIN os,
         f.in = "array" => fs # <<>> /\ fs[1].in # "main"
  PROVE  Sound(Push(f, fs), os)
<1> DEFINE gs == Push(f, fs)
<1>0. fs \in Seq(MainFrames \cup CallFrames) /\ os \in Seq(SUBSET Nat) /\ Nested(fs) /\ Held(fs, os)
  BY DEF Sound
<1>1. gs \in Seq(MainFrames \cup CallFrames)
  BY <1>0 DEF Push
<1>2. /\ Len(fs) \in Nat /\ DOMAIN fs = 1 .. Len(fs)
      /\ DOMAIN gs = 1 .. (Len(fs) + 1)
      /\ gs[1] = f
      /\ \A k \in 1 .. Len(fs) : gs[k + 1] = fs[k]
  <2>1. IsSeq(fs)
    BY <1>0 DEF IsSeq
  <2> QED
    BY <2>1, Pushed
<1> HIDE DEF gs
<1>3. \A k \in DOMAIN gs \ {1} : k - 1 \in DOMAIN fs /\ gs[k] = fs[k - 1]
  BY <1>2
<1>4. Nested(gs)
  <2> SUFFICES ASSUME NEW k \in DOMAIN gs, gs[k].in = "array"
               PROVE  k + 1 \in DOMAIN gs /\ gs[k + 1].in # "main"
    BY DEF Nested
  <2>1. CASE k = 1
    <3>1. fs # <<>> /\ fs[1].in # "main"
      BY <2>1, <1>2
    <3>2. Len(fs) # 0
      BY <3>1, <1>0, EmptySeq
    <3> QED
      BY <2>1, <3>1, <3>2, <1>2
  <2>2. CASE k # 1
    <3>1. k - 1 \in DOMAIN fs /\ fs[k - 1].in = "array" /\ k \in Nat
      BY <2>2, <1>2, <1>3
    <3>2. (k - 1) + 1 \in DOMAIN fs /\ fs[(k - 1) + 1].in # "main"
      BY <3>1, <1>0 DEF Nested
    <3>3. k \in DOMAIN fs /\ fs[k].in # "main"
      BY <3>1, <3>2
    <3> QED
      BY <3>3, <1>2
  <2> QED
    BY <2>1, <2>2
<1>5. Held(gs, os)
  <2> SUFFICES ASSUME NEW k \in DOMAIN gs, gs[k].in # "main"
               PROVE  gs[k].refs \subseteq DOMAIN os
    BY <1>0 DEF Held
  <2>1. CASE k = 1
    BY <2>1, <1>2
  <2>2. CASE k # 1
    BY <2>2, <1>0, <1>3 DEF Held
  <2> QED
    BY <2>1, <2>2
<1>6. Sound(gs, os)
  BY <1>0, <1>1, <1>4, <1>5 DEF Sound
<1> QED
  BY <1>6 DEF gs

LEMMA PopSound ==
  ASSUME NEW fs, NEW os, Sound(fs, os), fs # <<>>
  PROVE  /\ Sound(Tail(fs), os)
         /\ Head(fs) \in MainFrames \cup CallFrames
         /\ Head(fs).in # "main" => Head(fs).refs \subseteq DOMAIN os
         /\ Head(fs).in = "array"
            => Tail(fs) # <<>> /\ Head(Tail(fs)) = Tail(fs)[1] /\ Tail(fs)[1].in # "main"
<1> DEFINE gs == Tail(fs)
<1>0. fs \in Seq(MainFrames \cup CallFrames) /\ os \in Seq(SUBSET Nat) /\ Nested(fs) /\ Held(fs, os)
  BY DEF Sound
<1>1. gs \in Seq(MainFrames \cup CallFrames) /\ Head(fs) \in MainFrames \cup CallFrames
  BY <1>0
<1>2. /\ Len(fs) \in Nat \ {0} /\ DOMAIN fs = 1 .. Len(fs)
      /\ Len(gs) = Len(fs) - 1 /\ DOMAIN gs = 1 .. (Len(fs) - 1)
      /\ Head(fs) = fs[1]
      /\ \A k \in 1 .. (Len(fs) - 1) : gs[k] = fs[k + 1]
  <2>1. IsSeq(fs)
    BY <1>0 DEF IsSeq
  <2> QED
    BY <2>1, Popped
<1> HIDE DEF gs
<1>3. \A k \in DOMAIN gs : k + 1 \in DOMAIN fs /\ gs[k] = fs[k + 1]
  BY <1>2
<1>4. Nested(gs)
  <2> SUFFICES ASSUME NEW k \in DOMAIN gs, gs[k].in = "array"
               PROVE  k + 1 \in DOMAIN gs /\ gs[k + 1].in # "main"
    BY DEF Nested
  <2>1. k + 1 \in DOMAIN fs /\ fs[k + 1].in = "array"
    BY <1>3
  <2>2. (k + 1) + 1 \in DOMAIN fs /\ fs[(k + 1) + 1].in # "main"
    BY <2>1, <1>0 DEF Nested
  <2>3. k + 1 \in DOMAIN gs
    BY <2>2, <1>2
  <2> QED
    BY <2>2, <2>3, <1>3
<1>5. Held(gs, os)
  BY <1>0, <1>3 DEF Held
<1>6. Sound(gs, os)
  BY <1>0, <1>1, <1>4, <1>5 DEF Sound
<1>7. Head(fs).in # "main" => Head(fs).refs \subseteq DOMAIN os
  BY <1>0, <1>2 DEF Held
<1>8. ASSUME Head(fs).in = "array"
      PROVE  gs # <<>> /\ Head(gs) = gs[1] /\ gs[1].in # "main"
  <2>0. 1 \in DOMAIN fs /\ fs[1].in = "array"
    BY <1>8, <1>2
  <2>1. 1 + 1 \in DOMAIN fs /\ fs[1 + 1].in # "main"
    BY <2>0, <1>0 DEF Nested
  <2>2. 1 \in DOMAIN gs /\ gs[1].in # "main"
    BY <2>1, <1>2
  <2>3. gs # <<>>
    BY <2>2, <1>2, EmptySeq
  <2> QED
    BY <2>2, <2>3, <1>1
<1> QED
  BY <1>1, <1>6, <1>7, <1>8 DEF gs

LEMMA SaveSound ==
  ASSUME NEW fs, NEW os, Sound(fs, os), NEW refs, refs \subseteq DOMAIN os
  PROVE  Sound(fs, Append(os, refs)) /\ Len(os) + 1 \in DOMAIN Append(os, refs)
<1>0. fs \in Seq(MainFrames \cup CallFrames) /\ os \in Seq(SUBSET Nat) /\ Nested(fs) /\ Held(fs, os)
  BY DEF Sound
<1>1. DOMAIN os = 1 .. Len(os) /\ Len(os) \in Nat /\ refs \in SUBSET Nat
  BY <1>0
<1>2. Append(os, refs) \in Seq(SUBSET Nat)
  BY <1>0, <1>1
<1>3. /\ DOMAIN Append(os, refs) = 1 .. (Len(os) + 1)
      /\ Append(os, refs)[Len(os) + 1] = refs
      /\ \A n \in 1 .. Len(os) : Append(os, refs)[n] = os[n]
  BY <1>0, <1>1
<1>4. Held(fs, Append(os, refs))
  <2>1. \A n \in DOMAIN Append(os, refs) : Append(os, refs)[n] \subseteq 1 .. (n - 1)
    <3> TAKE n \in DOMAIN Append(os, refs)
    <3>1. CASE n = Len(os) + 1
      BY <3>1, <1>1, <1>3
    <3>2. CASE n \in 1 .. Len(os)
      BY <3>2, <1>0, <1>1, <1>3 DEF Held
    <3> QED
      BY <3>1, <3>2, <1>1, <1>3
  <2>2. DOMAIN os \subseteq DOMAIN Append(os, refs)
    BY <1>1, <1>3
  <2> QED
    BY <2>1, <2>2, <1>0 DEF Held
<1> QED
  BY <1>0, <1>1, <1>2, <1>3, <1>4 DEF Sound

LEMMA GotSound ==
  ASSUME NEW into, NEW os, Sound(into, os), into # <<>>, Head(into).in # "main",
         NEW refs, refs \subseteq DOMAIN os
  PROVE  Sound(Got(into, refs), os)
<1> DEFINE f == Head(into)
           g == [f EXCEPT !.left = @ - 1, !.refs = @ \cup refs]
<1>1. /\ Sound(Tail(into), os)
      /\ f \in CallFrames /\ f.refs \subseteq DOMAIN os
      /\ f.in = "array" => Tail(into) # <<>> /\ Tail(into)[1].in # "main"
  BY PopSound DEF MainFrames, CallFrames
<1>2. refs \in SUBSET Nat
  BY DEF Sound
<1>3. g \in CallFrames /\ g.in = f.in /\ g.in # "main" /\ g.refs = f.refs \cup refs
  <2> HIDE DEF f
  <2>1. /\ f = [in |-> f.in, left |-> f.left, refs |-> f.refs]
        /\ f.in \in {"this", "args", "array"} /\ f.left \in Int /\ f.refs \in SUBSET Nat
    BY <1>1 DEF CallFrames
  <2>2. f.left - 1 \in Int /\ f.refs \cup refs \in SUBSET Nat
    BY <2>1, <1>2
  <2>3. DOMAIN f = {"in", "left", "refs"}
    BY <2>1
  <2> DEFINE h == [f EXCEPT !.left = @ - 1]
  <2>4. h \in CallFrames /\ h.in = f.in /\ h.refs = f.refs
    BY <1>1, <2>2 DEF CallFrames
  <2>5. g = [h EXCEPT !.refs = @ \cup refs]
    BY <2>3, Zenon
  <2> HIDE DEF h
  <2> QED
    BY <2>2, <2>4, <2>5, <1>1 DEF CallFrames
<1>4. Got(into, refs) = Push(g, Tail(into))
  BY DEF Got, Push
<1> HIDE DEF f, g
<1> QED
  BY <1>1, <1>3, <1>4, PushSound

LEMMA EnterSound ==
  ASSUME NEW rest, NEW os, Sound(rest, os), NEW new \in CallFrames, new.refs \subseteq DOMAIN os,
         new.in = "array" => rest # <<>> /\ rest[1].in # "main",
         Enter(new, rest)
  PROVE  Sound(frames', os)
<1>1. CASE Len(rest) < StackSize
  <2>1. frames' = Push(new, rest)
    BY <1>1 DEF Enter, Push
  <2> QED
    BY <2>1, PushSound
<1>2. CASE ~(Len(rest) < StackSize)
  BY <1>2 DEF Enter
<1> QED
  BY <1>1, <1>2

LEMMA DeliverSound ==
  ASSUME Sound(frames, objects), Wanted, NEW refs, refs \subseteq DOMAIN objects, Deliver(refs)
  PROVE  Sound(frames', objects')
BY GotSound DEF Wanted, Deliver, Top

LEMMA MainSound ==
  ASSUME NEW os, Sound(frames, os), NEW f \in MainFrames
  PROVE  Sound(<<f>>, os)
<1>1. Sound(<<>>, os)
  <2>1. DOMAIN <<>> = {} /\ <<>> \in Seq(MainFrames \cup CallFrames)
    OBVIOUS
  <2> QED
    BY <2>1 DEF Sound, Nested, Held
<1>2. f.in = "main"
  BY DEF MainFrames
<1> QED
  <2>1. <<f>> = Push(f, <<>>)
    BY PushedOnNothing
  <2> QED
    BY <2>1, <1>1, <1>2, PushSound

LEMMA NodejsStep ==
  ASSUME NodejsNext, Sound(frames, objects)
  PROVE  Sound(frames', objects')
<1> USE DEF Kinded
<1>0. \A size \in -1 .. MaxCount : size \in Int
  BY ObjectListAssumption
<1>1. CASE CallNodejsApi
  <2> DEFINE main == [Top EXCEPT !.left = @ - 1]
             new  == NodejsFrame("this", 1, {})
  <2>1. main \in MainFrames
    <3>1. Top \in MainFrames \cup CallFrames /\ Top.in = "main"
      BY <1>1, PopSound DEF CallNodejsApi, In, Top
    <3>2. Top \in MainFrames
      BY <3>1 DEF CallFrames
    <3> QED
      BY <3>2 DEF MainFrames
  <2>2. new \in CallFrames /\ new.refs \subseteq DOMAIN objects /\ new.in # "array"
    BY DEF NodejsFrame, CallFrames
  <2>3. Enter(new, <<main>>) \/ frames' = <<main>>
    BY <1>1 DEF CallNodejsApi
  <2>4. objects' = objects
    BY <1>1 DEF CallNodejsApi
  <2> HIDE DEF main, new
  <2>5. Sound(<<main>>, objects)
    BY <2>1, MainSound
  <2> QED
    BY <2>2, <2>3, <2>4, <2>5, EnterSound
<1>2. CASE MallocScalar
  BY <1>2, DeliverSound DEF MallocScalar
<1>3. CASE MallocString
  BY <1>3, DeliverSound DEF MallocString, Crash
<1>4. CASE MallocFunction
  BY <1>4, DeliverSound DEF MallocFunction, Crash
<1>5. CASE MallocPlaceholder
  <2>1. PICK index \in -1 .. MaxCount : Deliver({GetFromObjectList(index)} \ {0})
    BY <1>5 DEF MallocPlaceholder
  <2>2. {GetFromObjectList(index)} \ {0} \subseteq DOMAIN objects
    BY <1>0 DEF GetFromObjectList, Sound
  <2> QED
    BY <1>5, <2>1, <2>2, DeliverSound DEF MallocPlaceholder
<1>6. CASE MallocArray
  <2>1. PICK size \in -1 .. MaxCount :
          IF size = -1 THEN Crash
          ELSE Enter(NodejsFrame("array", size, {}), frames) /\ UNCHANGED objects
    BY <1>6 DEF MallocArray
  <2>2. CASE size = -1
    BY <2>1, <2>2 DEF Crash
  <2>3. CASE size # -1
    <3> DEFINE new == NodejsFrame("array", size, {})
    <3>1. new \in CallFrames /\ new.refs \subseteq DOMAIN objects
      BY <1>0 DEF NodejsFrame, CallFrames
    <3>2. frames # <<>> /\ frames[1].in # "main"
      BY <1>6 DEF MallocArray, Wanted, Top, Sound
    <3>3. Enter(new, frames) /\ objects' = objects
      BY <2>1, <2>3
    <3> HIDE DEF new
    <3> QED
      BY <3>1, <3>2, <3>3, EnterSound
  <2> QED
    BY <2>2, <2>3
<1>7. CASE CreateArray
  <2>1. frames # <<>> /\ Head(frames).in = "array"
    BY <1>7 DEF CreateArray, In, Top
  <2>2. /\ Sound(Tail(frames), objects) /\ Head(frames).refs \subseteq DOMAIN objects
        /\ Tail(frames) # <<>> /\ Head(Tail(frames)).in # "main"
    BY <2>1, PopSound
  <2>3. objects' = Append(objects, Head(frames).refs)
    BY <1>7 DEF CreateArray, SaveToObjectList, Top
  <2>4. Sound(Tail(frames), objects') /\ {Len(objects) + 1} \subseteq DOMAIN objects'
    BY <2>2, <2>3, SaveSound
  <2>5. frames' = Got(Tail(frames), {Len(objects) + 1})
    BY <1>7 DEF CreateArray
  <2> QED
    BY <2>2, <2>4, <2>5, GotSound
<1>8. CASE ReadArgsCount
  <2>1. frames # <<>> /\ Top.in = "this"
    BY <1>8 DEF ReadArgsCount, In
  <2>2. PICK count \in -1 .. MaxCount :
          IF count = -1 THEN Crash
          ELSE /\ frames' = <<NodejsFrame("args", count, Top.refs)>> \o Tail(frames)
               /\ UNCHANGED <<objects, status>>
    BY <1>8 DEF ReadArgsCount
  <2>3. CASE count = -1
    BY <2>2, <2>3 DEF Crash
  <2>4. CASE count # -1
    <3> DEFINE new == NodejsFrame("args", count, Top.refs)
    <3>1. Sound(Tail(frames), objects) /\ Top \in CallFrames /\ Top.refs \subseteq DOMAIN objects
      BY <2>1, PopSound DEF Top, MainFrames, CallFrames
    <3>2. new \in CallFrames /\ new.refs \subseteq DOMAIN objects /\ new.in = "args"
      BY <1>0, <3>1 DEF NodejsFrame, CallFrames
    <3>3. frames' = Push(new, Tail(frames)) /\ objects' = objects
      BY <2>2, <2>4 DEF Push
    <3> HIDE DEF new
    <3> QED
      BY <3>1, <3>2, <3>3, PushSound
  <2> QED
    BY <2>3, <2>4
<1>9. CASE InvokeNodejsApi
  <2>1. frames # <<>>
    BY <1>9 DEF InvokeNodejsApi, NodejsApiRuns, In
  <2>2. CASE SaveToObjectList({}) /\ frames' = Tail(frames)
    BY <2>1, <2>2, PopSound, SaveSound DEF SaveToObjectList
  <2>3. CASE Crash
    BY <2>3 DEF Crash
  <2> QED
    BY <1>9, <2>2, <2>3 DEF InvokeNodejsApi, NodejsApiRuns
<1> QED
  BY <1>1, <1>2, <1>3, <1>4, <1>5, <1>6, <1>7, <1>8, <1>9 DEF NodejsNext

-----------------------------------------------------------------------------
(* The inductive invariant of what is built and run. *)
Inv ==
  /\ target \in {"nodejs", "common", "caf"}
  /\ status = "compiling" => objects = <<>> /\ frames = <<>>
  /\ target = "nodejs" => Sound(frames, objects)
  /\ target = "caf" /\ Running => Good(frames, objects)

LEMMA NothingSound == Sound(<<>>, <<>>)
<1>1. DOMAIN <<>> = {} /\ <<>> \in Seq(MainFrames \cup CallFrames) /\ <<>> \in Seq(SUBSET Nat)
  OBVIOUS
<1> QED
  BY <1>1 DEF Sound, Nested, Held

LEMMA MainStep ==
  ASSUME Inv, RunMain
  PROVE  Inv'
<1>1. target' = target
  BY DEF RunMain, rigid
<1>2. CASE FinishMain
  BY <1>1, <1>2 DEF Inv, FinishMain, Running
<1>3. CASE StartMain
  <2>1. PICK size \in -1 .. MaxCount : frames' = <<[in |-> "main", left |-> size]>>
    BY <1>3 DEF StartMain
  <2>2. frames = <<>> /\ objects' = objects /\ status' = "running" /\ Running
    BY <1>3 DEF StartMain, Running
  <2>3. size \in Int
    BY ObjectListAssumption
  <2>4. ASSUME target = "nodejs"
        PROVE  Sound(frames', objects')
    <3>1. [in |-> "main", left |-> size] \in MainFrames
      BY <2>3 DEF MainFrames
    <3> QED
      BY <3>1, <2>1, <2>2, <2>4, MainSound DEF Inv
  <2>5. ASSUME target = "caf"
        PROVE  Good(frames', objects')
    <3>1. Good(<<>>, objects)
      BY <2>2, <2>5 DEF Inv
    <3> QED
      BY <3>1, <2>1, <2>2, StartGood
  <2> QED
    BY <1>1, <2>2, <2>4, <2>5 DEF Inv
<1> QED
  BY <1>2, <1>3 DEF RunMain

LEMMA Step ==
  ASSUME Inv, [Next]_vars
  PROVE  Inv'
<1>1. CASE RunExtractor
  BY <1>1, NothingSound DEF Inv, RunExtractor, rigid, Running
<1>2. CASE RunDriver
  BY <1>2 DEF Inv, RunDriver, rigid, driverVars, Running
<1>3. CASE Link
  BY <1>3, NothingGood DEF Inv, Link, rigid, Running
<1>4. CASE RunNodejs
  <2>1. target = "nodejs" /\ target' = target /\ NodejsNext
    BY <1>4 DEF RunNodejs, rigid
  <2>2. Sound(frames', objects')
    BY <2>1, NodejsStep DEF Inv
  <2>3. status' # "compiling"
    BY <2>1 DEF NodejsNext, CallNodejsApi, Kinded, Wanted, In, Running, MallocScalar, MallocString,
                MallocFunction, MallocPlaceholder, MallocArray, CreateArray, ReadArgsCount,
                InvokeNodejsApi, NodejsApiRuns, Deliver, Enter, Crash
  <2> QED
    BY <2>1, <2>2, <2>3 DEF Inv
<1>5. CASE RunCommon
  <2>1. target = "caf" /\ target' = target /\ CommonNext
    BY <1>5 DEF RunCommon, rigid
  <2>2. Running
    BY <2>1 DEF CommonNext, CallCommonApi, MallocUnsaved, FinishObject, InvokeCommonApi, CommonApiRuns, In,
                ReferToObject, MallocBits, MallocNull, MallocUnsized, MallocComposite,
                MallocByConstructor, MallocSaved, Wants
  <2>3. Running' => Good(frames', objects')
    BY <2>1, <2>2, CommonStep DEF Inv
  <2>4. status' # "compiling"
    BY <2>1, <2>2 DEF CommonNext, CallCommonApi, MallocUnsaved, FinishObject, InvokeCommonApi, CommonApiRuns,
                      ReferToObject, MallocBits, MallocNull, MallocUnsized, MallocComposite,
                      MallocByConstructor, Enter, Crash, Running
  <2> QED
    BY <2>1, <2>3, <2>4 DEF Inv
<1>6. CASE RunMain
  BY <1>6, MainStep
<1>7. CASE UNCHANGED vars
  BY <1>7 DEF Inv, vars, driverVars, Running
<1> QED
  BY <1>1, <1>2, <1>3, <1>4, <1>5, <1>6, <1>7 DEF Next

LEMMA InvInductive == Spec => []Inv
<1>1. Init => Inv
  BY NothingSound DEF Init, DriverInit, Inv, Running
<1> QED
  BY <1>1, Step, PTL DEF Spec

(* Whatever the program, the input and the stack: the numbers both generated
   programs give to objects are those that a test case counts on
   (src/Instrumentor/nodejs/CAFCodeGenerator.cpp and src/Instrumentor/CAFCodeGenerator.cpp). *)
THEOREM NumberingHolds == Spec => []Numbering
<1>1. Inv => Numbering
  BY DEF Inv, Numbering, Sound, Held, ElementsBeforeArrays, Good, Stated, Stacked, WholesBeforeParts
<1> QED
  BY <1>1, InvInductive, PTL

-----------------------------------------------------------------------------
(* Recursion on lists, without induction over operators: a smallest counterexample
   there is none of. *)

(* A set of numbers that is not empty has a smallest element. *)
LEMMA Smallest ==
  ASSUME NEW T, T \subseteq Nat, T # {}
  PROVE  \E n \in T : \A m \in T : n <= m
<1>1. PICK n \in T : \A m \in T : <<m, n>> \notin OpToRel(<, Nat)
  BY NatLessThanWellFounded, WFMin
<1>2. \A m \in T : ~(m < n)
  BY <1>1 DEF OpToRel
<1> QED
  BY <1>2

(* f is what one gets from base by taking the steps one after the other. *)
Iterates(f, X, base, n, step) ==
  f \in [0 .. n -> X] /\ f[0] = base /\ \A i \in 1 .. n : f[i] = step[i][f[i - 1]]

(* Taking steps one after the other defines a function, whose values are in X. *)
LEMMA Recursion ==
  ASSUME NEW X, NEW base \in X, NEW n \in Nat, NEW step \in [1 .. n -> [X -> X]]
  PROVE  \E f : Iterates(f, X, base, n, step)
<1> DEFINE From(f, m) == f[0] = base /\ \A i \in 1 .. m : f[i] = step[i][f[i - 1]]
<1> DEFINE bad == {m \in 0 .. n : ~\E f \in [0 .. m -> X] : From(f, m)}
<1>1. SUFFICES ASSUME bad # {} PROVE FALSE
  BY <1>1 DEF Iterates
<1>2. PICK m \in bad : \A l \in bad : m <= l
  <2>1. bad \subseteq Nat
    OBVIOUS
  <2> HIDE DEF bad
  <2> QED
    BY <1>1, <2>1, Smallest
<1>3. CASE m = 0
  <2>1. [i \in 0 .. 0 |-> base] \in [0 .. 0 -> X]
    OBVIOUS
  <2>2. From([i \in 0 .. 0 |-> base], 0)
    OBVIOUS
  <2> QED
    BY <1>3, <2>1, <2>2
<1>4. CASE m # 0
  <2>1. m \in 1 .. n /\ m - 1 \in 0 .. n /\ m - 1 \notin bad
    BY <1>2, <1>4
  <2>2. PICK f \in [0 .. (m - 1) -> X] : From(f, m - 1)
    BY <2>1
  <2> DEFINE g == [i \in 0 .. m |-> IF i = m THEN step[m][f[m - 1]] ELSE f[i]]
  <2>3. g \in [0 .. m -> X]
    BY <2>1, <2>2
  <2>4. \A i \in 0 .. (m - 1) : g[i] = f[i]
    BY <2>1
  <2>5. g[m] = step[m][f[m - 1]]
    BY <2>1
  <2> HIDE DEF g
  <2>6. From(g, m)
    BY <2>1, <2>2, <2>4, <2>5
  <2> QED
    BY <2>3, <2>6
<1> QED
  BY <1>3, <1>4

(* What is in two lists joined is what is in the one or in the other. *)
LEMMA JoinedRange ==
  ASSUME NEW S, NEW a \in Seq(S), NEW b \in Seq(S), NEW c, c = a \o b
  PROVE  /\ c \in Seq(S)
         /\ Range(a) \subseteq Range(c) /\ Range(b) \subseteq Range(c)
         /\ Range(c) \subseteq Range(a) \cup Range(b)
<1>1. /\ c \in Seq(S) /\ Len(c) = Len(a) + Len(b) /\ Len(a) \in Nat /\ Len(b) \in Nat
      /\ DOMAIN a = 1 .. Len(a) /\ DOMAIN b = 1 .. Len(b) /\ DOMAIN c = 1 .. Len(c)
      /\ \A i \in 1 .. Len(a) : c[i] = a[i]
      /\ \A i \in 1 .. Len(b) : c[Len(a) + i] = b[i]
  OBVIOUS
<1>2. Range(a) \subseteq Range(c)
  BY <1>1 DEF Range
<1>3. Range(b) \subseteq Range(c)
  <2> SUFFICES ASSUME NEW i \in 1 .. Len(b) PROVE b[i] \in Range(c)
    BY <1>1 DEF Range
  <2>1. Len(a) + i \in DOMAIN c
    BY <1>1
  <2> QED
    BY <1>1, <2>1 DEF Range
<1>4. Range(c) \subseteq Range(a) \cup Range(b)
  <2> SUFFICES ASSUME NEW i \in 1 .. Len(c) PROVE c[i] \in Range(a) \cup Range(b)
    BY <1>1 DEF Range
  <2>1. CASE i <= Len(a)
    <3>1. i \in 1 .. Len(a) /\ i \in DOMAIN a
      BY <1>1, <2>1
    <3>2. c[i] = a[i]
      BY <1>1, <3>1
    <3> QED
      BY <3>1, <3>2 DEF Range
  <2>2. CASE i > Len(a)
    <3>1. i - Len(a) \in 1 .. Len(b) /\ i = Len(a) + (i - Len(a))
      BY <1>1, <2>2
    <3>2. c[i] = b[i - Len(a)]
      BY <1>1, <3>1
    <3> QED
      BY <1>1, <3>1, <3>2 DEF Range
  <2> QED
    BY <1>1, <2>1, <2>2
<1> QED
  BY <1>1, <1>2, <1>3, <1>4

(* FlattenSeq. *)
LEMMA Flattened ==
  ASSUME NEW S, NEW ss \in Seq(Seq(S))
  PROVE  /\ FlattenSeq(ss) \in Seq(S)
         /\ \A k \in 1 .. Len(ss) : Range(ss[k]) \subseteq Range(FlattenSeq(ss))
<1> DEFINE n == Len(ss)
<1>1. CASE n = 0
  <2>1. FlattenSeq(ss) = ss /\ ss = <<>>
    BY <1>1 DEF FlattenSeq
  <2> QED
    BY <1>1, <2>1
<1>2. CASE n # 0
  <2> DEFINE step == [i \in 1 .. n |-> [x \in Seq(S) |-> IF i = 1 THEN ss[i] ELSE x \o ss[i]]]
  <2> DEFINE Flat(f) == f = [i \in 1 .. n |-> IF i = 1 THEN ss[i] ELSE f[i - 1] \o ss[i]]
  <2> DEFINE flatten == CHOOSE f : Flat(f)
  <2>1. n \in Nat /\ <<>> \in Seq(S) /\ step \in [1 .. n -> [Seq(S) -> Seq(S)]]
    OBVIOUS
  <2>2. PICK f \in [0 .. n -> Seq(S)] : f[0] = <<>> /\ \A i \in 1 .. n : f[i] = step[i][f[i - 1]]
    <3>1. PICK st : st = step
      OBVIOUS
    <3>2. PICK e : e = <<>>
      OBVIOUS
    <3>3. PICK X : X = Seq(S)
      OBVIOUS
    <3>4. n \in Nat /\ e \in X /\ st \in [1 .. n -> [X -> X]]
      BY <2>1, <3>1, <3>2, <3>3
    <3> HIDE DEF step, n
    <3>5. \E f : Iterates(f, X, e, n, st)
      BY <3>4, Recursion
    <3> QED
      BY <3>1, <3>2, <3>3, <3>5 DEF Iterates
  <2>3. \A i \in 1 .. n : i - 1 \in 0 .. n /\ f[i - 1] \in Seq(S) /\ ss[i] \in Seq(S)
    <3>1. \A i \in 1 .. n : ss[i] \in Seq(S)
      OBVIOUS
    <3> HIDE DEF n, step
    <3>2. \A i \in 1 .. n : i - 1 \in 0 .. n
      BY <2>1
    <3> QED
      BY <2>2, <3>1, <3>2
  <2>4. \A i \in 1 .. n : f[i] = IF i = 1 THEN ss[i] ELSE f[i - 1] \o ss[i]
    BY <2>2, <2>3
  <2>5. \E g : Flat(g)
    <3> DEFINE g == [i \in 1 .. n |-> f[i]]
    <3>1. \A i \in 1 .. n : i # 1 => i - 1 \in 1 .. n
      BY <2>1
    <3>2. Flat(g)
      BY <2>4, <3>1
    <3> QED
      BY <3>2
  <2>6. Flat(flatten)
    BY <2>5
  <2>7. FlattenSeq(ss) = flatten[n]
    BY <1>2 DEF FlattenSeq
  <2> HIDE DEF flatten, step
  <2>8. \A i \in 1 .. n : flatten[i] = IF i = 1 THEN ss[i] ELSE flatten[i - 1] \o ss[i]
    BY <2>6
  <2> DEFINE Right(i) == /\ flatten[i] \in Seq(S)
                         /\ \A k \in 1 .. i : Range(ss[k]) \subseteq Range(flatten[i])
  <2> DEFINE wrong == {i \in 1 .. n : ~Right(i)}
  <2>9. ASSUME wrong # {} PROVE FALSE
    <3>1. PICK i \in wrong : \A j \in wrong : i <= j
      <4>1. wrong \subseteq Nat
        OBVIOUS
      <4> HIDE DEF wrong
      <4> QED
        BY <2>9, <4>1, Smallest
    <3>2. i \in 1 .. n /\ ~Right(i)
      OBVIOUS
    <3>3. CASE i = 1
      <4>1. flatten[1] = ss[1] /\ ss[1] \in Seq(S)
        BY <2>3, <2>8, <3>2, <3>3
      <4>2. \A k \in 1 .. 1 : k = 1
        OBVIOUS
      <4> QED
        BY <3>2, <3>3, <4>1, <4>2
    <3>4. CASE i # 1
      <4>1. i - 1 \in 1 .. n /\ i - 1 \notin wrong
        <5>1. i - 1 \in 1 .. n
          BY <3>2, <3>4
        <5>2. i - 1 \notin wrong
          <6> HIDE DEF wrong
          <6>1. ~(i <= i - 1)
            BY <3>2
          <6> QED
            BY <3>1, <6>1
        <5> QED
          BY <5>1, <5>2
      <4>2. Right(i - 1)
        BY <4>1
      <4>3. PICK a \in Seq(S) : a = flatten[i - 1]
        BY <4>2
      <4>4. PICK b \in Seq(S) : b = ss[i]
        BY <2>3, <3>2
      <4>5. PICK c : c = a \o b
        OBVIOUS
      <4>6. flatten[i] = c
        BY <2>8, <3>2, <3>4, <4>3, <4>4, <4>5
      <4>7. c \in Seq(S) /\ Range(a) \subseteq Range(c) /\ Range(b) \subseteq Range(c)
        BY <4>5, JoinedRange
      <4>8. \A k \in 1 .. i : k = i \/ k \in 1 .. (i - 1)
        BY <3>2
      <4>9. \A k \in 1 .. i : Range(ss[k]) \subseteq Range(c)
        BY <4>2, <4>3, <4>4, <4>7, <4>8
      <4>10. Right(i)
        BY <4>6, <4>7, <4>9
      <4> QED
        BY <3>2, <4>10
    <3> QED
      BY <3>3, <3>4
  <2>10. Right(n)
    <3>1. n \in 1 .. n
      BY <1>2, <2>1
    <3>2. n \notin wrong
      <4> HIDE DEF wrong
      <4> QED
        BY <2>9
    <3> QED
      BY <3>1, <3>2
  <2> QED
    BY <2>7, <2>10
<1> QED
  BY <1>1, <1>2

(* Adding APIs to a list of functions (AddApi) gives a list of functions. *)
LEMMA ApisAdded ==
  ASSUME NEW known \in Seq(DOMAIN Functions), NEW fs \in Seq(DOMAIN Functions)
  PROVE  AddApis(known, fs) \in Seq(DOMAIN Functions)
<1> DEFINE S == Seq(DOMAIN Functions)
<1> DEFINE n == Len(fs)
<1> DEFINE Next1(x, k) == IF Functions[fs[k]].intrinsic \/ fs[k] \in Range(x) THEN x ELSE Append(x, fs[k])
<1> DEFINE step == [k \in 1 .. n |-> [x \in S |-> Next1(x, k)]]
<1> DEFINE Adds(f) == f = [k \in 0 .. n |-> IF k = 0 THEN known
              ELSE IF Functions[fs[k]].intrinsic \/ fs[k] \in Range(f[k - 1]) THEN f[k - 1]
              ELSE Append(f[k - 1], fs[k])]
<1> DEFINE added == CHOOSE f : Adds(f)
<1>1. n \in Nat /\ \A k \in 1 .. n : fs[k] \in DOMAIN Functions
  OBVIOUS
<1>2. \A k \in 1 .. n : \A x \in S : Next1(x, k) \in S
  <2> SUFFICES ASSUME NEW k \in 1 .. n, NEW x \in S PROVE Next1(x, k) \in S
    OBVIOUS
  <2>1. PICK g \in DOMAIN Functions : g = fs[k]
    BY <1>1
  <2>2. Append(x, g) \in S
    OBVIOUS
  <2> QED
    BY <2>1, <2>2
<1>3. step \in [1 .. n -> [S -> S]]
  <2> HIDE DEF Next1
  <2> QED
    BY <1>2
<1>4. PICK f : Iterates(f, S, known, n, step)
  <2>1. PICK X : X = S
    OBVIOUS
  <2>2. PICK st : st = step
    OBVIOUS
  <2> HIDE DEF S, n, step
  <2>3. n \in Nat /\ known \in X /\ st \in [1 .. n -> [X -> X]]
    BY <1>1, <1>3, <2>1, <2>2 DEF S
  <2>4. \E f : Iterates(f, X, known, n, st)
    BY <2>3, Recursion
  <2> QED
    BY <2>1, <2>2, <2>4
<1>5. \A k \in 1 .. n : k - 1 \in 0 .. n /\ f[k - 1] \in S
  <2> HIDE DEF S, n, step
  <2>1. f \in [0 .. n -> S]
    BY <1>4 DEF Iterates
  <2>2. \A k \in 1 .. n : k - 1 \in 0 .. n
    BY <1>1
  <2> QED
    BY <2>1, <2>2
<1>6. \A k \in 1 .. n : f[k] = Next1(f[k - 1], k)
  <2> HIDE DEF S, Next1
  <2> QED
    BY <1>4, <1>5 DEF Iterates
<1>7. f \in [0 .. n -> S] /\ f[0] = known
  BY <1>4 DEF Iterates
<1>8. Adds(f)
  <2>1. \A k \in 0 .. n : k # 0 => k \in 1 .. n
    BY <1>1
  <2>2. \A k \in 0 .. n : f[k] = IF k = 0 THEN known
              ELSE IF Functions[fs[k]].intrinsic \/ fs[k] \in Range(f[k - 1]) THEN f[k - 1]
              ELSE Append(f[k - 1], fs[k])
    BY <1>6, <1>7, <2>1
  <2> QED
    BY <1>7, <2>2
<1>9. Adds(added)
  BY <1>8
<1>10. AddApis(known, fs) = added[n]
  BY DEF AddApis
<1> HIDE DEF added
<1> DEFINE wrong == {k \in 0 .. n : added[k] \notin S}
<1>11. ASSUME wrong # {} PROVE FALSE
  <2>1. PICK k \in wrong : \A j \in wrong : k <= j
    <3>1. wrong \subseteq Nat
      BY <1>1
    <3> HIDE DEF wrong
    <3> QED
      BY <1>11, <3>1, Smallest
  <2>2. k \in 0 .. n /\ added[k] \notin S
    OBVIOUS
  <2>3. k # 0
    BY <1>1, <1>9, <2>2
  <2>4. k \in 1 .. n /\ k - 1 \in 0 .. n /\ ~(k <= k - 1)
    BY <1>1, <2>2, <2>3
  <2>5. k - 1 \notin wrong
    <3> HIDE DEF wrong
    <3> QED
      BY <2>1, <2>4
  <2>6. added[k - 1] \in S
    BY <2>4, <2>5
  <2>7. added[k] = Next1(added[k - 1], k)
    BY <1>9, <2>2, <2>3
  <2> QED
    BY <1>2, <2>2, <2>4, <2>6, <2>7
<1>12. n \in 0 .. n
  BY <1>1
<1>13. n \notin wrong
  <2> HIDE DEF wrong
  <2> QED
    BY <1>11
<1> QED
  BY <1>10, <1>12, <1>13

-----------------------------------------------------------------------------
(* The symbol table and Freeze. *)

(* What the list of Freeze holds: types to be added, APIs to be created and
   signatures whose candidates are to be added. *)
TypeItems == [op : {"type"}, of : DOMAIN Types]
PlainItems == TypeItems \cup [op : {"api"}, of : DOMAIN Functions]
Items == PlainItems \cup [op : {"candidates"}, of : DOMAIN Types]

(* Every recognised type of ts is stored or on the list. *)
Due(ts, st, td) == \A u \in Recognised(ts) : u \in st \/ AddType(u) \in Range(td)

(* The signatures whose candidates are still to be added. *)
Pending(td) == {s \in DOMAIN Types : AddCandidates(s) \in Range(td)}

(* The callback functions the store has to list for a signature, and that it does. *)
ToList(s) == IF groups[s] = <<>> THEN <<s>> ELSE groups[s]
Answered(s) ==
  /\ DOMAIN candidates[s] = DOMAIN ToList(s)
  /\ \A k \in DOMAIN ToList(s) : /\ candidates[s][k] + 1 \in DOMAIN callbacks
                                 /\ callbacks[candidates[s][k] + 1] = ToList(s)[k]

(* The types of the variables. *)
TableTypes ==
  /\ module \in Seq(DOMAIN Functions) /\ populated \in 0 .. Len(module)
  /\ apis \in Seq(DOMAIN Functions)
  /\ ctors \in [DOMAIN Types -> Seq(DOMAIN Functions)]
  /\ groups \in [DOMAIN Types -> Seq(DOMAIN Functions)]
  /\ todo \in Seq(Items)
  /\ stored \subseteq DOMAIN Types
  /\ signatureIds \in Seq(DOMAIN Types)
  /\ callbacks \in Seq(DOMAIN Types \cup DOMAIN Functions)

(* Before Freeze the store is empty. *)
Untouched == todo = <<>> /\ stored = {} /\ signatureIds = <<>> /\ DOMAIN candidates = {} /\ storeApis = <<>>

(* The functions seen so far are grouped by their signatures. *)
Grouped ==
  \A s \in DOMAIN Types :
    Range(groups[s]) = {f \in {module[k] : k \in 1 .. populated} :
                          Signature(f) = s /\ ~Functions[f].intrinsic}

(* The inductive invariant of the symbol table: each type that an API or a stored
   type needs is stored or on the list, and a signature has an ID exactly when its
   candidates are there or are on the list to be added. *)
TableInv ==
  /\ TableTypes
  /\ populated < Len(module) => Untouched
  /\ Grouped
  /\ IsInjective(signatureIds)
  /\ Range(signatureIds) = {t \in stored : Kind(t) = "function"}
  /\ DOMAIN candidates \cup Pending(todo) = Range(signatureIds)
  /\ \A s \in DOMAIN candidates : Answered(s)
  /\ storeApis # <<>> \/ todo # <<>> =>
       \A f \in Range(apis) : Due(Range(Parts(Signature(f))), stored, todo)
  /\ \A t \in stored : Due(Needs(t), stored, todo)

(* A list of types to add names each of them. *)
LEMMA TypesToAdd ==
  ASSUME NEW ts \in Seq(DOMAIN Types)
  PROVE  /\ AddTypes(ts) \in Seq(TypeItems)
         /\ \A u \in Range(ts) : AddType(u) \in Range(AddTypes(ts))
<1>1. /\ Len(ts) \in Nat /\ DOMAIN ts = 1 .. Len(ts)
      /\ \A k \in 1 .. Len(ts) : AddType(ts[k]) \in TypeItems
  BY DEF AddType, TypeItems
<1>2. AddTypes(ts) \in Seq(TypeItems) /\ DOMAIN AddTypes(ts) = 1 .. Len(ts)
      /\ \A k \in 1 .. Len(ts) : AddTypes(ts)[k] = AddType(ts[k])
  BY <1>1 DEF AddTypes
<1> QED
  BY <1>1, <1>2 DEF Range

(* The signature of a function is a function type with a return type. *)
LEMMA SignatureParts ==
  ASSUME NEW f \in DOMAIN Functions
  PROVE  /\ Signature(f) \in DOMAIN Types /\ Kind(Signature(f)) = "function"
         /\ Parts(Signature(f)) \in Seq(DOMAIN Types) /\ Parts(Signature(f)) # <<>>
  BY ProgramAssumption DEF Signature, Kind, Parts

(* What is put on the list for a function names every type of its signature. *)
LEMMA FunctionTypesAdded ==
  ASSUME NEW f \in DOMAIN Functions
  PROVE  /\ FunctionTypes(f) \in Seq(TypeItems)
         /\ \A u \in Range(Parts(Signature(f))) : AddType(u) \in Range(FunctionTypes(f))
<1>1. PICK p \in Seq(DOMAIN Types) : p = Parts(Signature(f)) /\ p # <<>>
  BY SignatureParts
<1> DEFINE a == Tail(p)
           b == <<Head(p)>>
           ts == a \o b
<1>2. /\ a \in Seq(DOMAIN Types) /\ b \in Seq(DOMAIN Types) /\ ts \in Seq(DOMAIN Types)
      /\ Len(p) \in Nat \ {0} /\ DOMAIN p = 1 .. Len(p) /\ Len(a) = Len(p) - 1 /\ DOMAIN a = 1 .. Len(p) - 1
      /\ \A k \in 1 .. Len(p) - 1 : a[k] = p[k + 1]
      /\ b[1] = p[1] /\ DOMAIN b = {1}
  BY <1>1
<1>3. Range(a) \subseteq Range(ts) /\ Range(b) \subseteq Range(ts)
  <2> HIDE DEF a, b
  <2> QED
    BY <1>2, JoinedRange
<1> HIDE DEF a, b, ts
<1>4. Range(p) \subseteq Range(ts)
  <2> SUFFICES ASSUME NEW k \in 1 .. Len(p) PROVE p[k] \in Range(ts)
    BY <1>2 DEF Range
  <2>1. CASE k = 1
    BY <1>2, <1>3, <2>1 DEF Range
  <2>2. CASE k # 1
    <3>1. k - 1 \in 1 .. Len(p) - 1 /\ (k - 1) + 1 = k
      BY <1>2, <2>2
    <3> QED
      BY <1>2, <1>3, <3>1 DEF Range
  <2> QED
    BY <2>1, <2>2
<1>5. FunctionTypes(f) = AddTypes(ts)
  BY <1>1 DEF FunctionTypes, ts, a, b, ParamTypes, RetType
<1> QED
  BY <1>1, <1>2, <1>4, <1>5, TypesToAdd

(* What is taken off the list is done, and what comes in front of it is on it. *)
LEMMA TodoGoesOn ==
  ASSUME NEW td \in Seq(Items), td # <<>>, NEW front \in Seq(Items), NEW td2, td2 = front \o Tail(td)
  PROVE  /\ td2 \in Seq(Items)
         /\ Range(td2) = Range(front) \cup Range(Tail(td))
         /\ Range(td) = {Head(td)} \cup Range(Tail(td))
         /\ Head(td) \in Items
<1>1. Tail(td) \in Seq(Items) /\ Head(td) \in Items
  OBVIOUS
<1>2. PICK rest \in Seq(Items) : rest = Tail(td)
  BY <1>1
<1>3. /\ td2 \in Seq(Items) /\ Range(td2) = Range(front) \cup Range(rest)
  BY <1>2, JoinedRange
<1>4. Range(td) = {Head(td)} \cup Range(rest)
  <2>1. /\ Len(td) \in Nat \ {0} /\ DOMAIN td = 1 .. Len(td) /\ td[1] = Head(td)
        /\ DOMAIN rest = 1 .. Len(td) - 1 /\ \A k \in 1 .. Len(td) - 1 : rest[k] = td[k + 1]
    BY <1>2
  <2>2. \A k \in 1 .. Len(td) : k = 1 \/ (k - 1 \in 1 .. Len(td) - 1 /\ rest[k - 1] = td[k])
    BY <2>1
  <2>3. \A k \in 1 .. Len(td) - 1 : k + 1 \in 1 .. Len(td) /\ rest[k] = td[k + 1]
    BY <2>1
  <2>4. ASSUME NEW x \in Range(td) PROVE x \in {Head(td)} \cup Range(rest)
    <3>1. PICK k \in 1 .. Len(td) : x = td[k]
      BY <2>1, <2>4 DEF Range
    <3> QED
      BY <2>1, <2>2, <3>1 DEF Range
  <2>5. ASSUME NEW x \in Range(rest) PROVE x \in Range(td)
    <3>1. PICK k \in 1 .. Len(td) - 1 : x = rest[k]
      BY <2>1, <2>5 DEF Range
    <3> QED
      BY <2>1, <2>3, <3>1 DEF Range
  <2>6. Head(td) \in Range(td)
    BY <2>1 DEF Range
  <2> QED
    BY <2>4, <2>5, <2>6
<1> QED
  BY <1>1, <1>2, <1>3, <1>4

(* A type that is stored or on the list is so after the first item was taken off,
   if that item was of a type that is stored now or is never stored. *)
LEMMA DueStays ==
  ASSUME NEW td \in Seq(Items), td # <<>>, NEW front \in Seq(Items), NEW td2, td2 = front \o Tail(td),
         NEW st, NEW st2, st \subseteq st2,
         Head(td).op = "type" => Head(td).of \in st2 \/ Kind(Head(td).of) \in {"void", "vector", "other"},
         NEW ts, Due(ts, st, td)
  PROVE  Due(ts, st2, td2)
<1> SUFFICES ASSUME NEW u \in Recognised(ts), u \notin st2 PROVE AddType(u) \in Range(td2)
  BY DEF Due
<1>1. AddType(u) \in Range(td)
  BY DEF Due
<1>2. Range(td2) = Range(front) \cup Range(Tail(td)) /\ Range(td) = {Head(td)} \cup Range(Tail(td))
  BY TodoGoesOn
<1>3. AddType(u) # Head(td)
  <2> SUFFICES ASSUME AddType(u) = Head(td) PROVE FALSE
    OBVIOUS
  <2>1. Head(td).op = "type" /\ Head(td).of = u
    BY DEF AddType
  <2> QED
    BY <2>1 DEF Recognised
<1> QED
  BY <1>1, <1>2, <1>3

(* An action of Freeze takes the first item, defines some types and puts new items in front. *)
Continuing(front) ==
  /\ todo # <<>> /\ todo' = front \o Tail(todo)
  /\ front \in Seq(Items)
  /\ UNCHANGED <<module, populated, tableVars>>
  /\ stored \subseteq stored' /\ stored' \subseteq DOMAIN Types
  /\ Head(todo).op = "type" =>
       Head(todo).of \in stored' \/ Kind(Head(todo).of) \in {"void", "vector", "other"}
  /\ \A t \in stored' \ stored : Due(Needs(t), stored', todo')

(* Such an action keeps what is due, and leaves what populateSymbolTable found. *)
LEMMA FreezeGoesOn ==
  ASSUME TableInv, NEW front, Continuing(front)
  PROVE  /\ todo' \in Seq(Items)
         /\ populated = Len(module) /\ UNCHANGED <<module, populated, apis, ctors, groups>>
         /\ Grouped'
         /\ \A f \in Range(apis') : Due(Range(Parts(Signature(f))), stored', todo')
         /\ \A t \in stored' : Due(Needs(t)', stored', todo')
         /\ Range(todo') = Range(front) \cup Range(Tail(todo))
         /\ Range(todo) = {Head(todo)} \cup Range(Tail(todo))
         /\ Head(todo) \in Items
<1>1. TableTypes /\ todo \in Seq(Items) /\ todo # <<>> /\ front \in Seq(Items)
  BY DEF TableInv, TableTypes, Continuing
<1>2. populated = Len(module) /\ UNCHANGED <<module, populated, apis, ctors, groups>>
  BY <1>1 DEF TableInv, TableTypes, Untouched, Continuing, tableVars
<1>3. /\ todo' \in Seq(Items) /\ Range(todo') = Range(front) \cup Range(Tail(todo))
      /\ Range(todo) = {Head(todo)} \cup Range(Tail(todo)) /\ Head(todo) \in Items
  BY <1>1, TodoGoesOn DEF Continuing
<1>4. Grouped'
  BY <1>2 DEF TableInv, Grouped
<1>5. ASSUME NEW ts, Due(ts, stored, todo) PROVE Due(ts, stored', todo')
  BY <1>1, <1>5, DueStays DEF Continuing
<1>6. \A f \in Range(apis) : Due(Range(Parts(Signature(f))), stored', todo')
  BY <1>1, <1>5 DEF TableInv
<1>7. \A t : Needs(t)' = Needs(t)
  BY <1>2 DEF Needs, GetConstructors
<1>8. \A t \in stored' : Due(Needs(t), stored', todo')
  BY <1>5 DEF TableInv, Continuing
<1> QED
  BY <1>2, <1>3, <1>4, <1>6, <1>7, <1>8

(* What each of the actions keeps; what a step does to candidates and IDs differs. *)
LEMMA TableKept ==
  ASSUME TableInv, NEW front, Continuing(front),
         signatureIds' \in Seq(DOMAIN Types), callbacks' \in Seq(DOMAIN Types \cup DOMAIN Functions),
         IsInjective(signatureIds'), Range(signatureIds') = {t \in stored' : Kind(t) = "function"},
         (DOMAIN candidates \cup Pending(todo))' = Range(signatureIds'),
         (\A s \in DOMAIN candidates : Answered(s))'
  PROVE  TableInv'
<1>1. TableTypes'
  BY FreezeGoesOn DEF TableInv, TableTypes, Continuing
<1> QED
  BY <1>1, FreezeGoesOn DEF TableInv

(* The first item of the list is a type, an API or a signature. *)
LEMMA Heads ==
  ASSUME NEW h \in Items
  PROVE  /\ h.op \in {"type", "api", "candidates"}
         /\ h.op \in {"type", "candidates"} => h.of \in DOMAIN Types
         /\ h.op = "api" => h.of \in DOMAIN Functions
  BY DEF Items, PlainItems, TypeItems

(* A list of types and APIs is a list of items. *)
LEMMA PlainSequences ==
  ASSUME NEW s
  PROVE  /\ s \in Seq(TypeItems) => s \in Seq(PlainItems)
         /\ s \in Seq(PlainItems) => s \in Seq(Items)
<1>1. TypeItems \subseteq PlainItems /\ PlainItems \subseteq Items
  BY DEF Items, PlainItems
<1>2. ASSUME NEW A, NEW B, A \subseteq B, s \in Seq(A) PROVE s \in Seq(B)
  BY <1>2
<1> QED
  BY <1>1, <1>2

(* No candidates are to be added by a list of types and APIs. *)
LEMMA NoneInFront ==
  ASSUME NEW front \in Seq(PlainItems), NEW s
  PROVE  AddCandidates(s) \notin Range(front)
<1>1. \A k \in DOMAIN front : front[k].op # "candidates"
  <2> SUFFICES ASSUME NEW k \in DOMAIN front PROVE front[k].op # "candidates"
    OBVIOUS
  <2>1. front[k] \in PlainItems
    OBVIOUS
  <2> QED
    BY <2>1 DEF PlainItems, TypeItems
<1> QED
  BY <1>1 DEF Range, AddCandidates

(* The candidates still to be added are the same after an action that puts types
   and APIs in front. *)
LEMMA SamePending ==
  ASSUME TableInv, NEW front \in Seq(PlainItems), Continuing(front), Head(todo).op # "candidates"
  PROVE  Pending(todo') = Pending(todo)
<1>1. /\ Range(todo') = Range(front) \cup Range(Tail(todo))
      /\ Range(todo) = {Head(todo)} \cup Range(Tail(todo))
  BY FreezeGoesOn
<1>2. \A s : AddCandidates(s) \notin Range(front) /\ AddCandidates(s) # Head(todo)
  <2> TAKE s
  <2>1. AddCandidates(s) \notin Range(front)
    BY NoneInFront
  <2>2. AddCandidates(s).op = "candidates"
    BY DEF AddCandidates
  <2> QED
    BY <2>1, <2>2
<1> QED
  BY <1>1, <1>2 DEF Pending

(* Candidates and callback functions that do not change stay right. *)
LEMMA SameAnswers ==
  ASSUME TableInv, UNCHANGED <<candidates, callbacks, groups>>
  PROVE  (\A s \in DOMAIN candidates : Answered(s))'
  BY DEF TableInv, Answered, ToList

(* AddLLVMTypeToStore of a type that leads to its parts only. *)
LEMMA PlainTypeAdded == TableInv /\ AddPlainType => TableInv'
<1> SUFFICES ASSUME TableInv, AddPlainType PROVE TableInv'
  OBVIOUS
<1> DEFINE t == Current
           front == IF Kind(t) \in {"pointer", "array"} THEN AddTypes(Parts(t)) ELSE <<>>
<1>1. TableTypes /\ todo # <<>> /\ Head(todo).op = "type" /\ todo' = front \o Tail(todo)
      /\ UNCHANGED <<module, populated, tableVars, signatureIds, candidates, callbacks, storeApis>>
  BY DEF TableInv, AddPlainType, ToDo
<1>2. Head(todo) \in Items /\ t \in DOMAIN Types /\ t = Head(todo).of
  <2>1. Head(todo) \in Items
    BY <1>1 DEF TableTypes
  <2> QED
    BY <1>1, <2>1, Heads DEF Current
<1>3. Parts(t) \in Seq(DOMAIN Types) /\ Kind(t) \in Kinds
  BY <1>2, ProgramAssumption DEF Parts, Kind
<1>4. front \in Seq(TypeItems)
  BY <1>3, TypesToAdd
<1>5. front \in Seq(PlainItems) /\ front \in Seq(Items)
  BY <1>4, PlainSequences
<1>6. /\ Kind(t) \in {"void", "bits", "pointer", "array", "vector", "other"}
      /\ stored' = IF Kind(t) \in {"bits", "pointer", "array"} THEN stored \cup {t} ELSE stored
  BY DEF AddPlainType
<1> HIDE DEF front, t
<1>7. Range(front) \subseteq Range(todo')
  <2>1. todo \in Seq(Items) /\ todo # <<>>
    BY <1>1 DEF TableTypes
  <2>2. Range(todo') = Range(front) \cup Range(Tail(todo))
    BY <1>1, <1>5, <2>1, TodoGoesOn
  <2> QED
    BY <2>2
<1>8. Due(Needs(t), stored', todo')
  <2>1. CASE Kind(t) \in {"pointer", "array"}
    <3>1. Needs(t) = Range(Parts(t)) /\ front = AddTypes(Parts(t))
      <4>1. Needs(t) = Range(Parts(t))
        BY <2>1 DEF Needs, Named
      <4>2. front = AddTypes(Parts(t))
        BY <2>1 DEF front
      <4> QED
        BY <4>1, <4>2
    <3>2. \A u \in Range(Parts(t)) : AddType(u) \in Range(todo')
      BY <1>3, <1>7, <3>1, TypesToAdd
    <3> QED
      BY <3>1, <3>2 DEF Due, Recognised
  <2>2. CASE Kind(t) \notin {"pointer", "array"}
    <3>1. Kind(t) \notin {"pointer", "array", "function"} /\ ~Named(t)
      BY <1>6, <2>2 DEF Named
    <3>2. Needs(t) = {}
      BY <3>1 DEF Needs
    <3> QED
      BY <3>2 DEF Due, Recognised
  <2> QED
    BY <2>1, <2>2
<1>9. Continuing(front)
  <2>1. stored \subseteq stored' /\ stored' \subseteq DOMAIN Types /\ stored' \ stored \subseteq {t}
    BY <1>1, <1>2, <1>6 DEF TableTypes
  <2>2. t \in stored' \/ Kind(t) \in {"void", "vector", "other"}
    BY <1>6
  <2> QED
    BY <1>1, <1>2, <1>5, <1>8, <2>1, <2>2 DEF Continuing
<1>10. Pending(todo') = Pending(todo)
  BY <1>1, <1>5, <1>9, SamePending
<1>11. {x \in stored' : Kind(x) = "function"} = {x \in stored : Kind(x) = "function"}
  BY <1>6
<1>12. (\A s \in DOMAIN candidates : Answered(s))'
  BY <1>1, SameAnswers DEF tableVars
<1>13. (DOMAIN candidates \cup Pending(todo))' = Range(signatureIds')
  BY <1>1, <1>10 DEF TableInv
<1>14. /\ signatureIds' \in Seq(DOMAIN Types) /\ callbacks' \in Seq(DOMAIN Types \cup DOMAIN Functions)
       /\ IsInjective(signatureIds') /\ Range(signatureIds') = {x \in stored' : Kind(x) = "function"}
  BY <1>1, <1>11 DEF TableInv, TableTypes
<1> QED
  BY <1>9, <1>12, <1>13, <1>14, TableKept

(* AddLLVMTypeToStore of a struct, which brings the types of its constructors. *)
LEMMA StructTypeAdded == TableInv /\ AddStructType => TableInv'
<1> SUFFICES ASSUME TableInv, AddStructType PROVE TableInv'
  OBVIOUS
<1> DEFINE t == Current
           cs == [k \in 1 .. Len(ctors[t]) |-> FunctionTypes(ctors[t][k])]
           front == IF Named(t) /\ t \notin stored THEN FlattenSeq(cs) ELSE <<>>
<1>1. TableTypes /\ todo # <<>> /\ Head(todo).op = "type" /\ todo' = front \o Tail(todo)
      /\ UNCHANGED <<module, populated, tableVars, signatureIds, candidates, callbacks, storeApis>>
  BY DEF TableInv, AddStructType, ToDo, GetConstructors
<1>2. Head(todo) \in Items /\ t \in DOMAIN Types /\ t = Head(todo).of
  <2>1. Head(todo) \in Items
    BY <1>1 DEF TableTypes
  <2> QED
    BY <1>1, <2>1, Heads DEF Current
<1>3. Kind(t) \in {"struct", "literal", "opaque"} /\ stored' = stored \cup {t}
  BY DEF AddStructType, IsStruct
<1>4. ctors[t] \in Seq(DOMAIN Functions)
  BY <1>1, <1>2 DEF TableTypes
<1> HIDE DEF t
<1>5. /\ cs \in Seq(Seq(TypeItems)) /\ Len(cs) = Len(ctors[t])
      /\ \A k \in 1 .. Len(ctors[t]) : ctors[t][k] \in DOMAIN Functions /\ cs[k] = FunctionTypes(ctors[t][k])
  <2>1. /\ Len(ctors[t]) \in Nat
        /\ \A k \in 1 .. Len(ctors[t]) : ctors[t][k] \in DOMAIN Functions
    BY <1>4
  <2>2. \A k \in 1 .. Len(ctors[t]) : FunctionTypes(ctors[t][k]) \in Seq(TypeItems)
    BY <2>1, FunctionTypesAdded
  <2> QED
    BY <2>1, <2>2
<1> HIDE DEF cs
<1>6. /\ FlattenSeq(cs) \in Seq(TypeItems)
      /\ \A k \in 1 .. Len(cs) : Range(cs[k]) \subseteq Range(FlattenSeq(cs))
  BY <1>5, Flattened
<1>7. front \in Seq(PlainItems) /\ front \in Seq(Items)
  <2>1. front \in Seq(TypeItems)
    BY <1>6
  <2> QED
    BY <2>1, PlainSequences
<1>8. Named(t) /\ t \notin stored => front = FlattenSeq(cs)
  OBVIOUS
<1> HIDE DEF front
<1>9. Range(front) \subseteq Range(todo')
  <2>1. todo \in Seq(Items) /\ todo # <<>>
    BY <1>1 DEF TableTypes
  <2>2. Range(todo') = Range(front) \cup Range(Tail(todo))
    BY <1>1, <1>7, <2>1, TodoGoesOn
  <2> QED
    BY <2>2
<1>10. t \notin stored => Due(Needs(t), stored', todo')
  <2>1. CASE Named(t) /\ t \notin stored
    <3>1. Needs(t) = UNION {Range(Parts(Signature(c))) : c \in Range(ctors[t])}
      BY <1>3, <2>1 DEF Needs, GetConstructors
    <3>2. \A k \in 1 .. Len(cs) : \A u \in Range(Parts(Signature(ctors[t][k]))) :
             AddType(u) \in Range(todo')
      BY <1>5, <1>6, <1>8, <1>9, <2>1, FunctionTypesAdded
    <3>3. \A c \in Range(ctors[t]) : \E k \in 1 .. Len(cs) : c = ctors[t][k]
      <4>1. PICK q \in Seq(DOMAIN Functions) : q = ctors[t]
        BY <1>4
      <4>2. DOMAIN q = 1 .. Len(cs)
        BY <1>5, <4>1
      <4> QED
        BY <4>1, <4>2 DEF Range
    <3> QED
      BY <3>1, <3>2, <3>3 DEF Due, Recognised
  <2>2. CASE ~Named(t)
    <3>1. Needs(t) = {}
      BY <1>3, <2>2 DEF Needs
    <3> QED
      BY <3>1 DEF Due, Recognised
  <2> QED
    BY <2>1, <2>2
<1>11. Continuing(front)
  <2>1. stored \subseteq stored' /\ stored' \subseteq DOMAIN Types /\ t \in stored'
        /\ \A x \in stored' \ stored : x = t /\ t \notin stored
    BY <1>1, <1>2, <1>3 DEF TableTypes
  <2> QED
    BY <1>1, <1>2, <1>7, <1>10, <2>1 DEF Continuing
<1>12. Pending(todo') = Pending(todo)
  BY <1>1, <1>7, <1>11, SamePending
<1>13. {x \in stored' : Kind(x) = "function"} = {x \in stored : Kind(x) = "function"}
  BY <1>3
<1>14. (\A s \in DOMAIN candidates : Answered(s))'
  BY <1>1, SameAnswers DEF tableVars
<1>15. (DOMAIN candidates \cup Pending(todo))' = Range(signatureIds')
  BY <1>1, <1>12 DEF TableInv
<1>16. /\ signatureIds' \in Seq(DOMAIN Types) /\ callbacks' \in Seq(DOMAIN Types \cup DOMAIN Functions)
       /\ IsInjective(signatureIds') /\ Range(signatureIds') = {x \in stored' : Kind(x) = "function"}
  BY <1>1, <1>13 DEF TableInv, TableTypes
<1> QED
  BY <1>11, <1>14, <1>15, <1>16, TableKept

(* new gives the signatures of ids and x each one ID. *)
IdsAfter(ids, x, new, S) ==
  new \in Seq(S) /\ IsInjective(new) /\ Range(new) = Range(ids) \cup {x}

(* A signature without an ID is given the next one. *)
LEMMA AppendedId ==
  ASSUME NEW S, NEW ids \in Seq(S), NEW x \in S, x \notin Range(ids), IsInjective(ids),
         NEW new, new = Append(ids, x)
  PROVE  IdsAfter(ids, x, new, S)
<1>1. /\ new \in Seq(S) /\ Len(ids) \in Nat /\ DOMAIN ids = 1 .. Len(ids)
      /\ DOMAIN new = 1 .. Len(ids) + 1 /\ new[Len(ids) + 1] = x
      /\ \A k \in 1 .. Len(ids) : new[k] = ids[k]
  OBVIOUS
<1>2. \A k \in 1 .. Len(ids) : ids[k] # x
  BY <1>1 DEF Range
<1>3. \A k \in 1 .. Len(ids) + 1 : k \in 1 .. Len(ids) \/ k = Len(ids) + 1
  BY <1>1
<1>4. IsInjective(new)
  <2> SUFFICES ASSUME NEW j \in 1 .. Len(ids) + 1, NEW k \in 1 .. Len(ids) + 1, new[j] = new[k]
               PROVE  j = k
    BY <1>1 DEF IsInjective
  <2>1. CASE j \in 1 .. Len(ids) /\ k \in 1 .. Len(ids)
    BY <1>1, <2>1 DEF IsInjective
  <2>2. CASE j = Len(ids) + 1 \/ k = Len(ids) + 1
    BY <1>1, <1>2, <1>3, <2>2
  <2> QED
    BY <1>3, <2>1, <2>2
<1>5. Range(new) = Range(ids) \cup {x}
  <2>1. ASSUME NEW y \in Range(new) PROVE y \in Range(ids) \cup {x}
    <3>1. PICK k \in 1 .. Len(ids) + 1 : y = new[k]
      BY <1>1, <2>1 DEF Range
    <3> QED
      BY <1>1, <1>3, <3>1 DEF Range
  <2>2. ASSUME NEW y \in Range(ids) PROVE y \in Range(new)
    <3>1. PICK k \in 1 .. Len(ids) : y = ids[k]
      BY <1>1, <2>2 DEF Range
    <3>2. k \in 1 .. Len(ids) + 1
      BY <1>1
    <3> QED
      BY <1>1, <3>1, <3>2 DEF Range
  <2>3. x \in Range(new)
    <3>1. Len(ids) + 1 \in DOMAIN new
      BY <1>1
    <3> QED
      BY <1>1, <3>1 DEF Range
  <2> QED
    BY <2>1, <2>2, <2>3
<1> QED
  BY <1>1, <1>4, <1>5 DEF IdsAfter

(* AddLLVMTypeToStore of a function type, which gets its ID before its parts. *)
LEMMA FunctionTypeAdded == TableInv /\ AddFunctionType => TableInv'
<1> SUFFICES ASSUME TableInv, AddFunctionType PROVE TableInv'
  OBVIOUS
<1> DEFINE t == Current
<1>1. TableTypes /\ todo # <<>> /\ todo \in Seq(Items) /\ Head(todo).op = "type" /\ Kind(t) = "function"
      /\ UNCHANGED <<module, populated, tableVars, candidates, callbacks, storeApis>>
  BY DEF TableInv, TableTypes, AddFunctionType, ToDo
<1>2. Head(todo) \in Items /\ t \in DOMAIN Types /\ t = Head(todo).of
  <2>1. Head(todo) \in Items
    BY <1>1
  <2> QED
    BY <1>1, <2>1, Heads DEF Current
<1>3. (\A s \in DOMAIN candidates : Answered(s))'
  BY <1>1, SameAnswers DEF tableVars
<1>4. /\ Range(signatureIds) = {x \in stored : Kind(x) = "function"} /\ IsInjective(signatureIds)
      /\ DOMAIN candidates \cup Pending(todo) = Range(signatureIds)
      /\ signatureIds \in Seq(DOMAIN Types) /\ stored \subseteq DOMAIN Types
  BY DEF TableInv, TableTypes
<1>5. CASE t \in Range(signatureIds)
  <2>1. todo' = Tail(todo) /\ UNCHANGED <<stored, signatureIds>>
    BY <1>5 DEF AddFunctionType
  <2>2. PICK front : front = <<>>
    OBVIOUS
  <2>3. front \in Seq(PlainItems) /\ front \in Seq(Items) /\ todo' = front \o Tail(todo)
    BY <1>1, <2>1, <2>2
  <2>4. Continuing(front)
    <3>1. t \in stored
      BY <1>4, <1>5
    <3> HIDE DEF t
    <3> QED
      BY <1>1, <1>2, <1>4, <2>1, <2>3, <3>1 DEF Continuing
  <2>5. Pending(todo') = Pending(todo)
    BY <1>1, <2>3, <2>4, SamePending
  <2>6. (DOMAIN candidates \cup Pending(todo))' = Range(signatureIds')
    BY <1>1, <1>4, <2>1, <2>5
  <2>7. /\ signatureIds' \in Seq(DOMAIN Types) /\ callbacks' \in Seq(DOMAIN Types \cup DOMAIN Functions)
        /\ IsInjective(signatureIds') /\ Range(signatureIds') = {x \in stored' : Kind(x) = "function"}
    BY <1>1, <1>4, <2>1 DEF TableTypes
  <2> QED
    BY <1>3, <2>4, <2>6, <2>7, TableKept
<1>6. CASE t \notin Range(signatureIds)
  <2> DEFINE ts == AddTypes(Parts(t))
             own == <<AddCandidates(t)>>
             front == ts \o own
  <2>1. signatureIds' = Append(signatureIds, t) /\ stored' = stored \cup {t} /\ todo' = front \o Tail(todo)
    BY <1>6 DEF AddFunctionType
  <2> HIDE DEF t
  <2>2. Parts(t) \in Seq(DOMAIN Types)
    BY <1>2, ProgramAssumption DEF Parts
  <2>3. ts \in Seq(TypeItems) /\ \A u \in Range(Parts(t)) : AddType(u) \in Range(ts)
    BY <2>2, TypesToAdd
  <2>4. ts \in Seq(PlainItems) /\ ts \in Seq(Items)
    BY <2>3, PlainSequences
  <2>5. own \in Seq(Items) /\ Range(own) = {AddCandidates(t)}
    <3>1. AddCandidates(t) \in Items
      BY <1>2 DEF AddCandidates, Items
    <3>2. own \in Seq(Items) /\ DOMAIN own = {1} /\ own[1] = AddCandidates(t)
      BY <3>1
    <3> QED
      BY <3>2 DEF Range
  <2> HIDE DEF ts, own
  <2>6. front \in Seq(Items) /\ Range(front) = Range(ts) \cup Range(own)
    BY <2>4, <2>5, JoinedRange
  <2> HIDE DEF front
  <2>7. Range(todo') = Range(front) \cup Range(Tail(todo)) /\ Range(todo) = {Head(todo)} \cup Range(Tail(todo))
    BY <1>1, <2>1, <2>6, TodoGoesOn
  <2>8. Due(Needs(t), stored', todo')
    <3>1. Needs(t) = Range(Parts(t))
      BY <1>1 DEF Needs, Named
    <3> QED
      BY <2>3, <2>6, <2>7, <3>1 DEF Due, Recognised
  <2>9. Continuing(front)
    <3>1. stored \subseteq stored' /\ stored' \subseteq DOMAIN Types /\ t \in stored'
          /\ \A x \in stored' \ stored : x = t
      BY <1>2, <1>4, <2>1
    <3> QED
      BY <1>1, <1>2, <2>1, <2>6, <2>8, <3>1 DEF Continuing
  <2>10. Pending(todo') = Pending(todo) \cup {t}
    <3>1. \A s : AddCandidates(s) \notin Range(ts)
      BY <2>4, NoneInFront
    <3>2. \A s : AddCandidates(s) # Head(todo)
      BY <1>1 DEF AddCandidates
    <3>3. \A s : AddCandidates(s) = AddCandidates(t) <=> s = t
      <4>1. \A s : AddCandidates(s).of = s
        BY DEF AddCandidates
      <4> QED
        BY <4>1
    <3>4. \A s : AddCandidates(s) \in Range(todo') <=> AddCandidates(s) \in Range(todo) \/ s = t
      BY <2>5, <2>6, <2>7, <3>1, <3>2, <3>3
    <3> QED
      BY <1>2, <3>4 DEF Pending
  <2>11. /\ signatureIds' \in Seq(DOMAIN Types) /\ IsInjective(signatureIds')
         /\ Range(signatureIds') = Range(signatureIds) \cup {t}
    <3>1. PICK new : new = Append(signatureIds, t)
      OBVIOUS
    <3>2. PICK S : S = DOMAIN Types
      OBVIOUS
    <3>3. signatureIds \in Seq(S) /\ t \in S /\ t \notin Range(signatureIds) /\ IsInjective(signatureIds)
      BY <1>2, <1>4, <1>6, <3>2
    <3>4. IdsAfter(signatureIds, t, new, S)
      BY <3>1, <3>3, AppendedId
    <3> QED
      BY <2>1, <3>1, <3>2, <3>4 DEF IdsAfter
  <2>12. (DOMAIN candidates \cup Pending(todo))' = Range(signatureIds')
    BY <1>1, <1>4, <2>10, <2>11
  <2>13. Range(signatureIds') = {x \in stored' : Kind(x) = "function"}
    BY <1>1, <1>4, <2>1, <2>11
  <2>14. callbacks' \in Seq(DOMAIN Types \cup DOMAIN Functions)
    BY <1>1 DEF TableTypes
  <2> QED
    BY <1>3, <2>9, <2>11, <2>12, <2>13, <2>14, TableKept
<1> QED
  BY <1>5, <1>6

(* The callback functions of a signature are listed by their positions. *)
LEMMA CallbacksAdded == TableInv /\ AddCallbackFunctions => TableInv'
<1> SUFFICES ASSUME TableInv, AddCallbackFunctions PROVE TableInv'
  OBVIOUS
<1> DEFINE t == Current
           new == ToList(t)
           ids == [k \in 1 .. Len(new) |-> Len(callbacks) + k - 1]
<1>1. /\ TableTypes /\ todo # <<>> /\ todo \in Seq(Items) /\ Head(todo).op = "candidates"
      /\ todo' = Tail(todo)
      /\ UNCHANGED <<module, populated, tableVars, stored, signatureIds, storeApis>>
      /\ callbacks' = callbacks \o new /\ candidates' = [s \in DOMAIN candidates \cup {t} |-> IF s = t THEN ids ELSE candidates[s]]
  BY DEF TableInv, TableTypes, AddCallbackFunctions, ToDo, GetFunctions, ToList
<1>2. Head(todo) \in Items /\ t \in DOMAIN Types /\ t = Head(todo).of
  <2>1. Head(todo) \in Items
    BY <1>1
  <2> QED
    BY <1>1, <2>1, Heads DEF Current
<1> HIDE DEF t
<1>3. UNCHANGED <<module, populated, apis, ctors, groups, stored, signatureIds>>
  BY <1>1 DEF tableVars
<1>4. /\ Range(signatureIds) = {x \in stored : Kind(x) = "function"} /\ IsInjective(signatureIds)
      /\ DOMAIN candidates \cup Pending(todo) = Range(signatureIds)
      /\ signatureIds \in Seq(DOMAIN Types) /\ stored \subseteq DOMAIN Types
      /\ callbacks \in Seq(DOMAIN Types \cup DOMAIN Functions)
      /\ \A s \in DOMAIN candidates : Answered(s)
  BY DEF TableInv, TableTypes
<1>5. new \in Seq(DOMAIN Types \cup DOMAIN Functions)
  <2>1. groups[t] \in Seq(DOMAIN Functions)
    BY <1>1, <1>2 DEF TableTypes
  <2>2. groups[t] \in Seq(DOMAIN Types \cup DOMAIN Functions)
    BY <2>1
  <2>3. <<t>> \in Seq(DOMAIN Types \cup DOMAIN Functions)
    BY <1>2
  <2> QED
    BY <2>2, <2>3 DEF ToList
<1> HIDE DEF new
<1>6. PICK front : front = <<>>
  OBVIOUS
<1>7. front \in Seq(Items) /\ todo' = front \o Tail(todo) /\ Range(front) = {}
  <2>1. DOMAIN <<>> = {}
    OBVIOUS
  <2> QED
    BY <1>1, <1>6, <2>1 DEF Range
<1>8. Continuing(front)
  BY <1>1, <1>3, <1>4, <1>7 DEF Continuing
<1>9. Pending(todo) = Pending(todo') \cup {t}
  <2>1. Range(todo') = Range(Tail(todo)) /\ Range(todo) = {Head(todo)} \cup Range(Tail(todo))
    <3>1. Range(todo') = Range(front) \cup Range(Tail(todo))
          /\ Range(todo) = {Head(todo)} \cup Range(Tail(todo))
      BY <1>8, FreezeGoesOn
    <3> QED
      BY <1>7, <3>1
  <2>2. AddCandidates(t) = Head(todo)
    <3>1. PICK h \in Items : h = Head(todo)
      BY <1>2
    <3>2. h.op = "candidates" /\ h.of = t
      BY <1>1, <1>2, <3>1
    <3>3. h = [op |-> "candidates", of |-> t]
      BY <3>2 DEF Items, PlainItems, TypeItems
    <3> QED
      BY <3>1, <3>3 DEF AddCandidates
  <2>3. \A s : AddCandidates(s) = AddCandidates(t) <=> s = t
    <3>1. \A s : AddCandidates(s).of = s
      BY DEF AddCandidates
    <3> QED
      BY <3>1
  <2>4. \A s : AddCandidates(s) \in Range(todo) <=> s = t \/ AddCandidates(s) \in Range(todo')
    BY <2>1, <2>2, <2>3
  <2> QED
    BY <1>2, <2>4 DEF Pending
<1>10. /\ DOMAIN candidates' = DOMAIN candidates \cup {t}
       /\ \A s \in DOMAIN candidates : s # t => candidates'[s] = candidates[s]
       /\ candidates'[t] = ids
  <2> HIDE DEF ids
  <2> QED
    BY <1>1
<1>11. (DOMAIN candidates \cup Pending(todo))' = Range(signatureIds')
  BY <1>3, <1>4, <1>9, <1>10
<1>12. /\ callbacks' \in Seq(DOMAIN Types \cup DOMAIN Functions)
       /\ Len(callbacks) \in Nat /\ Len(new) \in Nat /\ DOMAIN new = 1 .. Len(new)
       /\ DOMAIN callbacks = 1 .. Len(callbacks) /\ DOMAIN callbacks' = 1 .. Len(callbacks) + Len(new)
       /\ \A k \in 1 .. Len(callbacks) : callbacks'[k] = callbacks[k]
       /\ \A k \in 1 .. Len(new) : callbacks'[Len(callbacks) + k] = new[k]
  BY <1>1, <1>4, <1>5
<1>13. \A s : ToList(s)' = ToList(s)
  BY <1>3 DEF ToList
<1>14. (\A s \in DOMAIN candidates : Answered(s))'
  <2> SUFFICES ASSUME NEW s \in DOMAIN candidates' PROVE Answered(s)'
    OBVIOUS
  <2>1. CASE s # t
    <3>1. \A k \in DOMAIN callbacks : k \in DOMAIN callbacks' /\ callbacks'[k] = callbacks[k]
      BY <1>12
    <3> QED
      BY <1>4, <1>10, <1>13, <2>1, <3>1 DEF Answered
  <2>2. CASE s = t
    <3>1. s = t /\ candidates'[s] = ids
      BY <1>10, <2>2
    <3>2. DOMAIN ids = 1 .. Len(new) /\ \A k \in 1 .. Len(new) : ids[k] + 1 = Len(callbacks) + k
      BY <1>12
    <3>3. \A k \in 1 .. Len(new) : Len(callbacks) + k \in DOMAIN callbacks'
      BY <1>12
    <3>4. ToList(s)' = new
      BY <1>13, <3>1 DEF new
    <3> HIDE DEF ids
    <3> QED
      BY <1>12, <3>1, <3>2, <3>3, <3>4 DEF Answered
  <2> QED
    BY <2>1, <2>2
<1> QED
  BY <1>3, <1>4, <1>8, <1>11, <1>12, <1>14, TableKept

(* An API is created after the types of its signature. *)
LEMMA ApiAdded == TableInv /\ AddApiToStore => TableInv'
<1> SUFFICES ASSUME TableInv, AddApiToStore PROVE TableInv'
  OBVIOUS
<1>1. /\ TableTypes /\ todo # <<>> /\ todo \in Seq(Items) /\ Head(todo).op = "api"
      /\ todo' = Tail(todo)
      /\ UNCHANGED <<module, populated, tableVars, stored, signatureIds, candidates, callbacks>>
  BY DEF TableInv, TableTypes, AddApiToStore, ToDo
<1>2. PICK front : front = <<>>
  OBVIOUS
<1>3. front \in Seq(Items) /\ front \in Seq(PlainItems) /\ todo' = front \o Tail(todo)
  BY <1>1, <1>2
<1>4. Continuing(front)
  BY <1>1, <1>3 DEF Continuing, TableTypes
<1>5. Pending(todo') = Pending(todo)
  BY <1>1, <1>3, <1>4, SamePending
<1>6. (\A s \in DOMAIN candidates : Answered(s))'
  BY <1>1, SameAnswers DEF tableVars
<1>7. (DOMAIN candidates \cup Pending(todo))' = Range(signatureIds')
  BY <1>1, <1>5 DEF TableInv
<1>8. /\ signatureIds' \in Seq(DOMAIN Types) /\ callbacks' \in Seq(DOMAIN Types \cup DOMAIN Functions)
      /\ IsInjective(signatureIds') /\ Range(signatureIds') = {x \in stored' : Kind(x) = "function"}
  BY <1>1 DEF TableInv, TableTypes
<1> QED
  BY <1>4, <1>6, <1>7, <1>8, TableKept

(* Freeze begins with the types of every API on the list. *)
LEMMA FreezeBegun == TableInv /\ BeginFreeze => TableInv'
<1> SUFFICES ASSUME TableInv, BeginFreeze PROVE TableInv'
  OBVIOUS
<1> DEFINE own(k) == FunctionTypes(apis[k]) \o <<CreateApi(apis[k])>>
           cs == [k \in 1 .. Len(apis) |-> own(k)]
<1>1. /\ todo = <<>> /\ todo' = FlattenSeq(cs) /\ populated = Len(module)
      /\ UNCHANGED <<module, populated, apis, ctors, groups, stored, signatureIds, candidates,
                     callbacks, storeApis>>
  BY DEF BeginFreeze, tableVars, storeVars
<1>2. TableTypes /\ apis \in Seq(DOMAIN Functions)
  BY DEF TableInv, TableTypes
<1>3. ASSUME NEW k \in 1 .. Len(apis)
      PROVE  /\ own(k) \in Seq(PlainItems)
             /\ \A u \in Range(Parts(Signature(apis[k]))) : AddType(u) \in Range(own(k))
  <2>1. PICK f \in DOMAIN Functions : f = apis[k]
    BY <1>2
  <2>2. PICK a \in Seq(PlainItems) : a = FunctionTypes(f)
    BY FunctionTypesAdded, PlainSequences
  <2>3. PICK b \in Seq(PlainItems) : b = <<CreateApi(f)>>
    <3>1. PICK i \in PlainItems : i = CreateApi(f)
      BY DEF CreateApi, PlainItems
    <3>2. <<i>> \in Seq(PlainItems)
      OBVIOUS
    <3> QED
      BY <3>1, <3>2
  <2>4. PICK c : c = a \o b
    OBVIOUS
  <2>5. c \in Seq(PlainItems) /\ Range(a) \subseteq Range(c)
    BY <2>4, JoinedRange
  <2>6. own(k) = c
    BY <2>1, <2>2, <2>3, <2>4
  <2>7. \A u \in Range(Parts(Signature(f))) : AddType(u) \in Range(a)
    BY <2>2, FunctionTypesAdded
  <2> HIDE DEF own
  <2> QED
    BY <2>1, <2>5, <2>6, <2>7
<1> HIDE DEF own
<1>4. cs \in Seq(Seq(PlainItems)) /\ Len(cs) = Len(apis) /\ \A k \in 1 .. Len(apis) : cs[k] = own(k)
  <2>1. Len(apis) \in Nat
    BY <1>2
  <2> QED
    BY <1>3, <2>1
<1> HIDE DEF cs
<1>5. /\ FlattenSeq(cs) \in Seq(PlainItems)
      /\ \A k \in 1 .. Len(cs) : Range(cs[k]) \subseteq Range(FlattenSeq(cs))
  BY <1>4, Flattened
<1>6. todo' \in Seq(PlainItems) /\ todo' \in Seq(Items)
  BY <1>1, <1>5, PlainSequences
<1>7. Range(todo) = {}
  <2>1. DOMAIN <<>> = {}
    OBVIOUS
  <2> QED
    BY <1>1, <2>1 DEF Range
<1>8. Pending(todo) = {} /\ Pending(todo') = {}
  BY <1>6, <1>7, NoneInFront DEF Pending
<1>9. \A ts : Due(ts, stored, todo) => Due(ts, stored', todo')
  BY <1>1, <1>7 DEF Due
<1>10. \A f \in Range(apis) : Due(Range(Parts(Signature(f))), stored', todo')
  <2> TAKE f \in Range(apis)
  <2>1. PICK k \in 1 .. Len(apis) : f = apis[k]
    BY <1>2 DEF Range
  <2>2. \A u \in Range(Parts(Signature(f))) : AddType(u) \in Range(todo')
    BY <1>1, <1>3, <1>4, <1>5, <2>1
  <2> QED
    BY <2>2 DEF Due, Recognised
<1>11. \A t : Needs(t)' = Needs(t)
  BY <1>1 DEF Needs, GetConstructors
<1>12. \A t \in stored' : Due(Needs(t)', stored', todo')
  BY <1>1, <1>9, <1>11 DEF TableInv
<1>13. (\A s \in DOMAIN candidates : Answered(s))'
  BY <1>1, SameAnswers
<1>14. TableTypes'
  BY <1>1, <1>2, <1>6 DEF TableTypes
<1>15. Grouped'
  BY <1>1 DEF TableInv, Grouped
<1>16. (DOMAIN candidates \cup Pending(todo))' = Range(signatureIds')
  BY <1>1, <1>8 DEF TableInv
<1>17. IsInjective(signatureIds') /\ Range(signatureIds') = {t \in stored' : Kind(t) = "function"}
  BY <1>1 DEF TableInv
<1>18. ~(populated' < Len(module'))
  BY <1>1, <1>2 DEF TableTypes
<1> QED
  BY <1>1, <1>10, <1>12, <1>13, <1>14, <1>15, <1>16, <1>17, <1>18 DEF TableInv

(* One more element at the end. *)
Grows(t, s, x) == Range(t) = Range(s) \cup {x}

LEMMA OneMore ==
  ASSUME NEW S, NEW s \in Seq(S), NEW x \in S, NEW t, t = Append(s, x)
  PROVE  Grows(t, s, x)
<1>1. /\ t \in Seq(S) /\ Len(s) \in Nat /\ DOMAIN s = 1 .. Len(s)
      /\ DOMAIN t = 1 .. Len(s) + 1 /\ t[Len(s) + 1] = x
      /\ \A k \in 1 .. Len(s) : t[k] = s[k]
  OBVIOUS
<1>2. ASSUME NEW y \in Range(t) PROVE y \in Range(s) \cup {x}
  <2>1. PICK k \in 1 .. Len(s) + 1 : y = t[k]
    BY <1>1, <1>2 DEF Range
  <2>2. k \in 1 .. Len(s) \/ k = Len(s) + 1
    BY <1>1
  <2> QED
    BY <1>1, <2>1, <2>2 DEF Range
<1>3. ASSUME NEW y \in Range(s) PROVE y \in Range(t)
  <2>1. PICK k \in 1 .. Len(s) : y = s[k]
    BY <1>1, <1>3 DEF Range
  <2>2. k \in 1 .. Len(s) + 1
    BY <1>1
  <2> QED
    BY <1>1, <2>1, <2>2 DEF Range
<1>4. x \in Range(t)
  <2>1. Len(s) + 1 \in DOMAIN t
    BY <1>1
  <2> QED
    BY <1>1, <2>1 DEF Range
<1> QED
  BY <1>1, <1>2, <1>3, <1>4 DEF Grows

(* One more element at the end of one of many lists. *)
LEMMA OneMoreBelow ==
  ASSUME NEW D, NEW S, NEW g \in [D -> Seq(S)], NEW x, NEW y \in S
  PROVE  [g EXCEPT ![x] = Append(@, y)] \in [D -> Seq(S)]
<1>1. \A d \in D : Append(g[d], y) \in Seq(S)
  OBVIOUS
<1>2. PICK a : a = [d \in D |-> Append(g[d], y)]
  OBVIOUS
<1>3. a \in [D -> Seq(S)]
  BY <1>1, <1>2
<1>4. [g EXCEPT ![x] = Append(@, y)] = [d \in D |-> IF d = x THEN a[d] ELSE g[d]]
  BY <1>2
<1> QED
  BY <1>3, <1>4

(* populateSymbolTable takes the next function, and leaves the store empty. *)
LEMMA Populated == TableInv /\ Populate => TableInv'
<1> SUFFICES ASSUME TableInv, Populate PROVE TableInv'
  OBVIOUS
<1> DEFINE f == module[populated + 1]
<1>1. /\ populated < Len(module) /\ populated' = populated + 1
      /\ UNCHANGED <<module, todo, stored, signatureIds, candidates, callbacks, storeApis>>
  BY DEF Populate, storeVars
<1>2. TableTypes /\ Untouched /\ Grouped
  BY <1>1 DEF TableInv
<1>3. populated \in Nat /\ Len(module) \in Nat /\ f \in DOMAIN Functions
  <2>1. populated + 1 \in 1 .. Len(module)
    BY <1>1, <1>2 DEF TableTypes
  <2> QED
    BY <1>2, <2>1 DEF TableTypes
<1>4. {module[k] : k \in 1 .. populated + 1} = {module[k] : k \in 1 .. populated} \cup {f}
  <2>1. \A k \in 1 .. populated + 1 : k \in 1 .. populated \/ k = populated + 1
    BY <1>3
  <2>2. 1 .. populated \subseteq 1 .. populated + 1 /\ populated + 1 \in 1 .. populated + 1
    BY <1>3
  <2> QED
    BY <2>1, <2>2
<1>5. populated' \in 0 .. Len(module')
  BY <1>1, <1>3
<1>6. IF Functions[f].intrinsic THEN UNCHANGED tableVars
      ELSE /\ groups' = [groups EXCEPT ![Signature(f)] = Append(@, f)]
           /\ ctors' = IF IsConstructor(f)
                       THEN [ctors EXCEPT ![ConstructedType(f)] = Append(@, f)] ELSE ctors
           /\ apis' = IF ~IsConstructor(f) /\ IsTopLevelApi(f)
                      THEN AddApis(apis, Functions[f].callees \o <<f>>) ELSE apis
  BY DEF Populate
<1> HIDE DEF f
<1>7. Signature(f) \in DOMAIN Types /\ Functions[f].callees \o <<f>> \in Seq(DOMAIN Functions)
  <2>1. Functions[f].callees \in Seq(DOMAIN Functions)
    BY <1>3, ProgramAssumption
  <2> QED
    BY <1>3, <2>1, SignatureParts
<1>8. /\ apis' \in Seq(DOMAIN Functions)
      /\ ctors' \in [DOMAIN Types -> Seq(DOMAIN Functions)]
      /\ groups' \in [DOMAIN Types -> Seq(DOMAIN Functions)]
  <2>1. apis' \in Seq(DOMAIN Functions)
    BY <1>2, <1>6, <1>7, ApisAdded DEF TableTypes, tableVars
  <2>2. ctors \in [DOMAIN Types -> Seq(DOMAIN Functions)]
        /\ groups \in [DOMAIN Types -> Seq(DOMAIN Functions)]
    BY <1>2 DEF TableTypes
  <2>3. ctors' = ctors \/ ctors' = [ctors EXCEPT ![ConstructedType(f)] = Append(@, f)]
    BY <1>6 DEF tableVars
  <2>4. groups' = groups \/ groups' = [groups EXCEPT ![Signature(f)] = Append(@, f)]
    BY <1>6 DEF tableVars
  <2>5. ctors' \in [DOMAIN Types -> Seq(DOMAIN Functions)]
    <3>1. PICK x : x = ConstructedType(f)
      OBVIOUS
    <3>2. [ctors EXCEPT ![x] = Append(@, f)] \in [DOMAIN Types -> Seq(DOMAIN Functions)]
      BY <1>3, <2>2, OneMoreBelow
    <3> QED
      BY <2>2, <2>3, <3>1, <3>2
  <2>6. groups' \in [DOMAIN Types -> Seq(DOMAIN Functions)]
    <3>1. PICK x : x = Signature(f)
      OBVIOUS
    <3>2. [groups EXCEPT ![x] = Append(@, f)] \in [DOMAIN Types -> Seq(DOMAIN Functions)]
      BY <1>3, <2>2, OneMoreBelow
    <3> QED
      BY <2>2, <2>4, <3>1, <3>2
  <2> QED
    BY <2>1, <2>5, <2>6
<1>9. Grouped'
  <2>1. CASE Functions[f].intrinsic
    <3>1. groups' = groups
      BY <1>6, <2>1 DEF tableVars
    <3>2. \A s : {g \in {module[k] : k \in 1 .. populated + 1} : Signature(g) = s /\ ~Functions[g].intrinsic}
                = {g \in {module[k] : k \in 1 .. populated} : Signature(g) = s /\ ~Functions[g].intrinsic}
      BY <1>4, <2>1
    <3>3. ASSUME NEW s \in DOMAIN Types
          PROVE  Range(groups'[s]) = {g \in {module[k] : k \in 1 .. populated + 1} :
                                        Signature(g) = s /\ ~Functions[g].intrinsic}
      BY <1>2, <3>1, <3>2 DEF Grouped
    <3> QED
      BY <1>1, <3>3 DEF Grouped
  <2>2. CASE ~Functions[f].intrinsic
    <3> SUFFICES ASSUME NEW s \in DOMAIN Types
                 PROVE  Range(groups'[s]) = {g \in {module[k] : k \in 1 .. populated + 1} :
                                               Signature(g) = s /\ ~Functions[g].intrinsic}
      BY <1>1 DEF Grouped
    <3>1. groups[s] \in Seq(DOMAIN Functions)
      BY <1>2 DEF TableTypes
    <3>2. Range(groups[s]) = {g \in {module[k] : k \in 1 .. populated} :
                                Signature(g) = s /\ ~Functions[g].intrinsic}
      BY <1>2 DEF Grouped
    <3>3. CASE s = Signature(f)
      <4>1. groups'[s] = Append(groups[s], f)
        BY <1>2, <1>6, <2>2, <3>3 DEF TableTypes
      <4>2. Range(groups'[s]) = Range(groups[s]) \cup {f}
        <5>1. PICK S : S = DOMAIN Functions
          OBVIOUS
        <5>2. PICK q \in Seq(S) : q = groups[s]
          BY <3>1, <5>1
        <5>3. PICK t : t = Append(q, f)
          OBVIOUS
        <5>4. Grows(t, q, f)
          BY <1>3, <5>1, <5>3, OneMore
        <5> QED
          BY <4>1, <5>2, <5>3, <5>4 DEF Grows
      <4> QED
        BY <1>4, <2>2, <3>2, <3>3, <4>2
    <3>4. CASE s # Signature(f)
      <4>1. groups'[s] = groups[s]
        BY <1>2, <1>6, <2>2, <3>4 DEF TableTypes
      <4> QED
        BY <1>4, <3>2, <3>4, <4>1
    <3> QED
      BY <3>3, <3>4
  <2> QED
    BY <2>1, <2>2
<1>10. TableTypes'
  BY <1>1, <1>2, <1>5, <1>8 DEF TableTypes
<1>11. Untouched'
  BY <1>1, <1>2 DEF Untouched
<1>12. /\ (DOMAIN candidates \cup Pending(todo))' = Range(signatureIds')
       /\ IsInjective(signatureIds') /\ Range(signatureIds') = {t \in stored' : Kind(t) = "function"}
  BY <1>1 DEF TableInv
<1> QED
  BY <1>9, <1>10, <1>11, <1>12 DEF TableInv, Untouched

(* An empty table and store. *)
LEMMA TableStarts == Init => TableInv
<1> SUFFICES ASSUME Init PROVE TableInv
  OBVIOUS
<1>1. SymbolTableInit /\ module \in Seq(DOMAIN Functions)
  BY ProgramAssumption DEF Init
<1>2. DOMAIN <<>> = {} /\ Len(<<>>) = 0 /\ \A S : <<>> \in Seq(S)
  OBVIOUS
<1>3. Range(<<>>) = {}
  BY <1>2 DEF Range
<1>4. TableTypes
  <2>1. Len(module) \in Nat
    BY <1>1
  <2>2. populated \in 0 .. Len(module)
    BY <1>1, <2>1 DEF SymbolTableInit
  <2>3. ctors \in [DOMAIN Types -> Seq(DOMAIN Functions)]
    BY <1>1, <1>2 DEF SymbolTableInit
  <2>4. groups \in [DOMAIN Types -> Seq(DOMAIN Functions)]
    BY <1>1, <1>2 DEF SymbolTableInit
  <2> QED
    BY <1>1, <1>2, <2>2, <2>3, <2>4 DEF TableTypes, SymbolTableInit
<1>5. Untouched /\ Pending(todo) = {}
  BY <1>1, <1>2, <1>3 DEF Untouched, SymbolTableInit, Pending
<1>6. Grouped
  <2>1. {module[k] : k \in 1 .. populated} = {}
    BY <1>1 DEF SymbolTableInit
  <2>2. \A s \in DOMAIN Types : groups[s] = <<>>
    BY <1>1 DEF SymbolTableInit
  <2> QED
    BY <1>3, <2>1, <2>2 DEF Grouped
<1>7. IsInjective(signatureIds)
  BY <1>2, <1>5 DEF Untouched, IsInjective
<1> QED
  BY <1>3, <1>4, <1>5, <1>6, <1>7 DEF TableInv, Untouched

(* Every step keeps the invariant. *)
LEMMA TableStep == TableInv /\ [Next]_vars => TableInv'
<1> SUFFICES ASSUME TableInv, [Next]_vars PROVE TableInv'
  OBVIOUS
<1>1. CASE RunDriver
  BY <1>1, Populated, FreezeBegun, PlainTypeAdded, StructTypeAdded, FunctionTypeAdded,
     CallbacksAdded, ApiAdded DEF RunDriver, SymbolTableNext
<1>2. CASE UNCHANGED <<module, symbolVars>>
  <2>1. UNCHANGED <<module, populated, apis, ctors, groups, todo, stored, signatureIds, candidates,
                    callbacks, storeApis>>
    BY <1>2 DEF symbolVars
  <2>2. TableTypes' /\ (populated < Len(module) => Untouched)'
    BY <2>1 DEF TableInv, TableTypes, Untouched
  <2>3. Grouped'
    BY <2>1 DEF TableInv, Grouped
  <2>4. (DOMAIN candidates \cup Pending(todo))' = Range(signatureIds')
    BY <2>1 DEF TableInv, Pending
  <2>5. (\A s \in DOMAIN candidates : Answered(s))'
    BY <2>1 DEF TableInv, Answered, ToList
  <2>6. (storeApis # <<>> \/ todo # <<>> =>
           \A f \in Range(apis) : Due(Range(Parts(Signature(f))), stored, todo))'
    BY <2>1 DEF TableInv
  <2>7. \A t : Needs(t)' = Needs(t)
    BY <2>1 DEF Needs, GetConstructors
  <2>8. \A t \in stored' : Due(Needs(t)', stored', todo')
    BY <2>1, <2>7 DEF TableInv
  <2> QED
    BY <2>1, <2>2, <2>3, <2>4, <2>5, <2>6, <2>8 DEF TableInv
<1>3. CASE RunExtractor \/ Link \/ RunNodejs \/ RunMain
  BY <1>2, <1>3 DEF RunExtractor, Link, RunNodejs, RunMain, rigid
<1>4. CASE RunCommon
  <2>1. UNCHANGED symbolVars
    BY <1>4 DEF RunCommon, CommonNext, CallCommonApi, MallocUnsaved, FinishObject, InvokeCommonApi, CommonApiRuns,
                ReferToObject, MallocBits, MallocNull, MallocUnsized, MallocComposite,
                MallocByConstructor
  <2>2. UNCHANGED module
    BY <1>4 DEF RunCommon, rigid
  <2> QED
    BY <1>2, <2>1, <2>2
<1>5. CASE UNCHANGED vars
  BY <1>2, <1>5 DEF vars
<1> QED
  BY <1>1, <1>3, <1>4, <1>5 DEF Next

(* Nothing is due when the list is empty. *)
LEMMA TableGivesCandidates == TableInv => Candidates
<1> SUFFICES ASSUME TableInv, Frozen PROVE Candidates
  BY DEF Candidates
<1>1. todo = <<>> /\ populated = Len(module) /\ Len(storeApis) = Len(apis) /\ TableTypes
  BY DEF Frozen, TableInv
<1>2. DOMAIN <<>> = {} /\ Len(<<>>) = 0
  OBVIOUS
<1>3. Range(todo) = {}
  BY <1>1, <1>2 DEF Range
<1>4. DOMAIN candidates = Range(signatureIds)
  BY <1>3 DEF TableInv, Pending
<1>5. \A ts : Due(ts, stored, todo) => Recognised(ts) \subseteq stored
  BY <1>3 DEF Due
<1>6. \A t \in stored : Recognised(Needs(t)) \subseteq stored
  BY <1>5 DEF TableInv
<1>7. Recognised(UNION {Range(Parts(Signature(f))) : f \in Range(apis)}) \subseteq stored
  <2>1. CASE apis = <<>>
    BY <1>2, <2>1 DEF Range, Recognised
  <2>2. CASE apis # <<>>
    <3>1. storeApis # <<>>
      BY <1>1, <1>2, <2>2 DEF TableTypes
    <3>2. \A f \in Range(apis) : Recognised(Range(Parts(Signature(f)))) \subseteq stored
      BY <1>5, <3>1 DEF TableInv
    <3> QED
      BY <3>2 DEF Recognised
  <2> QED
    BY <2>1, <2>2
<1>8. ASSUME NEW s \in DOMAIN candidates
      PROVE  /\ \A k \in DOMAIN candidates[s] : candidates[s][k] + 1 \in DOMAIN callbacks
             /\ Range(Listed(s)) = IF Suitable(s) = {} THEN {s} ELSE Suitable(s)
  <2>1. Answered(s) /\ Grouped /\ s \in DOMAIN Types
    BY <1>1, <1>4 DEF TableInv, TableTypes, Range
  <2>2. Range(groups[s]) = Suitable(s)
    <3>1. Range(module) = {module[k] : k \in 1 .. populated}
      <4>1. DOMAIN module = 1 .. populated
        BY <1>1 DEF TableTypes
      <4> QED
        BY <4>1 DEF Range
    <3> QED
      BY <2>1, <3>1 DEF Grouped, Suitable
  <2>3. groups[s] \in Seq(DOMAIN Functions)
    BY <1>1, <2>1 DEF TableTypes
  <2>4. groups[s] = <<>> <=> Suitable(s) = {}
    BY <2>2, <2>3 DEF Range
  <2>5. Range(ToList(s)) = IF Suitable(s) = {} THEN {s} ELSE Suitable(s)
    <3>1. Range(<<s>>) = {s}
      <4>1. DOMAIN <<s>> = {1} /\ <<s>>[1] = s
        OBVIOUS
      <4> QED
        BY <4>1 DEF Range
    <3> QED
      BY <2>2, <2>4, <3>1 DEF ToList
  <2>6. Range(Listed(s)) = Range(ToList(s))
    BY <2>1 DEF Answered, Listed, Range
  <2> QED
    BY <2>1, <2>5, <2>6 DEF Answered
<1> QED
  BY <1>4, <1>6, <1>7, <1>8 DEF Candidates, TableInv

(* Whatever the program: a signature has one ID, the callback IDs the store lists
   for it are those of exactly the functions of that signature, and the types of
   the APIs and all the types they lead to are stored
   (src/LLVMPass/CAFDriver.cpp, src/LLVMPass/SymbolTable.cpp). *)
THEOREM CandidatesAreRight == Spec => []Candidates
  BY TableStarts, TableStep, TableGivesCandidates, PTL DEF Spec
=============================================================================
