----------------------------- MODULE ReactiveProofs -----------------------------
(***************************************************************************)
(* Proofs about the reactive engine, across restarts.  For any number of   *)
(* threads, subgraphs and expressions, with one re-entrancy counter for    *)
(* the engine or one per thread: its call stacks, the freezes for          *)
(* cascade_limit, and the freshness of results.  For one thread: the       *)
(* dependency index and the reasons of all freezes.                        *)
(***************************************************************************)
EXTENDS ReactiveRestart, NaturalLemmas, TLAPS

--------------------------------------------------------------------------------
(* Stacks, numbered from the outermost call, so that a number stays with    *)
(* its frame while calls are made and return on top of it.                  *)

Frame(s, n) == s[Len(s) + 1 - n]
WakesIn(s) == {n \in 1 .. Len(s) : Frame(s, n).op = "wake"}

\* r is stack s with its innermost call replaced by the frames fs.
Replaced(r, s, fs) ==
    /\ Len(s) \in Nat \ {0} /\ Len(fs) \in Nat
    /\ Len(r) = Len(s) - 1 + Len(fs)
    /\ \A n \in 1 .. Len(s) - 1 : Frame(r, n) = Frame(s, n)
    /\ \A n \in Len(s) .. Len(r) : Frame(r, n) = fs[Len(fs) + Len(s) - n]
    /\ Frame(s, Len(s)) = Head(s)

\* The innermost call goes on as fs: below it nothing moves.
LEMMA GoesOn ==
    ASSUME NEW X, NEW s \in Seq(X), s # <<>>, NEW Y, NEW fs \in Seq(Y)
    PROVE  /\ fs \o Tail(s) \in Seq(X \cup Y)
           /\ Replaced(fs \o Tail(s), s, fs)
<1>1. /\ Len(s) \in Nat \ {0} /\ Len(fs) \in Nat /\ Head(s) = s[1]
      /\ Tail(s) \in Seq(X) /\ Len(Tail(s)) = Len(s) - 1
      /\ \A i \in 1 .. Len(Tail(s)) : Tail(s)[i] = s[i + 1]
  OBVIOUS
<1> DEFINE r == fs \o Tail(s)
<1>2. r \in Seq(X \cup Y) /\ Len(r) = Len(fs) + Len(Tail(s))
  <2>1. fs \in Seq(X \cup Y) /\ Tail(s) \in Seq(X \cup Y)
    BY <1>1
  <2> QED
    BY <2>1
<1>3. \A i \in 1 .. Len(fs) + Len(Tail(s)) :
          r[i] = IF i <= Len(fs) THEN fs[i] ELSE Tail(s)[i - Len(fs)]
  <2>1. fs \in Seq(X \cup Y) /\ Tail(s) \in Seq(X \cup Y)
    BY <1>1
  <2> QED
    BY <2>1
<1> HIDE DEF r
<1>4. Len(r) = Len(s) - 1 + Len(fs)
  BY <1>1, <1>2
<1>5. ASSUME NEW n \in 1 .. Len(s) - 1 PROVE Frame(r, n) = Frame(s, n)
  <2> DEFINE i == Len(r) + 1 - n
  <2>1. i \in 1 .. Len(fs) + Len(Tail(s)) /\ i > Len(fs) /\ i - Len(fs) = Len(s) - n
    BY <1>1, <1>4
  <2>2. r[i] = Tail(s)[Len(s) - n]
    BY <1>3, <2>1
  <2>3. Len(s) - n \in 1 .. Len(Tail(s)) /\ (Len(s) - n) + 1 = Len(s) + 1 - n
    BY <1>1
  <2> QED
    BY <1>1, <2>2, <2>3 DEF Frame
<1>6. ASSUME NEW n \in Len(s) .. Len(s) - 1 + Len(fs)
      PROVE  Frame(r, n) = fs[Len(fs) + Len(s) - n]
  <2> DEFINE i == Len(r) + 1 - n
  <2>1. i \in 1 .. Len(fs) + Len(Tail(s)) /\ i <= Len(fs) /\ i = Len(fs) + Len(s) - n
    BY <1>1, <1>4
  <2> QED
    BY <1>3, <2>1 DEF Frame
<1>7. Frame(s, Len(s)) = Head(s)
  BY <1>1 DEF Frame
<1>8. Replaced(r, s, fs)
  BY <1>1, <1>4, <1>5, <1>6, <1>7 DEF Replaced
<1> QED
  BY <1>2, <1>8 DEF r

\* No wake-up comes or goes with an innermost call that is none and makes none.
LEMMA WakesStay ==
    ASSUME NEW r, NEW s, NEW fs, Replaced(r, s, fs),
           Head(s).op # "wake", \A i \in 1 .. Len(fs) : fs[i].op # "wake"
    PROVE  WakesIn(r) = WakesIn(s)
<1>1. ASSUME NEW n \in Len(s) .. Len(r) PROVE Frame(r, n).op # "wake"
  <2>1. Frame(r, n) = fs[Len(fs) + Len(s) - n] /\ Len(fs) + Len(s) - n \in 1 .. Len(fs)
    BY DEF Replaced
  <2> QED
    BY <2>1
<1>2. Len(s) \notin WakesIn(s)
  BY DEF WakesIn, Replaced
<1>3. \A n \in WakesIn(r) : n \in 1 .. Len(s) - 1
  BY <1>1 DEF WakesIn, Replaced
<1>4. \A n \in WakesIn(s) : n \in 1 .. Len(s) - 1
  BY <1>2 DEF WakesIn, Replaced
<1>5. \A n \in 1 .. Len(s) - 1 : n \in WakesIn(r) <=> n \in WakesIn(s)
  BY DEF WakesIn, Replaced
<1> QED
  BY <1>3, <1>4, <1>5

\* A wake-up that begins ...
LEMMA WakeBegins ==
    ASSUME NEW r, NEW s, NEW f, Replaced(r, s, <<f>>), Head(s).op # "wake", f.op = "wake"
    PROVE  WakesIn(r) = WakesIn(s) \cup {Len(s)} /\ Len(s) \notin WakesIn(s)
<1>1. Len(<<f>>) = 1 /\ <<f>>[1] = f
  OBVIOUS
<1>2. Len(s) \in Nat \ {0} /\ Len(r) = Len(s) /\ Frame(r, Len(s)) = f
  <2>1. Len(s) \in Nat \ {0} /\ Len(r) = Len(s)
    BY <1>1 DEF Replaced
  <2>2. Frame(r, Len(s)) = <<f>>[Len(<<f>>) + Len(s) - Len(s)]
    BY <2>1 DEF Replaced
  <2>3. Len(<<f>>) + Len(s) - Len(s) = 1
    BY <1>1, <2>1
  <2> QED
    BY <1>1, <2>1, <2>2, <2>3
<1>3. Len(s) \notin WakesIn(s)
  BY DEF WakesIn, Replaced
<1>4. \A n \in 1 .. Len(s) - 1 : n \in WakesIn(r) <=> n \in WakesIn(s)
  BY DEF WakesIn, Replaced
<1>5. Len(s) \in WakesIn(r)
  BY <1>2 DEF WakesIn
<1>6. \A n \in WakesIn(r) \cup WakesIn(s) : n \in 1 .. Len(s) - 1 \/ n = Len(s)
  BY <1>2 DEF WakesIn
<1> QED
  BY <1>3, <1>4, <1>5, <1>6

\* ... goes on, with a call or without ...
LEMMA WakeGoesOn ==
    ASSUME NEW r, NEW s, NEW fs, Replaced(r, s, fs), Head(s).op = "wake",
           Len(fs) \in {1, 2}, fs[Len(fs)].op = "wake", Len(fs) = 2 => fs[1].op # "wake"
    PROVE  WakesIn(r) = WakesIn(s)
<1>1. Len(s) \in Nat \ {0} /\ Len(r) = Len(s) - 1 + Len(fs)
  BY DEF Replaced
<1>0. Len(s) \in Len(s) .. Len(r) /\ Len(s) \in 1 .. Len(r) /\ Len(r) \in {Len(s), Len(s) + 1}
  <2>1. CASE Len(fs) = 1
    BY <1>1, <2>1
  <2>2. CASE Len(fs) = 2
    BY <1>1, <2>2
  <2> QED
    BY <2>1, <2>2
<1>2. Frame(r, Len(s)) = fs[Len(fs)]
  <2>1. Frame(r, Len(s)) = fs[Len(fs) + Len(s) - Len(s)]
    BY <1>0 DEF Replaced
  <2> QED
    BY <1>1, <2>1 DEF Replaced
<1>3. Len(fs) = 2 => Frame(r, Len(s) + 1) = fs[1]
  BY <1>1 DEF Replaced
<1>4. Len(s) \in WakesIn(r) /\ Len(s) \in WakesIn(s)
  BY <1>0, <1>1, <1>2 DEF WakesIn, Replaced
<1>5. \A n \in 1 .. Len(s) - 1 : n \in WakesIn(r) <=> n \in WakesIn(s)
  BY DEF WakesIn, Replaced
<1>6. \A n \in WakesIn(s) : n \in 1 .. Len(s) - 1 \/ n = Len(s)
  BY <1>1 DEF WakesIn
<1>7. \A n \in WakesIn(r) : n \in 1 .. Len(s) - 1 \/ n = Len(s)
  <2> SUFFICES ASSUME NEW n \in WakesIn(r), n = Len(s) + 1 PROVE FALSE
    BY <1>0, <1>1 DEF WakesIn
  <2>1. Len(fs) = 2
    BY <1>0, <1>1 DEF WakesIn
  <2> QED
    BY <2>1, <1>3 DEF WakesIn
<1>8. WakesIn(r) \subseteq WakesIn(s)
  BY <1>4, <1>5, <1>7
<1>9. WakesIn(s) \subseteq WakesIn(r)
  BY <1>4, <1>5, <1>6
<1> QED
  BY <1>8, <1>9

\* ... and ends.
LEMMA WakeEnds ==
    ASSUME NEW r, NEW s, Replaced(r, s, <<>>), Head(s).op = "wake"
    PROVE  WakesIn(r) = WakesIn(s) \ {Len(s)} /\ Len(s) \in WakesIn(s)
<1>1. Len(s) \in Nat \ {0} /\ Len(r) = Len(s) - 1
  BY DEF Replaced
<1>2. Len(s) \in WakesIn(s)
  BY <1>1 DEF WakesIn, Replaced
<1>3. \A n \in 1 .. Len(s) - 1 : n \in WakesIn(r) <=> n \in WakesIn(s)
  BY DEF WakesIn, Replaced
<1>4. /\ \A n \in WakesIn(r) : n \in 1 .. Len(s) - 1
      /\ \A n \in WakesIn(s) : n \in 1 .. Len(s) - 1 \/ n = Len(s)
  BY <1>1 DEF WakesIn
<1> QED
  BY <1>1, <1>2, <1>3, <1>4

--------------------------------------------------------------------------------
(***************************************************************************)
(* A re-entrancy counter counts the wake-ups on the stacks that share it,  *)
(* all of them and nothing else.                                           *)
(***************************************************************************)
Stacks == DOMAIN stack = Threads /\ \A t \in Threads : \E X : stack[t] \in Seq(X)

Counters == Threads \cup {Engine}
WakesOf(k) == {w \in Threads \X Nat : Counter(w[1]) = k /\ w[2] \in WakesIn(stack[w[1]])}

Counted ==
    /\ DOMAIN reentry = Counters
    /\ \A k \in Counters :
          /\ IsFiniteSet(WakesOf(k)) /\ reentry[k] = Cardinality(WakesOf(k))
          /\ reentry[k] <= ReentryLimit

IInv == Stacks /\ Counted

\* One call of a thread goes on as fs, and the other stacks stay.
LEMMA Continued ==
    ASSUME Stacks, NEW t \in Threads, stack[t] # <<>>, NEW Y, NEW fs \in Seq(Y), Continue(t, fs)
    PROVE  /\ Stacks'
           /\ Replaced(stack'[t], stack[t], fs)
           /\ \A u \in Threads \ {t} : stack'[u] = stack[u]
<1>1. PICK X : stack[t] \in Seq(X)
  BY DEF Stacks
<1>2. /\ DOMAIN stack' = Threads
      /\ stack'[t] = fs \o Tail(stack[t])
      /\ \A u \in Threads \ {t} : stack'[u] = stack[u]
  BY DEF Stacks, Continue
<1>3. stack'[t] \in Seq(X \cup Y) /\ Replaced(stack'[t], stack[t], fs)
  <2> DEFINE s == stack[t]
  <2>1. fs \o Tail(s) \in Seq(X \cup Y) /\ Replaced(fs \o Tail(s), s, fs)
    <3>1. s \in Seq(X) /\ s # <<>>
      BY <1>1
    <3> HIDE DEF s
    <3> QED
      BY <3>1, GoesOn
  <2> HIDE DEF s
  <2>2. stack'[t] = fs \o Tail(s)
    BY <1>2 DEF s
  <2>3. stack'[t] \in Seq(X \cup Y) /\ Replaced(stack'[t], s, fs)
    BY <2>1, <2>2
  <2> QED
    BY <2>3 DEF s
<1>4. \A u \in Threads : \E Z : stack'[u] \in Seq(Z)
  BY <1>2, <1>3 DEF Stacks
<1> QED
  BY <1>2, <1>3, <1>4 DEF Stacks

\* Nothing changes for the counters while no wake-up comes or goes.
LEMMA WakesUnchanged ==
    ASSUME Counted, UNCHANGED reentry,
           \A u \in Threads : WakesIn(stack'[u]) = WakesIn(stack[u])
    PROVE  Counted'
<1>1. \A k : WakesOf(k)' = WakesOf(k)
  BY DEF WakesOf, Counter
<1> QED
  BY <1>1 DEF Counted

\* Every step of a call that is not a wake-up and wakes nothing.
LEMMA CalmStep ==
    ASSUME IInv, NEW t \in Threads, stack[t] # <<>>, NEW Y, NEW fs \in Seq(Y),
           Top(t).op # "wake", \A i \in 1 .. Len(fs) : fs[i].op # "wake",
           Continue(t, fs), UNCHANGED reentry
    PROVE  IInv'
<1>1. /\ Stacks' /\ Replaced(stack'[t], stack[t], fs)
      /\ \A u \in Threads \ {t} : stack'[u] = stack[u]
  BY Continued DEF IInv
<1>2. WakesIn(stack'[t]) = WakesIn(stack[t])
  BY <1>1, WakesStay DEF Top
<1> QED
  BY <1>1, <1>2, WakesUnchanged DEF IInv

\* The forms a call goes on in: it returns, or as one or two others.
LEMMA ReturnStep ==
    ASSUME IInv, NEW t \in Threads, stack[t] # <<>>, Top(t).op # "wake",
           Continue(t, <<>>), UNCHANGED reentry
    PROVE  IInv'
<1>1. <<>> \in Seq({}) /\ Len(<<>>) = 0
  OBVIOUS
<1>2. \A i \in 1 .. Len(<<>>) : <<>>[i].op # "wake"
  BY <1>1
<1> QED
  BY <1>1, <1>2, CalmStep

\* A call that goes on as another one wakes nobody.
LEMMA BecomeStep ==
    ASSUME IInv, NEW t \in Threads, stack[t] # <<>>, Top(t).op # "wake",
           NEW f, f.op # "wake", Continue(t, <<f>>), UNCHANGED reentry
    PROVE  IInv'
<1>1. <<f>> \in Seq({f}) /\ Len(<<f>>) = 1 /\ <<f>>[1] = f
  OBVIOUS
<1>2. \A i \in 1 .. Len(<<f>>) : <<f>>[i].op # "wake"
  BY <1>1
<1> QED
  BY <1>1, <1>2, CalmStep

\* Neither does a call that makes another one.
LEMMA CallStep ==
    ASSUME IInv, NEW t \in Threads, stack[t] # <<>>, Top(t).op # "wake",
           NEW f, f.op # "wake", NEW h, h.op # "wake", Continue(t, <<f, h>>), UNCHANGED reentry
    PROVE  IInv'
<1>1. <<f, h>> \in Seq({f, h}) /\ Len(<<f, h>>) = 2 /\ <<f, h>>[1] = f /\ <<f, h>>[2] = h
  OBVIOUS
<1>2. \A i \in 1 .. Len(<<f, h>>) : <<f, h>>[i].op # "wake"
  BY <1>1
<1> QED
  BY <1>1, <1>2, CalmStep

\* A request that is accepted puts one call on an empty stack.
LEMMA RequestStep ==
    ASSUME IInv, NEW t \in Threads, stack[t] = <<>>, NEW f, f.op # "wake",
           stack' = [stack EXCEPT ![t] = <<f>>], UNCHANGED reentry
    PROVE  IInv'
<1>1. <<f>> \in Seq({f}) /\ Len(<<f>>) = 1 /\ <<f>>[1] = f
  OBVIOUS
<1>2. stack'[t] = <<f>> /\ DOMAIN stack' = Threads /\ \A u \in Threads \ {t} : stack'[u] = stack[u]
  BY DEF IInv, Stacks
<1>3. WakesIn(<<f>>) = {} /\ WakesIn(<<>>) = {}
  BY <1>1 DEF WakesIn, Frame
<1>4. Stacks'
  BY <1>1, <1>2 DEF IInv, Stacks
<1> QED
  BY <1>2, <1>3, <1>4, WakesUnchanged DEF IInv

\* A change of a watched path wakes, below the backstop.
LEMMA BeginStep ==
    ASSUME IInv, NEW t \in Threads, stack[t] # <<>>, Top(t).op # "wake",
           NEW f, f.op = "wake", Continue(t, <<f>>), ~OverBackstop(t),
           reentry' = [reentry EXCEPT ![Counter(t)] = @ + 1]
    PROVE  IInv'
<1> DEFINE w == <<t, Len(stack[t])>>
<1>1. <<f>> \in Seq({f})
  OBVIOUS
<1>2. /\ Stacks' /\ Replaced(stack'[t], stack[t], <<f>>)
      /\ \A u \in Threads \ {t} : stack'[u] = stack[u]
  BY <1>1, Continued DEF IInv
<1>3. /\ WakesIn(stack'[t]) = WakesIn(stack[t]) \cup {Len(stack[t])}
      /\ Len(stack[t]) \notin WakesIn(stack[t]) /\ Len(stack[t]) \in Nat
  <2>1. Head(stack[t]).op # "wake"
    BY DEF Top
  <2>2. Len(stack[t]) \in Nat
    BY <1>2 DEF Replaced
  <2> QED
    BY <1>2, <2>1, <2>2, WakeBegins
<1>4. WakesOf(Counter(t))' = WakesOf(Counter(t)) \cup {w} /\ w \notin WakesOf(Counter(t))
  BY <1>2, <1>3 DEF WakesOf, Counter
<1>5. ASSUME NEW k \in Counters, k # Counter(t) PROVE WakesOf(k)' = WakesOf(k)
  BY <1>2, <1>5 DEF WakesOf, Counter
<1>6. Counter(t) \in Counters
  BY DEF Counter, Counters
<1>7. /\ IsFiniteSet(WakesOf(Counter(t)))
      /\ reentry[Counter(t)] = Cardinality(WakesOf(Counter(t)))
      /\ Cardinality(WakesOf(Counter(t))) \in Nat
  BY <1>6, FS_CardinalityType DEF IInv, Counted
<1>8. /\ IsFiniteSet(WakesOf(Counter(t))')
      /\ Cardinality(WakesOf(Counter(t))') = Cardinality(WakesOf(Counter(t))) + 1
  <2> DEFINE W == WakesOf(Counter(t))
  <2>1. IsFiniteSet(W) /\ w \notin W /\ WakesOf(Counter(t))' = W \cup {w}
    BY <1>4, <1>7
  <2> HIDE DEF W, w
  <2>2. IsFiniteSet(W \cup {w}) /\ Cardinality(W \cup {w}) = Cardinality(W) + 1
    BY <2>1, FS_AddElement
  <2> QED
    BY <2>1, <2>2 DEF W
<1>9. reentry[Counter(t)] + 1 <= ReentryLimit
  BY <1>7, EngineAssumption DEF OverBackstop, ReentryLimit
<1>10. /\ DOMAIN reentry' = Counters
       /\ reentry'[Counter(t)] = reentry[Counter(t)] + 1
       /\ \A k \in Counters : k # Counter(t) => reentry'[k] = reentry[k]
  BY <1>6 DEF IInv, Counted
<1>11. Counted'
  <2> SUFFICES ASSUME NEW k \in Counters
               PROVE  /\ IsFiniteSet(WakesOf(k)') /\ reentry'[k] = Cardinality(WakesOf(k)')
                      /\ reentry'[k] <= ReentryLimit
    BY <1>10 DEF Counted
  <2>1. CASE k = Counter(t)
    BY <2>1, <1>7, <1>8, <1>9, <1>10
  <2>2. CASE k # Counter(t)
    BY <2>2, <1>5, <1>10 DEF IInv, Counted
  <2> QED
    BY <2>1, <2>2
<1> QED
  BY <1>2, <1>11 DEF IInv

\* The loop over the subgraphs that were woken comes to the next ...
LEMMA NextStep ==
    ASSUME IInv, NEW t \in Threads, stack[t] # <<>>, Top(t).op = "wake", UNCHANGED reentry,
           NEW f, f.op = "wake",
           \/ Continue(t, <<f>>)
           \/ \E h : h.op # "wake" /\ Continue(t, <<h, f>>)
    PROVE  IInv'
<1>1. CASE Continue(t, <<f>>)
  <2>1. <<f>> \in Seq({f}) /\ Len(<<f>>) = 1 /\ <<f>>[1] = f
    OBVIOUS
  <2>2. /\ Stacks' /\ Replaced(stack'[t], stack[t], <<f>>)
        /\ \A u \in Threads \ {t} : stack'[u] = stack[u]
    BY <1>1, <2>1, Continued DEF IInv
  <2>3. /\ Head(stack[t]).op = "wake" /\ Len(<<f>>) \in {1, 2} /\ <<f>>[Len(<<f>>)].op = "wake"
        /\ Len(<<f>>) = 2 => <<f>>[1].op # "wake"
    BY <2>1 DEF Top
  <2>4. WakesIn(stack'[t]) = WakesIn(stack[t])
    BY <2>2, <2>3, WakeGoesOn
  <2> QED
    BY <2>2, <2>4, WakesUnchanged DEF IInv
<1>2. ASSUME NEW h, h.op # "wake", Continue(t, <<h, f>>) PROVE IInv'
  <2>1. <<h, f>> \in Seq({h, f}) /\ Len(<<h, f>>) = 2 /\ <<h, f>>[1] = h /\ <<h, f>>[2] = f
    OBVIOUS
  <2>2. /\ Stacks' /\ Replaced(stack'[t], stack[t], <<h, f>>)
        /\ \A u \in Threads \ {t} : stack'[u] = stack[u]
    BY <1>2, <2>1, Continued DEF IInv
  <2>3. /\ Head(stack[t]).op = "wake" /\ Len(<<h, f>>) \in {1, 2} /\ <<h, f>>[Len(<<h, f>>)].op = "wake"
        /\ Len(<<h, f>>) = 2 => <<h, f>>[1].op # "wake"
    BY <1>2, <2>1 DEF Top
  <2>4. WakesIn(stack'[t]) = WakesIn(stack[t])
    BY <2>2, <2>3, WakeGoesOn
  <2> QED
    BY <2>2, <2>4, WakesUnchanged DEF IInv
<1> QED
  BY <1>1, <1>2

\* ... and to its end.
LEMMA EndStep ==
    ASSUME IInv, NEW t \in Threads, stack[t] # <<>>, Top(t).op = "wake", Continue(t, <<>>),
           reentry' = [reentry EXCEPT ![Counter(t)] = @ - 1]
    PROVE  IInv'
<1> DEFINE w == <<t, Len(stack[t])>>
<1>1. <<>> \in Seq({})
  OBVIOUS
<1>2. /\ Stacks' /\ Replaced(stack'[t], stack[t], <<>>)
      /\ \A u \in Threads \ {t} : stack'[u] = stack[u]
  BY <1>1, Continued DEF IInv
<1>3. /\ WakesIn(stack'[t]) = WakesIn(stack[t]) \ {Len(stack[t])}
      /\ Len(stack[t]) \in WakesIn(stack[t]) /\ Len(stack[t]) \in Nat
  BY <1>2, WakeEnds DEF Top, Replaced
<1>4. WakesOf(Counter(t))' = WakesOf(Counter(t)) \ {w} /\ w \in WakesOf(Counter(t))
  BY <1>2, <1>3 DEF WakesOf, Counter
<1>5. ASSUME NEW k \in Counters, k # Counter(t) PROVE WakesOf(k)' = WakesOf(k)
  BY <1>2, <1>5 DEF WakesOf, Counter
<1>6. Counter(t) \in Counters
  BY DEF Counter, Counters
<1>7. /\ IsFiniteSet(WakesOf(Counter(t)))
      /\ reentry[Counter(t)] = Cardinality(WakesOf(Counter(t)))
      /\ Cardinality(WakesOf(Counter(t))) \in Nat
      /\ reentry[Counter(t)] <= ReentryLimit
  BY <1>6, FS_CardinalityType DEF IInv, Counted
<1>8. /\ IsFiniteSet(WakesOf(Counter(t))')
      /\ Cardinality(WakesOf(Counter(t))') = Cardinality(WakesOf(Counter(t))) - 1
  <2> DEFINE W == WakesOf(Counter(t))
  <2>1. IsFiniteSet(W) /\ w \in W /\ WakesOf(Counter(t))' = W \ {w}
    BY <1>4, <1>7
  <2> HIDE DEF W, w
  <2>2. IsFiniteSet(W \ {w}) /\ Cardinality(W \ {w}) = Cardinality(W) - 1
    BY <2>1, FS_RemoveElement
  <2> QED
    BY <2>1, <2>2 DEF W
<1>9. /\ DOMAIN reentry' = Counters
      /\ reentry'[Counter(t)] = reentry[Counter(t)] - 1
      /\ \A k \in Counters : k # Counter(t) => reentry'[k] = reentry[k]
  BY <1>6 DEF IInv, Counted
<1>10. ReentryLimit \in Nat
  BY EngineAssumption DEF ReentryLimit
<1>11. Counted'
  <2> SUFFICES ASSUME NEW k \in Counters
               PROVE  /\ IsFiniteSet(WakesOf(k)') /\ reentry'[k] = Cardinality(WakesOf(k)')
                      /\ reentry'[k] <= ReentryLimit
    BY <1>9 DEF Counted
  <2>1. CASE k = Counter(t)
    BY <2>1, <1>7, <1>8, <1>9, <1>10
  <2>2. CASE k # Counter(t)
    BY <2>2, <1>5, <1>9 DEF IInv, Counted
  <2> QED
    BY <2>1, <2>2
<1> QED
  BY <1>2, <1>11 DEF IInv

--------------------------------------------------------------------------------
(***************************************************************************)
(* Every step of the peer keeps count.                                     *)
(***************************************************************************)
LEMMA InitIInv == PeerInit => IInv
<1> SUFFICES ASSUME PeerInit PROVE IInv
  OBVIOUS
<1>1. DOMAIN stack = Threads /\ \A t \in Threads : stack[t] = <<>>
  BY DEF PeerInit, Init
<1>2. <<>> \in Seq({}) /\ WakesIn(<<>>) = {}
  BY DEF WakesIn
<1>3. \A k : WakesOf(k) = {}
  BY <1>1, <1>2 DEF WakesOf
<1>4. IsFiniteSet({}) /\ Cardinality({}) = 0 /\ ReentryLimit \in Nat
  BY FS_EmptySet, EngineAssumption DEF ReentryLimit
<1>5. DOMAIN reentry = Counters /\ \A k \in Counters : reentry[k] = 0
  BY DEF PeerInit, Init, Counters
<1>6. Stacks
  BY <1>1, <1>2 DEF Stacks
<1>7. Counted
  <2>1. ASSUME NEW k \in Counters
        PROVE  /\ IsFiniteSet(WakesOf(k)) /\ reentry[k] = Cardinality(WakesOf(k))
               /\ reentry[k] <= ReentryLimit
    BY <1>3, <1>4, <1>5
  <2> QED
    BY <1>5, <2>1 DEF Counted
<1> QED
  BY <1>6, <1>7 DEF IInv

\* A restart leaves no call, and no count.
LEMMA RestartStep == IInv /\ Restart => IInv'
<1> SUFFICES ASSUME IInv, Restart PROVE IInv'
  OBVIOUS
<1>1. DOMAIN stack' = Threads /\ \A t \in Threads : stack'[t] = <<>>
  BY DEF Restart
<1>2. <<>> \in Seq({}) /\ WakesIn(<<>>) = {}
  BY DEF WakesIn
<1>3. \A k : WakesOf(k)' = {}
  BY <1>1, <1>2 DEF WakesOf
<1>4. IsFiniteSet({}) /\ Cardinality({}) = 0 /\ ReentryLimit \in Nat
  BY FS_EmptySet, EngineAssumption DEF ReentryLimit
<1>5. DOMAIN reentry' = Counters /\ \A k \in Counters : reentry'[k] = 0
  BY DEF Restart, IInv, Counted
<1>6. Stacks'
  BY <1>1, <1>2 DEF Stacks
<1>7. Counted'
  <2>1. ASSUME NEW k \in Counters
        PROVE  /\ IsFiniteSet(WakesOf(k)') /\ reentry'[k] = Cardinality(WakesOf(k)')
               /\ reentry'[k] <= ReentryLimit
    BY <1>3, <1>4, <1>5
  <2> QED
    BY <1>5, <2>1 DEF Counted
<1> QED
  BY <1>6, <1>7 DEF IInv

\* Accepting a request keeps every count.
LEMMA RequestKeepsCount ==
    ASSUME IInv, NEW t \in Threads, Request(t)
    PROVE  IInv'
<1>1. ASSUME NEW p, NEW v, Put(t, p, v) PROVE IInv'
  <2>1. Event(p, 0).op # "wake"
    BY DEF Event
  <2> QED
    BY <1>1, <2>1, RequestStep DEF Put, Accept, Idle
<1>2. ASSUME NEW s, NEW g, Install(t, s, g) PROVE IInv'
  <2>1. Registration(s, Reads[expr[s]]).op # "wake"
    BY DEF Registration
  <2> QED
    BY <1>2, <2>1, RequestStep DEF Install, Accept, Idle
<1>3. ASSUME NEW s, Uninstall(t, s) PROVE IInv'
  <2>1. Call("unbind", s).op # "wake"
    BY DEF Call
  <2> QED
    BY <1>3, <2>1, RequestStep DEF Uninstall, Accept, Idle
<1>4. ASSUME NEW s, NEW e, Edit(t, s, e) PROVE IInv'
  <2>1. UNCHANGED <<stack, reentry>>
    BY <1>4 DEF Edit
  <2>2. Stacks'
    BY <2>1 DEF IInv, Stacks
  <2> QED
    BY <2>1, <2>2, WakesUnchanged DEF IInv
<1> QED
  BY <1>1, <1>2, <1>3, <1>4 DEF Request

\* Calls are put on a stack one by one.
LEMMA Calls ==
    ASSUME NEW h, NEW r
    PROVE  <<h>> \o <<r>> = <<h, r>> /\ <<>> \o <<r>> = <<r>>
<1> DEFINE X == {h, r}
           c == <<h>> \o <<r>>
<1>1. <<h>> \in Seq(X) /\ <<r>> \in Seq(X) /\ Len(<<h>>) = 1 /\ Len(<<r>>) = 1
  OBVIOUS
<1>2. c \in Seq(X) /\ Len(c) = 2 /\ c[1] = h /\ c[2] = r
  BY <1>1
<1>3. <<h, r>> \in Seq(X) /\ Len(<<h, r>>) = 2 /\ <<h, r>>[1] = h /\ <<h, r>>[2] = r
  OBVIOUS
<1>4. c = <<h, r>>
  <2> HIDE DEF c, X
  <2>1. \A i \in 1 .. 2 : i = 1 \/ i = 2
    OBVIOUS
  <2> QED
    BY <1>2, <1>3, <2>1
<1>5. <<>> \o <<r>> = <<r>>
  BY <1>1
<1> QED
  BY <1>4, <1>5

\* So does every step of a call: only a wake-up counts up, only its end down.
LEMMA RunKeepsCount ==
    ASSUME IInv, NEW t \in Threads, Run(t)
    PROVE  IInv'
<1> DEFINE f == Top(t)
<1>1. CASE OnTreeChange(t)
  <2> DEFINE entries == index[f.path]
  <2>1. stack[t] # <<>> /\ f.op = "event"
    BY <1>1 DEF OnTreeChange, At
  <2>2. CASE entries = <<>>
    BY <1>1, <2>1, <2>2, ReturnStep DEF OnTreeChange
  <2>3. CASE entries # <<>> /\ OverBackstop(t)
    <3>1. Refuse(entries, f.depth).op # "wake"
      BY DEF Refuse
    <3>2. Continue(t, <<Refuse(entries, f.depth)>>) /\ UNCHANGED reentry
      BY <1>1, <2>3 DEF OnTreeChange
    <3> QED
      BY <2>1, <3>1, <3>2, BecomeStep
  <2>4. CASE entries # <<>> /\ ~OverBackstop(t)
    <3>1. Wake(entries, f.depth).op = "wake"
      BY DEF Wake
    <3>2. /\ Continue(t, <<Wake(entries, f.depth)>>)
          /\ reentry' = [reentry EXCEPT ![Counter(t)] = @ + 1]
      BY <1>1, <2>4 DEF OnTreeChange
    <3> QED
      BY <2>1, <2>4, <3>1, <3>2, BeginStep
  <2> QED
    BY <2>2, <2>3, <2>4
<1>2. CASE WakeNext(t)
  <2> DEFINE s == Head(f.todo)
             r == Wake(Tail(f.todo), f.depth)
  <2>1. stack[t] # <<>> /\ f.op = "wake" /\ UNCHANGED reentry /\ r.op = "wake"
    BY <1>2 DEF WakeNext, At, Wake
  <2>2. \/ Continue(t, <<>> \o <<r>>)
        \/ \E h : h.op # "wake" /\ Continue(t, <<h>> \o <<r>>)
    <3>1. /\ Call("forget", s).op # "wake" /\ Freeze(s, "cascade_limit", f.depth).op # "wake"
          /\ Evaluate(s, meta[s].grant, f.depth).op # "wake"
      BY DEF Call, Freeze, Evaluate
    <3>2. CASE ~Installed(s)
      BY <1>2, <3>1, <3>2 DEF WakeNext
    <3>3. CASE Installed(s) /\ meta[s].status = "frozen"
      BY <1>2, <3>3 DEF WakeNext
    <3>4. CASE Installed(s) /\ meta[s].status # "frozen" /\ f.depth >= CascadeLimit
      BY <1>2, <3>1, <3>4 DEF WakeNext
    <3>5. CASE Installed(s) /\ meta[s].status # "frozen" /\ ~(f.depth >= CascadeLimit)
      BY <1>2, <3>1, <3>5 DEF WakeNext
    <3> QED
      BY <3>2, <3>3, <3>4, <3>5
  <2>3. <<>> \o <<r>> = <<r>> /\ \A h : <<h>> \o <<r>> = <<h, r>>
    <3> HIDE DEF r
    <3> QED
      BY Calls
  <2>4. Continue(t, <<r>>) \/ \E h : h.op # "wake" /\ Continue(t, <<h, r>>)
    <3> HIDE DEF r
    <3> QED
      BY <2>2, <2>3
  <2> HIDE DEF r
  <2> QED
    BY <2>1, <2>4, NextStep
<1>3. CASE WakeDone(t)
  BY <1>3, EndStep DEF WakeDone, At
<1>4. CASE RefuseNext(t)
  <2>1. stack[t] # <<>> /\ f.op # "wake" /\ UNCHANGED reentry
    BY <1>4 DEF RefuseNext, At
  <2>2. CASE f.todo = <<>>
    BY <1>4, <2>1, <2>2, ReturnStep DEF RefuseNext
  <2>3. CASE f.todo # <<>>
    <3>1. /\ Freeze(Head(f.todo), "cascade_limit", f.depth).op # "wake"
          /\ Refuse(Tail(f.todo), f.depth).op # "wake"
      BY DEF Freeze, Refuse
    <3> QED
      BY <1>4, <2>1, <2>3, <3>1, CallStep DEF RefuseNext
  <2> QED
    BY <2>2, <2>3
<1>5. CASE ReEvaluate(t)
  <2>1. stack[t] # <<>> /\ f.op # "wake" /\ UNCHANGED reentry
    BY <1>5 DEF ReEvaluate, At
  <2>2. PICK h : h.op # "wake" /\ Continue(t, <<h>>)
    <3>1. /\ Freeze(f.sub, "installation_grant_invalid", f.depth).op # "wake"
          /\ Call("forget", f.sub).op # "wake"
          /\ Publish(f.sub, Outcome(expr[f.sub]), f.depth).op # "wake"
      BY DEF Freeze, Call, Publish
    <3>2. CASE f.grant \in expired
      BY <1>5, <3>1, <3>2 DEF ReEvaluate
    <3>3. CASE f.grant \notin expired /\ expr[f.sub] = Unset
      BY <1>5, <3>1, <3>3 DEF ReEvaluate
    <3>4. CASE f.grant \notin expired /\ expr[f.sub] # Unset
      BY <1>5, <3>1, <3>4 DEF ReEvaluate
    <3> QED
      BY <3>2, <3>3, <3>4
  <2> QED
    BY <2>1, <2>2, BecomeStep
<1>6. CASE PublishResult(t)
  <2> DEFINE d == IF f.value \in Errors THEN f.depth ELSE f.depth + 1
  <2>1. stack[t] # <<>> /\ f.op # "wake" /\ UNCHANGED reentry
    BY <1>6 DEF PublishResult, At
  <2>2. Event(f.sub, d).op # "wake" /\ <<Event(f.sub, d)>> \o <<>> = <<Event(f.sub, d)>>
    BY DEF Event
  <2>3. CASE tree[f.sub] = f.value
    BY <1>6, <2>1, <2>3, ReturnStep DEF PublishResult, Bind
  <2>4. CASE tree[f.sub] # f.value
    <3>1. Continue(t, <<Event(f.sub, d)>>)
      BY <1>6, <2>2, <2>4 DEF PublishResult, Bind
    <3> QED
      BY <2>1, <2>2, <3>1, BecomeStep
  <2> QED
    BY <2>3, <2>4
<1>7. CASE FreezeResult(t)
  <2> DEFINE h == Event(f.sub, f.depth)
             r == Mark(f.sub, meta[f.sub])
  <2>1. stack[t] # <<>> /\ f.op # "wake" /\ UNCHANGED reentry
    BY <1>7 DEF FreezeResult, At
  <2>2. h.op # "wake" /\ r.op # "wake"
    BY DEF Event, Mark
  <2>3. CASE ~Installed(f.sub)
    BY <1>7, <2>1, <2>3, ReturnStep DEF FreezeResult
  <2>4. CASE Installed(f.sub) /\ tree[f.sub] = f.code
    <3>1. Continue(t, <<r>>)
      BY <1>7, <2>4 DEF FreezeResult, Bind
    <3> QED
      BY <2>1, <2>2, <3>1, BecomeStep
  <2>5. CASE Installed(f.sub) /\ tree[f.sub] # f.code
    <3>1. Continue(t, <<h>> \o <<r>>)
      BY <1>7, <2>5 DEF FreezeResult, Bind
    <3> HIDE DEF h, r
    <3>2. <<h>> \o <<r>> = <<h, r>>
      BY Calls
    <3>3. Continue(t, <<h, r>>)
      BY <3>1, <3>2
    <3> QED
      BY <2>1, <2>2, <3>3, CallStep
  <2> QED
    BY <2>3, <2>4, <2>5
<1>8. CASE MarkFrozen(t)
  BY <1>8, ReturnStep DEF MarkFrozen, At
<1>9. CASE Forget(t)
  BY <1>9, ReturnStep DEF Forget, At
<1>10. CASE Register(t)
  <2>1. Call("evaluate_now", f.sub).op # "wake"
    BY DEF Call
  <2> QED
    BY <1>10, <2>1, BecomeStep DEF Register, At
<1>11. CASE EvaluateNow(t)
  <2>1. stack[t] # <<>> /\ f.op # "wake" /\ UNCHANGED reentry
    BY <1>11 DEF EvaluateNow, At
  <2>2. Evaluate(f.sub, meta[f.sub].grant, 0).op # "wake"
    BY DEF Evaluate
  <2>3. CASE Installed(f.sub)
    BY <1>11, <2>1, <2>2, <2>3, BecomeStep DEF EvaluateNow
  <2>4. CASE ~Installed(f.sub)
    BY <1>11, <2>1, <2>4, ReturnStep DEF EvaluateNow
  <2> QED
    BY <2>3, <2>4
<1>12. CASE Unbind(t)
  BY <1>12, ReturnStep DEF Unbind, At
<1> QED
  BY <1>1, <1>2, <1>3, <1>4, <1>5, <1>6, <1>7, <1>8, <1>9, <1>10, <1>11, <1>12 DEF Run

\* So does a step that moves no stack and no counter.
LEMMA UnmovedKeepsCount ==
    ASSUME IInv, UNCHANGED <<stack, reentry>>
    PROVE  IInv'
<1>1. Stacks'
  BY DEF IInv, Stacks
<1> QED
  BY <1>1, WakesUnchanged DEF IInv

\* Every step of the peer keeps the invariant.
LEMMA StepKeepsCount == IInv /\ [PeerNext]_peerVars => IInv'
<1> SUFFICES ASSUME IInv, [PeerNext]_peerVars PROVE IInv'
  OBVIOUS
<1>1. CASE Rest \/ UNCHANGED peerVars
  BY <1>1, UnmovedKeepsCount DEF Rest, peerVars, vars
<1>2. CASE Restart
  BY <1>2, RestartStep
<1>3. ASSUME NEW s, Rebuild(s) PROVE IInv'
  BY <1>3, UnmovedKeepsCount DEF Rebuild
<1>4. ASSUME NEW g, Expire(g) PROVE IInv'
  BY <1>4, UnmovedKeepsCount DEF Expire
<1>5. ASSUME NEW t \in Threads, Arrive(t) PROVE IInv'
  BY <1>5, RequestKeepsCount DEF Arrive
<1>6. ASSUME NEW t \in Threads, Serve(t) PROVE IInv'
  BY <1>6, RunKeepsCount DEF Serve
<1> QED
  BY <1>1, <1>2, <1>3, <1>4, <1>5, <1>6 DEF PeerNext

--------------------------------------------------------------------------------
\* The wake-ups on one stack are among those its counter counts.
LEMMA CountBoundsStack == IInv => StackBounded
<1> SUFFICES ASSUME IInv, NEW t \in Threads
             PROVE  Cardinality(Frames(t, "wake")) <= ReentryLimit
  BY DEF StackBounded
<1> DEFINE s == stack[t]
           F == Frames(t, "wake")
           W == WakesOf(Counter(t))
           number == [i \in F |-> <<t, Len(s) + 1 - i>>]
<1>1. PICK X : s \in Seq(X)
  BY DEF IInv, Stacks
<1>2. Len(s) \in Nat /\ DOMAIN s = 1 .. Len(s)
  BY <1>1
<1>3. \A i \in F : i \in 1 .. Len(s) /\ s[i].op = "wake"
  BY <1>2 DEF Frames
<1>4. ASSUME NEW i \in F PROVE number[i] \in W
  <2>1. Len(s) + 1 - i \in 1 .. Len(s) /\ Frame(s, Len(s) + 1 - i) = s[i]
    BY <1>2, <1>3 DEF Frame
  <2>2. Len(s) + 1 - i \in WakesIn(s)
    BY <1>3, <2>1 DEF WakesIn
  <2> QED
    BY <2>1, <2>2 DEF WakesOf
<1>5. \A i, j \in F : number[i] = number[j] => i = j
  <2> SUFFICES ASSUME NEW i \in F, NEW j \in F, Len(s) + 1 - i = Len(s) + 1 - j PROVE i = j
    OBVIOUS
  <2> QED
    BY <1>2, <1>3
<1>6. number \in Injection(F, W)
  BY <1>4, <1>5 DEF Injection, IsInjective
<1>7. /\ IsFiniteSet(W) /\ Cardinality(W) \in Nat /\ Cardinality(W) <= ReentryLimit
  <2>1. Counter(t) \in Counters
    BY DEF Counter, Counters
  <2> QED
    BY <2>1, FS_CardinalityType DEF IInv, Counted
<1>8. IsFiniteSet(F) /\ Cardinality(F) <= Cardinality(W) /\ Cardinality(F) \in Nat
  <2> HIDE DEF F, W, number
  <2> QED
    BY <1>6, <1>7, FS_Injection, FS_CardinalityType
<1> QED
  BY <1>7, <1>8, EngineAssumption DEF ReentryLimit

--------------------------------------------------------------------------------
(***************************************************************************)
(* What a step does to a stack, and to everything else.                    *)
(***************************************************************************)
Frozen(s) == Installed(s) /\ meta[s].status = "frozen"

\* The call f turns into h ...
Turns(t, f, h) ==
    \/ /\ f.op = "event"
       /\ \/ OverBackstop(t) /\ h = Refuse(index[f.path], f.depth)
          \/ ~OverBackstop(t) /\ h = Wake(index[f.path], f.depth)
    \/ f.op = "wake" /\ f.todo # <<>> /\ Frozen(Head(f.todo)) /\ h = Wake(Tail(f.todo), f.depth)
    \/ /\ f.op = "evaluate"
       /\ \/ f.grant \in expired /\ h = Freeze(f.sub, "installation_grant_invalid", f.depth)
          \/ expr[f.sub] = Unset /\ h = Call("forget", f.sub)
          \/ /\ f.grant \notin expired /\ expr[f.sub] # Unset
             /\ h = Publish(f.sub, Outcome(expr[f.sub]), f.depth)
    \/ f.op = "publish" /\ \E d : h = Event(f.sub, d)
    \/ f.op = "freeze" /\ Installed(f.sub) /\ tree[f.sub] = f.code /\ h = Mark(f.sub, meta[f.sub])
    \/ f.op = "register" /\ h = Call("evaluate_now", f.sub)
    \/ f.op = "evaluate_now" /\ Installed(f.sub) /\ h = Evaluate(f.sub, meta[f.sub].grant, 0)

\* ... or returns ...
Ends(f) ==
    \/ f.op = "event" /\ index[f.path] = <<>>
    \/ f.op \in {"wake", "refuse"} /\ f.todo = <<>>
    \/ f.op = "publish" /\ tree[f.sub] = f.value
    \/ f.op \in {"freeze", "evaluate_now"} /\ ~Installed(f.sub)
    \/ f.op \in {"mark", "forget", "unbind"}

\* ... or makes the call h, and goes on as r when h returns.
Makes(t, f, h, r) ==
    \/ /\ f.op = "wake" /\ f.todo # <<>> /\ r = Wake(Tail(f.todo), f.depth)
       /\ LET s == Head(f.todo)
          IN  \/ ~Installed(s) /\ h = Call("forget", s)
              \/ f.depth >= CascadeLimit /\ h = Freeze(s, "cascade_limit", f.depth)
              \/ /\ Installed(s) /\ ~Frozen(s)
                 /\ h = Evaluate(s, meta[s].grant, f.depth)
                 /\ ~(f.depth >= CascadeLimit)
    \/ /\ f.op = "refuse" /\ f.todo # <<>>
       /\ h = Freeze(Head(f.todo), "cascade_limit", f.depth) /\ r = Refuse(Tail(f.todo), f.depth)
    \/ /\ f.op = "freeze" /\ Installed(f.sub)
       /\ h = Event(f.sub, f.depth) /\ r = Mark(f.sub, meta[f.sub])

GoesOnAs(t, f) ==
    \/ Continue(t, <<>>) /\ Ends(f)
    \/ \E h : Continue(t, <<h>>) /\ Turns(t, f, h)
    \/ \E h, r : Continue(t, <<h, r>>) /\ Makes(t, f, h, r)

\* The state a call may change, by its kind.
Effects(t, f) ==
    /\ UNCHANGED <<expr, expired>>
    /\ f.op = "publish" => tree' = [tree EXCEPT ![f.sub] = f.value]
    /\ f.op = "freeze" => tree' = IF Installed(f.sub) THEN [tree EXCEPT ![f.sub] = f.code] ELSE tree
    /\ f.op \notin {"publish", "freeze"} => UNCHANGED tree
    /\ f.op = "mark" => meta' = [meta EXCEPT ![f.sub] = [f.meta EXCEPT !.status = "frozen"]]
    /\ f.op = "unbind" => meta' = [meta EXCEPT ![f.sub] = Unset]
    /\ f.op \notin {"mark", "unbind"} => UNCHANGED meta
    /\ f.op = "forget" => index' = Removed(f.sub)
    /\ f.op = "register" =>
          index' = [p \in Paths |-> IF Contains(f.reads, p) THEN Append(Removed(f.sub)[p], f.sub)
                                                            ELSE Removed(f.sub)[p]]
    /\ f.op \notin {"forget", "register"} => UNCHANGED index
    /\ f.op \notin {"event", "wake"} => UNCHANGED reentry
    /\ f.op = "event" /\ OverBackstop(t) => UNCHANGED reentry

\* Each step of a thread is one of those.
LEMMA RunFollows ==
    ASSUME NEW t \in Threads, Run(t)
    PROVE  stack[t] # <<>> /\ GoesOnAs(t, Top(t)) /\ Effects(t, Top(t))
<1> DEFINE f == Top(t)
           Goal == stack[t] # <<>> /\ GoesOnAs(t, f) /\ Effects(t, f)
<1>0. ASSUME NEW h, Continue(t, <<h>>), Turns(t, f, h) PROVE GoesOnAs(t, f)
  BY <1>0 DEF GoesOnAs
<1>r. ASSUME NEW h, NEW r, Continue(t, <<h, r>>), Makes(t, f, h, r) PROVE GoesOnAs(t, f)
  BY <1>r DEF GoesOnAs
<1>1. CASE OnTreeChange(t)
  <2>1. stack[t] # <<>> /\ f.op = "event"
    BY <1>1 DEF OnTreeChange, At
  <2>2. Effects(t, f)
    BY <1>1, <2>1 DEF OnTreeChange, Effects
  <2>3. CASE index[f.path] = <<>>
    BY <1>1, <2>1, <2>2, <2>3 DEF OnTreeChange, GoesOnAs, Ends
  <2>4. CASE index[f.path] # <<>> /\ OverBackstop(t)
    <3> DEFINE h == Refuse(index[f.path], f.depth)
    <3>1. Continue(t, <<h>>)
      BY <1>1, <2>4 DEF OnTreeChange
    <3>2. Turns(t, f, h)
      BY <2>1, <2>4 DEF Turns
    <3> HIDE DEF h
    <3> QED
      BY <1>0, <2>1, <2>2, <3>1, <3>2
  <2>5. CASE index[f.path] # <<>> /\ ~OverBackstop(t)
    <3> DEFINE h == Wake(index[f.path], f.depth)
    <3>1. Continue(t, <<h>>)
      BY <1>1, <2>5 DEF OnTreeChange
    <3>2. Turns(t, f, h)
      BY <2>1, <2>5 DEF Turns
    <3> HIDE DEF h
    <3> QED
      BY <1>0, <2>1, <2>2, <3>1, <3>2
  <2> QED
    BY <2>3, <2>4, <2>5
<1>2. CASE WakeNext(t)
  <2> DEFINE s == Head(f.todo)
             r == Wake(Tail(f.todo), f.depth)
  <2>1. stack[t] # <<>> /\ f.op = "wake" /\ f.todo # <<>>
    BY <1>2 DEF WakeNext, At
  <2>2. Effects(t, f)
    BY <1>2, <2>1 DEF WakeNext, Effects
  <2>3. \A h : Continue(t, <<h>> \o <<r>>) /\ Makes(t, f, h, r) => GoesOnAs(t, f)
    <3> HIDE DEF r, f
    <3>1. \A h : <<h>> \o <<r>> = <<h, r>>
      BY Calls
    <3> QED
      BY <1>r, <3>1
  <2>4. CASE ~Installed(s)
    <3> DEFINE h == Call("forget", s)
    <3>1. Continue(t, <<h>> \o <<r>>)
      BY <1>2, <2>4 DEF WakeNext
    <3>2. Makes(t, f, h, r)
      BY <2>1, <2>4 DEF Makes
    <3> QED
      BY <2>1, <2>2, <2>3, <3>1, <3>2
  <2>5. CASE Frozen(s)
    <3>1. Continue(t, <<>> \o <<r>>)
      BY <1>2, <2>5 DEF WakeNext, Frozen
    <3>2. <<>> \o <<r>> = <<r>>
      BY Calls
    <3>3. Turns(t, f, r)
      BY <2>1, <2>5 DEF Turns
    <3> HIDE DEF r
    <3>4. Continue(t, <<r>>)
      BY <3>1, <3>2
    <3> QED
      BY <1>0, <2>1, <2>2, <3>3, <3>4
  <2>6. CASE Installed(s) /\ ~Frozen(s) /\ f.depth >= CascadeLimit
    <3> DEFINE h == Freeze(s, "cascade_limit", f.depth)
    <3>1. Continue(t, <<h>> \o <<r>>)
      BY <1>2, <2>6 DEF WakeNext, Frozen
    <3>2. Makes(t, f, h, r)
      BY <2>1, <2>6 DEF Makes
    <3> QED
      BY <2>1, <2>2, <2>3, <3>1, <3>2
  <2>7. CASE Installed(s) /\ ~Frozen(s) /\ ~(f.depth >= CascadeLimit)
    <3> DEFINE h == Evaluate(s, meta[s].grant, f.depth)
    <3>1. Continue(t, <<h>> \o <<r>>)
      BY <1>2, <2>7 DEF WakeNext, Frozen
    <3>2. Makes(t, f, h, r)
      BY <2>1, <2>7 DEF Makes
    <3> QED
      BY <2>1, <2>2, <2>3, <3>1, <3>2
  <2> QED
    BY <2>4, <2>5, <2>6, <2>7 DEF Frozen
<1>3. CASE WakeDone(t)
  <2>1. stack[t] # <<>> /\ f.op = "wake" /\ f.todo = <<>> /\ Continue(t, <<>>)
    BY <1>3 DEF WakeDone, At
  <2> QED
    BY <1>3, <2>1 DEF WakeDone, Effects, GoesOnAs, Ends
<1>4. CASE RefuseNext(t)
  <2>1. stack[t] # <<>> /\ f.op = "refuse"
    BY <1>4 DEF RefuseNext, At
  <2>2. Effects(t, f)
    BY <1>4, <2>1 DEF RefuseNext, Effects
  <2>3. CASE f.todo = <<>>
    BY <1>4, <2>1, <2>2, <2>3 DEF RefuseNext, GoesOnAs, Ends
  <2>4. CASE f.todo # <<>>
    <3> DEFINE h == Freeze(Head(f.todo), "cascade_limit", f.depth)
               r == Refuse(Tail(f.todo), f.depth)
    <3>1. Continue(t, <<h, r>>)
      BY <1>4, <2>4 DEF RefuseNext
    <3>2. Makes(t, f, h, r)
      BY <2>1, <2>4 DEF Makes
    <3> HIDE DEF h, r
    <3> QED
      BY <1>r, <2>1, <2>2, <3>1, <3>2
  <2> QED
    BY <2>3, <2>4
<1>5. CASE ReEvaluate(t)
  <2>1. stack[t] # <<>> /\ f.op = "evaluate"
    BY <1>5 DEF ReEvaluate, At
  <2>2. Effects(t, f)
    BY <1>5, <2>1 DEF ReEvaluate, Effects
  <2>3. \E h : Continue(t, <<h>>) /\ Turns(t, f, h)
    <3>1. CASE f.grant \in expired
      BY <1>5, <2>1, <3>1 DEF ReEvaluate, Turns
    <3>2. CASE f.grant \notin expired /\ expr[f.sub] = Unset
      BY <1>5, <2>1, <3>2 DEF ReEvaluate, Turns
    <3>3. CASE f.grant \notin expired /\ expr[f.sub] # Unset
      BY <1>5, <2>1, <3>3 DEF ReEvaluate, Turns
    <3> QED
      BY <3>1, <3>2, <3>3
  <2> QED
    BY <1>0, <2>1, <2>2, <2>3
<1>6. CASE PublishResult(t)
  <2> DEFINE h == Event(f.sub, IF f.value \in Errors THEN f.depth ELSE f.depth + 1)
  <2>1. stack[t] # <<>> /\ f.op = "publish"
    BY <1>6 DEF PublishResult, At
  <2>2. Effects(t, f)
    BY <1>6, <2>1 DEF PublishResult, Bind, Effects
  <2>3. CASE tree[f.sub] = f.value
    BY <1>6, <2>1, <2>2, <2>3 DEF PublishResult, Bind, GoesOnAs, Ends
  <2>4. CASE tree[f.sub] # f.value
    <3>1. Continue(t, <<h>> \o <<>>)
      BY <1>6, <2>4 DEF PublishResult, Bind
    <3>2. Turns(t, f, h)
      BY <2>1 DEF Turns
    <3> HIDE DEF h
    <3>3. <<h>> \o <<>> = <<h>>
      OBVIOUS
    <3> QED
      BY <1>0, <2>1, <2>2, <3>1, <3>2, <3>3
  <2> QED
    BY <2>3, <2>4
<1>7. CASE FreezeResult(t)
  <2> DEFINE h == Event(f.sub, f.depth)
             r == Mark(f.sub, meta[f.sub])
  <2>1. stack[t] # <<>> /\ f.op = "freeze"
    BY <1>7 DEF FreezeResult, At
  <2>2. Effects(t, f)
    BY <1>7, <2>1 DEF FreezeResult, Bind, Effects
  <2>3. CASE ~Installed(f.sub)
    BY <1>7, <2>1, <2>2, <2>3 DEF FreezeResult, GoesOnAs, Ends
  <2>4. CASE Installed(f.sub) /\ tree[f.sub] = f.code
    <3>1. Continue(t, <<r>>)
      BY <1>7, <2>4 DEF FreezeResult, Bind
    <3>2. Turns(t, f, r)
      BY <2>1, <2>4 DEF Turns
    <3> HIDE DEF r
    <3> QED
      BY <1>0, <2>1, <2>2, <3>1, <3>2
  <2>5. CASE Installed(f.sub) /\ tree[f.sub] # f.code
    <3>1. Continue(t, <<h>> \o <<r>>)
      BY <1>7, <2>5 DEF FreezeResult, Bind
    <3>2. Makes(t, f, h, r)
      BY <2>1, <2>5 DEF Makes
    <3> HIDE DEF h, r
    <3>3. <<h>> \o <<r>> = <<h, r>>
      BY Calls
    <3> QED
      BY <1>r, <2>1, <2>2, <3>1, <3>2, <3>3
  <2> QED
    BY <2>3, <2>4, <2>5
<1>8. CASE MarkFrozen(t)
  <2>1. stack[t] # <<>> /\ f.op = "mark" /\ Continue(t, <<>>)
    BY <1>8 DEF MarkFrozen, At
  <2> QED
    BY <1>8, <2>1 DEF MarkFrozen, Effects, GoesOnAs, Ends
<1>9. CASE Forget(t)
  <2>1. stack[t] # <<>> /\ f.op = "forget" /\ Continue(t, <<>>)
    BY <1>9 DEF Forget, At
  <2> QED
    BY <1>9, <2>1 DEF Forget, Effects, GoesOnAs, Ends
<1>10. CASE Register(t)
  <2> DEFINE h == Call("evaluate_now", f.sub)
  <2>1. stack[t] # <<>> /\ f.op = "register" /\ Continue(t, <<h>>)
    BY <1>10 DEF Register, At
  <2>2. Effects(t, f)
    BY <1>10, <2>1 DEF Register, Effects
  <2>3. Turns(t, f, h)
    BY <2>1 DEF Turns
  <2> HIDE DEF h
  <2> QED
    BY <1>0, <2>1, <2>2, <2>3
<1>11. CASE EvaluateNow(t)
  <2> DEFINE h == Evaluate(f.sub, meta[f.sub].grant, 0)
  <2>1. stack[t] # <<>> /\ f.op = "evaluate_now"
    BY <1>11 DEF EvaluateNow, At
  <2>2. Effects(t, f)
    BY <1>11, <2>1 DEF EvaluateNow, Effects
  <2>3. CASE ~Installed(f.sub)
    BY <1>11, <2>1, <2>2, <2>3 DEF EvaluateNow, GoesOnAs, Ends
  <2>4. CASE Installed(f.sub)
    <3>1. Continue(t, <<h>>)
      BY <1>11, <2>4 DEF EvaluateNow
    <3>2. Turns(t, f, h)
      BY <2>1, <2>4 DEF Turns
    <3> HIDE DEF h
    <3> QED
      BY <1>0, <2>1, <2>2, <3>1, <3>2
  <2> QED
    BY <2>3, <2>4
<1>12. CASE Unbind(t)
  <2>1. stack[t] # <<>> /\ f.op = "unbind" /\ Continue(t, <<>>)
    BY <1>12 DEF Unbind, At
  <2> QED
    BY <1>12, <2>1 DEF Unbind, Effects, GoesOnAs, Ends
<1> QED
  BY <1>1, <1>2, <1>3, <1>4, <1>5, <1>6, <1>7, <1>8, <1>9, <1>10, <1>11, <1>12 DEF Run

\* The innermost call has the last number.
LEMMA TopIsLast ==
    ASSUME IInv, NEW t \in Threads, stack[t] # <<>>
    PROVE  Len(stack[t]) \in Nat \ {0} /\ Top(t) = Frame(stack[t], Len(stack[t]))
<1>1. PICK X : stack[t] \in Seq(X)
  BY DEF IInv, Stacks
<1> QED
  BY <1>1 DEF Frame, Top

--------------------------------------------------------------------------------
(***************************************************************************)
(* Who freezes for cascade_limit is at fault itself, wherever a counter    *)
(* counts the wake-ups of one stack: each thread has a counter of its own, *)
(* or one thread serves.                                                   *)
(***************************************************************************)
OwnCounters == SharedReentry => \E t : Threads = {t}

\* Calls that freeze for cascade_limit or are about to.
Blames(f) == f.op = "refuse" \/ (f.op = "freeze" /\ f.code = "cascade_limit")

\* The wake-ups of stack s that call number n was made in.
Around(s, n) == {m \in WakesIn(s) : m < n}
Founded(f, s, n) == f.depth >= CascadeLimit \/ Cardinality(Around(s, n)) >= ReentryLimit
Reasons(s) == \A n \in 1 .. Len(s) : Blames(Frame(s, n)) => Founded(Frame(s, n), s, n)
ReasonsGiven == \A t \in Threads : Reasons(stack[t])

\* More wake-ups are around a call than around one that it is deeper than.
LEMMA DeeperIsInMore ==
    ASSUME NEW r, NEW s, NEW fs, Replaced(r, s, fs), NEW n \in Len(s) .. Len(r)
    PROVE  /\ IsFiniteSet(Around(r, n)) /\ Cardinality(Around(r, n)) \in Nat
           /\ IsFiniteSet(Around(s, Len(s))) /\ Cardinality(Around(s, Len(s))) \in Nat
           /\ Cardinality(Around(s, Len(s))) <= Cardinality(Around(r, n))
<1>1. Len(s) \in Nat \ {0} /\ Len(r) \in Nat /\ n \in Nat
  BY DEF Replaced
<1>2. Around(s, Len(s)) \subseteq Around(r, n)
  <2> SUFFICES ASSUME NEW m \in Around(s, Len(s)) PROVE m \in Around(r, n)
    OBVIOUS
  <2>1. m \in 1 .. Len(s) - 1 /\ Frame(s, m).op = "wake"
    BY <1>1 DEF Around, WakesIn
  <2>2. Frame(r, m) = Frame(s, m) /\ m \in 1 .. Len(r) /\ m < n
    BY <1>1, <2>1 DEF Replaced
  <2> QED
    BY <2>1, <2>2 DEF Around, WakesIn
<1>3. IsFiniteSet(1 .. Len(r)) /\ Around(r, n) \subseteq 1 .. Len(r)
  BY <1>1, FS_Interval DEF Around, WakesIn
<1>4. IsFiniteSet(Around(r, n))
  BY <1>3, FS_Subset
<1> QED
  BY <1>2, <1>4, FS_Subset, FS_CardinalityType

\* A call that goes on gives reasons if what it goes on as does.
LEMMA ReasonsKept ==
    ASSUME NEW r, NEW s, NEW fs, Replaced(r, s, fs), Reasons(s),
           \A i \in 1 .. Len(fs) : Blames(fs[i]) => Founded(fs[i], s, Len(s))
    PROVE  Reasons(r)
<1>1. Len(s) \in Nat \ {0} /\ Len(fs) \in Nat /\ Len(r) = Len(s) - 1 + Len(fs)
  BY DEF Replaced
<1>2. SUFFICES ASSUME NEW n \in 1 .. Len(r), Blames(Frame(r, n))
               PROVE  Founded(Frame(r, n), r, n)
  BY DEF Reasons
<1>3. CASE n \in 1 .. Len(s) - 1
  <2>1. Frame(r, n) = Frame(s, n) /\ n \in 1 .. Len(s)
    BY <1>1, <1>3 DEF Replaced
  <2>2. Founded(Frame(s, n), s, n)
    BY <1>2, <2>1 DEF Reasons
  <2>3. Around(r, n) = Around(s, n)
    <3>1. \A m \in 1 .. Len(s) - 1 : m \in WakesIn(r) <=> m \in WakesIn(s)
      BY <1>1 DEF WakesIn, Replaced
    <3>2. /\ \A m \in WakesIn(r) : m < n => m \in 1 .. Len(s) - 1
          /\ \A m \in WakesIn(s) : m < n => m \in 1 .. Len(s) - 1
      BY <1>1, <1>3 DEF WakesIn
    <3> QED
      BY <3>1, <3>2 DEF Around
  <2> QED
    BY <2>1, <2>2, <2>3 DEF Founded
<1>4. CASE n \in Len(s) .. Len(r)
  <2> DEFINE i == Len(fs) + Len(s) - n
  <2>1. i \in 1 .. Len(fs) /\ Frame(r, n) = fs[i]
    BY <1>1, <1>4 DEF Replaced
  <2>2. Founded(fs[i], s, Len(s))
    BY <1>2, <2>1
  <2>3. /\ Cardinality(Around(s, Len(s))) \in Nat /\ Cardinality(Around(r, n)) \in Nat
        /\ Cardinality(Around(s, Len(s))) <= Cardinality(Around(r, n))
    BY <1>4, DeeperIsInMore
  <2>4. ReentryLimit \in Nat
    BY EngineAssumption DEF ReentryLimit
  <2> HIDE DEF i
  <2> QED
    BY <2>1, <2>2, <2>3, <2>4 DEF Founded
<1> QED
  BY <1>1, <1>3, <1>4

\* The same of the stacks of all threads.
LEMMA ReasonsStep ==
    ASSUME IInv, ReasonsGiven, NEW t \in Threads, stack[t] # <<>>, NEW Y, NEW fs \in Seq(Y),
           Continue(t, fs),
           \A i \in 1 .. Len(fs) : Blames(fs[i]) => Founded(fs[i], stack[t], Len(stack[t]))
    PROVE  ReasonsGiven'
<1>1. /\ Replaced(stack'[t], stack[t], fs)
      /\ \A u \in Threads \ {t} : stack'[u] = stack[u]
  BY Continued DEF IInv
<1>2. Reasons(stack'[t])
  BY <1>1, ReasonsKept DEF ReasonsGiven
<1> QED
  BY <1>1, <1>2 DEF ReasonsGiven

\* A call returns ...
LEMMA ReasonsReturn ==
    ASSUME IInv, ReasonsGiven, NEW t \in Threads, stack[t] # <<>>, Continue(t, <<>>)
    PROVE  ReasonsGiven'
<1>1. <<>> \in Seq({}) /\ Len(<<>>) = 0
  OBVIOUS
<1>2. \A i \in 1 .. Len(<<>>) : Blames(<<>>[i]) => Founded(<<>>[i], stack[t], Len(stack[t]))
  BY <1>1
<1> QED
  BY <1>1, <1>2, ReasonsStep

\* ... or goes on as another one ...
LEMMA ReasonsBecome ==
    ASSUME IInv, ReasonsGiven, NEW t \in Threads, stack[t] # <<>>, NEW f, Continue(t, <<f>>),
           Blames(f) => Founded(f, stack[t], Len(stack[t]))
    PROVE  ReasonsGiven'
<1>1. <<f>> \in Seq({f}) /\ Len(<<f>>) = 1 /\ <<f>>[1] = f
  OBVIOUS
<1>2. \A i \in 1 .. Len(<<f>>) : Blames(<<f>>[i]) => Founded(<<f>>[i], stack[t], Len(stack[t]))
  BY <1>1
<1> QED
  BY <1>1, <1>2, ReasonsStep

\* ... or makes one.
LEMMA ReasonsCall ==
    ASSUME IInv, ReasonsGiven, NEW t \in Threads, stack[t] # <<>>, NEW f, NEW h,
           Continue(t, <<f, h>>),
           Blames(f) => Founded(f, stack[t], Len(stack[t])),
           Blames(h) => Founded(h, stack[t], Len(stack[t]))
    PROVE  ReasonsGiven'
<1>1. <<f, h>> \in Seq({f, h}) /\ Len(<<f, h>>) = 2 /\ <<f, h>>[1] = f /\ <<f, h>>[2] = h
  OBVIOUS
<1>2. ASSUME NEW i \in 1 .. Len(<<f, h>>)
      PROVE  Blames(<<f, h>>[i]) => Founded(<<f, h>>[i], stack[t], Len(stack[t]))
  BY <1>1
<1> QED
  BY <1>1, <1>2, ReasonsStep

\* Over the backstop the thread itself is that deep in wake-ups.
LEMMA BackstopIsFounded ==
    ASSUME OwnCounters, IInv, NEW t \in Threads, stack[t] # <<>>, Top(t).op # "wake",
           OverBackstop(t)
    PROVE  Cardinality(Around(stack[t], Len(stack[t]))) >= ReentryLimit
<1> DEFINE s == stack[t]
           A == Around(s, Len(s))
           W == WakesOf(Counter(t))
           number == [w \in W |-> w[2]]
<1>1. PICK X : s \in Seq(X)
  BY DEF IInv, Stacks
<1>2. Len(s) \in Nat \ {0} /\ Frame(s, Len(s)) = Top(t)
  BY <1>1 DEF Frame, Top
<1>3. \A w \in W : w[1] = t
  BY DEF OwnCounters, WakesOf, Counter
<1>4. ASSUME NEW w \in W PROVE w[2] \in A
  <2>1. w[2] \in WakesIn(s)
    BY <1>3 DEF WakesOf
  <2>2. w[2] \in 1 .. Len(s) /\ w[2] # Len(s)
    BY <1>2, <2>1 DEF WakesIn
  <2> QED
    BY <1>2, <2>1, <2>2 DEF Around
<1>5. ASSUME NEW v \in W, NEW w \in W, v[2] = w[2] PROVE v = w
  BY <1>3, <1>5 DEF WakesOf
<1>6. number \in Injection(W, A)
  BY <1>4, <1>5 DEF Injection, IsInjective
<1>7. IsFiniteSet(A)
  <2>1. IsFiniteSet(1 .. Len(s)) /\ A \subseteq 1 .. Len(s)
    BY <1>2, FS_Interval DEF Around, WakesIn
  <2> QED
    BY <2>1, FS_Subset
<1>8. Cardinality(W) <= Cardinality(A) /\ Cardinality(A) \in Nat
  <2> HIDE DEF A, W, number
  <2> QED
    BY <1>6, <1>7, FS_Injection, FS_CardinalityType
<1>9. Cardinality(W) \in Nat /\ Cardinality(W) = reentry[Counter(t)] /\ reentry[Counter(t)] >= ReentryLimit
  <2>1. Counter(t) \in Counters
    BY DEF Counter, Counters
  <2> QED
    BY <2>1, FS_CardinalityType DEF IInv, Counted, OverBackstop
<1>10. ReentryLimit \in Nat
  BY EngineAssumption DEF ReentryLimit
<1> HIDE DEF A, W, s
<1>11. Cardinality(A) >= ReentryLimit
  BY <1>8, <1>9, <1>10
<1> QED
  BY <1>11 DEF A, s

\* Each step of a call gives its reasons.
LEMMA RunGivesReasons ==
    ASSUME OwnCounters, IInv, ReasonsGiven, NEW t \in Threads, Run(t)
    PROVE  ReasonsGiven'
<1>0. PICK f : f = Top(t)
  OBVIOUS
<1>1. stack[t] # <<>> /\ GoesOnAs(t, f)
  BY <1>0, RunFollows
<1>2. CASE Continue(t, <<>>)
  BY <1>1, <1>2, ReasonsReturn
<1>3. ASSUME NEW h, Continue(t, <<h>>), Turns(t, f, h) PROVE ReasonsGiven'
  <2>1. Blames(h) => f.op = "event" /\ OverBackstop(t)
    BY <1>3 DEF Turns, Blames, Wake, Freeze, Call, Publish, Event, Mark, Evaluate
  <2>2. Blames(h) => Founded(h, stack[t], Len(stack[t]))
    BY <1>0, <1>1, <2>1, BackstopIsFounded DEF Founded
  <2> QED
    BY <1>1, <1>3, <2>2, ReasonsBecome
<1>4. ASSUME NEW h, NEW r, Continue(t, <<h, r>>), Makes(t, f, h, r) PROVE ReasonsGiven'
  <2>1. CASE f.op = "wake"
    <3>1. ~Blames(r)
      BY <1>4, <2>1 DEF Makes, Blames, Wake
    <3>2. Blames(h) => h.depth >= CascadeLimit
      BY <1>4, <2>1 DEF Makes, Blames, Call, Freeze, Evaluate
    <3>3. Blames(h) => Founded(h, stack[t], Len(stack[t]))
      BY <3>2 DEF Founded
    <3> QED
      BY <1>1, <1>4, <3>1, <3>3, ReasonsCall
  <2>2. CASE f.op = "refuse"
    <3>1. Founded(f, stack[t], Len(stack[t]))
      <4>1. Len(stack[t]) \in 1 .. Len(stack[t]) /\ Frame(stack[t], Len(stack[t])) = f
        BY <1>0, <1>1, TopIsLast
      <4> QED
        BY <2>2, <4>1 DEF ReasonsGiven, Reasons, Blames
    <3>2. Founded(h, stack[t], Len(stack[t])) /\ Founded(r, stack[t], Len(stack[t]))
      BY <1>4, <2>2, <3>1 DEF Makes, Founded, Freeze, Refuse
    <3> QED
      BY <1>1, <1>4, <3>2, ReasonsCall
  <2>3. CASE f.op = "freeze"
    <3>1. ~Blames(h) /\ ~Blames(r)
      BY <1>4, <2>3 DEF Makes, Blames, Event, Mark
    <3> QED
      BY <1>1, <1>4, <3>1, ReasonsCall
  <2> QED
    BY <1>4, <2>1, <2>2, <2>3 DEF Makes
<1> QED
  BY <1>1, <1>2, <1>3, <1>4 DEF GoesOnAs

\* A stack with at most one call, that of a request just made, blames nobody.
LEMMA RequestGivesReasons ==
    ASSUME IInv, ReasonsGiven, NEW t \in Threads, Request(t)
    PROVE  ReasonsGiven'
<1>1. ASSUME NEW f, ~Blames(f), stack' = [stack EXCEPT ![t] = <<f>>] PROVE ReasonsGiven'
  <2>1. stack'[t] = <<f>> /\ \A u \in Threads \ {t} : stack'[u] = stack[u]
    BY <1>1 DEF IInv, Stacks
  <2>2. Reasons(<<f>>)
    <3>1. Len(<<f>>) = 1 /\ \A n \in 1 .. 1 : Frame(<<f>>, n) = f
      BY DEF Frame
    <3> QED
      BY <1>1, <3>1 DEF Reasons
  <2> QED
    BY <2>1, <2>2 DEF ReasonsGiven
<1>2. ASSUME NEW p, NEW v, Put(t, p, v) PROVE ReasonsGiven'
  <2>1. ~Blames(Event(p, 0))
    BY DEF Blames, Event
  <2>2. stack' = [stack EXCEPT ![t] = <<Event(p, 0)>>]
    BY <1>2 DEF Put
  <2> QED
    BY <1>1, <2>1, <2>2
<1>3. ASSUME NEW s, NEW g, Install(t, s, g) PROVE ReasonsGiven'
  <2>1. ~Blames(Registration(s, Reads[expr[s]]))
    BY DEF Blames, Registration
  <2>2. stack' = [stack EXCEPT ![t] = <<Registration(s, Reads[expr[s]])>>]
    BY <1>3 DEF Install
  <2> QED
    BY <1>1, <2>1, <2>2
<1>4. ASSUME NEW s, Uninstall(t, s) PROVE ReasonsGiven'
  <2>1. ~Blames(Call("unbind", s))
    BY DEF Blames, Call
  <2>2. stack' = [stack EXCEPT ![t] = <<Call("unbind", s)>>]
    BY <1>4 DEF Uninstall
  <2> QED
    BY <1>1, <2>1, <2>2
<1>5. ASSUME NEW s, NEW e, Edit(t, s, e) PROVE ReasonsGiven'
  BY <1>5 DEF Edit, ReasonsGiven
<1> QED
  BY <1>2, <1>3, <1>4, <1>5 DEF Request

\* An empty stack blames nobody.
LEMMA InitGivesReasons == PeerInit => ReasonsGiven
  BY DEF PeerInit, Init, ReasonsGiven, Reasons

\* Every step of the peer gives its reasons.
LEMMA StepGivesReasons ==
    OwnCounters /\ IInv /\ ReasonsGiven /\ [PeerNext]_peerVars => ReasonsGiven'
<1> SUFFICES ASSUME OwnCounters, IInv, ReasonsGiven, [PeerNext]_peerVars PROVE ReasonsGiven'
  OBVIOUS
<1>1. CASE UNCHANGED stack
  BY <1>1 DEF ReasonsGiven
<1>2. CASE Rest \/ UNCHANGED peerVars
  BY <1>1, <1>2 DEF Rest, peerVars, vars
<1>3. CASE Restart
  BY <1>3 DEF Restart, ReasonsGiven, Reasons
<1>4. ASSUME NEW s, Rebuild(s) PROVE ReasonsGiven'
  BY <1>1, <1>4 DEF Rebuild
<1>5. ASSUME NEW g, Expire(g) PROVE ReasonsGiven'
  BY <1>1, <1>5 DEF Expire
<1>6. ASSUME NEW t \in Threads, Arrive(t) PROVE ReasonsGiven'
  BY <1>6, RequestGivesReasons DEF Arrive
<1>7. ASSUME NEW t \in Threads, Serve(t) PROVE ReasonsGiven'
  BY <1>7, RunGivesReasons DEF Serve
<1> QED
  BY <1>2, <1>3, <1>4, <1>5, <1>6, <1>7 DEF PeerNext

\* The wake-ups around a call are on its thread's stack.
LEMMA ReasonsJustify == IInv /\ ReasonsGiven => CascadeFreezeJustified
<1> SUFFICES ASSUME IInv, ReasonsGiven, NEW t \in Threads, NEW i \in Frames(t, "freeze"),
                    stack[t][i].code = "cascade_limit", ~(stack[t][i].depth >= CascadeLimit)
             PROVE  Cardinality(Frames(t, "wake")) >= ReentryLimit
  BY DEF CascadeFreezeJustified
<1> DEFINE s == stack[t]
           n == Len(s) + 1 - i
           A == Around(s, n)
           F == Frames(t, "wake")
           place == [m \in A |-> Len(s) + 1 - m]
<1>1. PICK X : s \in Seq(X)
  BY DEF IInv, Stacks
<1>2. Len(s) \in Nat /\ DOMAIN s = 1 .. Len(s)
  BY <1>1
<1>3. i \in 1 .. Len(s) /\ s[i].op = "freeze"
  BY <1>2 DEF Frames
<1>4. n \in 1 .. Len(s) /\ Frame(s, n) = s[i]
  BY <1>2, <1>3 DEF Frame
<1>5. Cardinality(A) >= ReentryLimit
  <2>1. Reasons(s) /\ Blames(s[i])
    BY <1>3 DEF ReasonsGiven, Blames
  <2>2. Founded(s[i], s, n)
    <3> HIDE DEF s, n
    <3> QED
      BY <1>4, <2>1 DEF Reasons
  <2> QED
    BY <2>2 DEF Founded
<1>6. ASSUME NEW m \in A PROVE place[m] \in F
  <2>1. m \in 1 .. Len(s) /\ Frame(s, m).op = "wake"
    BY DEF Around, WakesIn
  <2>2. Len(s) + 1 - m \in 1 .. Len(s) /\ s[Len(s) + 1 - m].op = "wake"
    BY <1>2, <2>1 DEF Frame
  <2> QED
    BY <1>2, <2>2 DEF Frames
<1>7. ASSUME NEW l \in A, NEW m \in A, place[l] = place[m] PROVE l = m
  <2>1. l \in 1 .. Len(s) /\ m \in 1 .. Len(s) /\ Len(s) + 1 - l = Len(s) + 1 - m
    BY <1>7 DEF Around, WakesIn
  <2> QED
    BY <1>2, <2>1
<1>8. place \in Injection(A, F)
  BY <1>6, <1>7 DEF Injection, IsInjective
<1>9. IsFiniteSet(F)
  <2>1. IsFiniteSet(1 .. Len(s)) /\ F \subseteq 1 .. Len(s)
    BY <1>2, FS_Interval DEF Frames
  <2> QED
    BY <2>1, FS_Subset
<1>10. /\ IsFiniteSet(A) /\ Cardinality(A) <= Cardinality(F)
       /\ Cardinality(A) \in Nat /\ Cardinality(F) \in Nat
  <2> HIDE DEF A, F, place
  <2> QED
    BY <1>8, <1>9, FS_Injection, FS_CardinalityType
<1>11. ReentryLimit \in Nat
  BY EngineAssumption DEF ReentryLimit
<1> HIDE DEF A, F
<1>12. Cardinality(F) >= ReentryLimit
  BY <1>5, <1>10, <1>11
<1> QED
  BY <1>12 DEF F

--------------------------------------------------------------------------------
(***************************************************************************)
(* The index while one thread serves.                                      *)
(***************************************************************************)

\* A list less the entries for s is defined entry by entry.
LEMMA KeptStepwise ==
    ASSUME NEW X, NEW q \in Seq(X), NEW s
    PROVE  LET kept == KeptUpTo(q, s)
           IN  /\ kept[0] = <<>>
               /\ \A i \in 1 .. Len(q) :
                     kept[i] = IF q[i] = s THEN kept[i - 1] ELSE Append(kept[i - 1], q[i])
<1> DEFINE m == Len(q)
           Is(k) == k = [i \in 0 .. m |-> IF i = 0 THEN <<>>
                                          ELSE IF q[i] = s THEN k[i - 1] ELSE Append(k[i - 1], q[i])]
           step == [i \in 1 .. m |-> [l \in Seq(X) |-> IF q[i] = s THEN l ELSE Append(l, q[i])]]
           kept == KeptUpTo(q, s)
<1>1. m \in Nat /\ \A i \in 1 .. m : q[i] \in X
  OBVIOUS
<1>2. step \in [1 .. m -> [Seq(X) -> Seq(X)]]
  BY <1>1
<1>3. \A i \in 1 .. m, l \in Seq(X) : step[i][l] = IF q[i] = s THEN l ELSE Append(l, q[i])
  BY <1>1
<1> HIDE DEF m, step
<1>4. <<>> \in Seq(X)
  OBVIOUS
<1>5. PICK g : Recurs(m, Seq(X), <<>>, step, g)
  BY <1>1, <1>2, <1>4, RecursionExists
<1>6. \A i \in 1 .. m : g[i] = IF q[i] = s THEN g[i - 1] ELSE Append(g[i - 1], q[i])
  <2> SUFFICES ASSUME NEW i \in 1 .. m
               PROVE  g[i] = IF q[i] = s THEN g[i - 1] ELSE Append(g[i - 1], q[i])
    OBVIOUS
  <2>1. i - 1 \in 0 .. m
    BY <1>1
  <2>2. g[i] = step[i][g[i - 1]] /\ g[i - 1] \in Seq(X)
    BY <1>5, <2>1 DEF Recurs
  <2> QED
    BY <1>3, <2>2
<1>7. Is(g)
  <2>1. \A i \in 0 .. m : i = 0 \/ i \in 1 .. m
    BY <1>1
  <2>2. \A i \in 0 .. m : g[i] = IF i = 0 THEN <<>>
                                ELSE IF q[i] = s THEN g[i - 1] ELSE Append(g[i - 1], q[i])
    BY <1>5, <1>6, <2>1 DEF Recurs
  <2>3. g = [i \in 0 .. m |-> g[i]]
    BY <1>5 DEF Recurs
  <2> QED
    BY <2>2, <2>3
<1>8. kept = CHOOSE k : Is(k)
  BY DEF KeptUpTo, m
<1>9. Is(kept)
  <2> HIDE DEF Is, kept
  <2> QED
    BY <1>7, <1>8
<1> HIDE DEF kept
<1>10. kept[0] = <<>>
  <2>1. 0 \in 0 .. m
    BY <1>1
  <2> QED
    BY <1>9, <2>1
<1>11. ASSUME NEW i \in 1 .. m
       PROVE  kept[i] = IF q[i] = s THEN kept[i - 1] ELSE Append(kept[i - 1], q[i])
  <2>1. i \in 0 .. m /\ i # 0
    BY <1>1
  <2> QED
    BY <1>9, <2>1
<1> QED
  BY <1>10, <1>11 DEF kept, m

\* What is appended is in the list then, and what was in it.
LEMMA AppendAdds ==
    ASSUME NEW X, NEW l \in Seq(X), NEW x \in X
    PROVE  /\ Append(l, x) \in Seq(X)
           /\ \A y : Contains(Append(l, x), y) <=> y = x \/ Contains(l, y)
<1>1. /\ Append(l, x) \in Seq(X) /\ Len(Append(l, x)) = Len(l) + 1 /\ Len(l) \in Nat
      /\ \A i \in 1 .. Len(l) : Append(l, x)[i] = l[i]
      /\ Append(l, x)[Len(l) + 1] = x
  OBVIOUS
<1>2. \A i \in 1 .. Len(l) + 1 : i \in 1 .. Len(l) \/ i = Len(l) + 1
  BY <1>1
<1>3. ASSUME NEW y, Contains(Append(l, x), y) PROVE y = x \/ Contains(l, y)
  BY <1>1, <1>2, <1>3 DEF Contains
<1>4. ASSUME NEW y, Contains(l, y) PROVE Contains(Append(l, x), y)
  <2>1. PICK i \in 1 .. Len(l) : l[i] = y
    BY <1>4 DEF Contains
  <2>2. i \in 1 .. Len(l) + 1 /\ Append(l, x)[i] = y
    BY <1>1, <2>1
  <2> QED
    BY <1>1, <2>2 DEF Contains
<1>5. Contains(Append(l, x), x)
  <2>1. Len(l) + 1 \in 1 .. Len(l) + 1
    BY <1>1
  <2> QED
    BY <1>1, <2>1 DEF Contains
<1> QED
  BY <1>1, <1>3, <1>4, <1>5

\* Removing s from a list takes its entries out, and no others.
LEMMA Removes ==
    ASSUME NEW X, NEW q \in Seq(X), NEW s
    PROVE  /\ KeptUpTo(q, s)[Len(q)] \in Seq(X)
           /\ \A y : Contains(KeptUpTo(q, s)[Len(q)], y) <=> y # s /\ Contains(q, y)
<1> DEFINE kept == KeptUpTo(q, s)
           Had(i, y) == \E j \in 1 .. i : q[j] = y
           Right(i) == /\ kept[i] \in Seq(X)
                       /\ \A y : Contains(kept[i], y) <=> y # s /\ Had(i, y)
           T == {i \in Nat : i <= Len(q) => Right(i)}
<1>1. /\ kept[0] = <<>>
      /\ \A i \in 1 .. Len(q) :
            kept[i] = IF q[i] = s THEN kept[i - 1] ELSE Append(kept[i - 1], q[i])
  BY KeptStepwise
<1> HIDE DEF kept
<1>2. Len(q) \in Nat /\ \A i \in 1 .. Len(q) : q[i] \in X
  OBVIOUS
<1>3. 0 \in T
  <2>1. <<>> \in Seq(X) /\ \A y : ~Contains(<<>>, y)
    BY DEF Contains
  <2>2. \A y : ~Had(0, y)
    OBVIOUS
  <2> HIDE DEF Had
  <2> QED
    BY <1>1, <2>1, <2>2
<1>4. ASSUME NEW i \in T PROVE i + 1 \in T
  <2> SUFFICES ASSUME i + 1 <= Len(q) PROVE Right(i + 1)
    <3> HIDE DEF Right
    <3> QED
      OBVIOUS
  <2>1. Right(i) /\ i + 1 \in 1 .. Len(q) /\ (i + 1) - 1 = i
    <3> HIDE DEF Right
    <3> QED
      BY <1>2
  <2>2. \A y : Had(i + 1, y) <=> Had(i, y) \/ y = q[i + 1]
    <3>1. \A j \in 1 .. i + 1 : j \in 1 .. i \/ j = i + 1
      OBVIOUS
    <3>2. 1 .. i \subseteq 1 .. i + 1 /\ i + 1 \in 1 .. i + 1
      OBVIOUS
    <3> QED
      BY <3>1, <3>2
  <2> HIDE DEF Had
  <2>3. kept[i + 1] = IF q[i + 1] = s THEN kept[i] ELSE Append(kept[i], q[i + 1])
    BY <1>1, <2>1
  <2>4. CASE q[i + 1] = s
    BY <2>1, <2>2, <2>3, <2>4
  <2>5. CASE q[i + 1] # s
    <3>1. /\ Append(kept[i], q[i + 1]) \in Seq(X)
          /\ \A y : Contains(Append(kept[i], q[i + 1]), y) <=> y = q[i + 1] \/ Contains(kept[i], y)
      BY <1>2, <2>1, AppendAdds
    <3> QED
      BY <2>1, <2>2, <2>3, <2>5, <3>1
  <2> QED
    BY <2>4, <2>5
<1>5. T = Nat
  <2> HIDE DEF T
  <2>1. T \in SUBSET Nat
    BY DEF T
  <2> QED
    BY <1>3, <1>4, <2>1, NaturalInduction
<1>6. Right(Len(q))
  <2> HIDE DEF Right
  <2>1. Len(q) \in T
    BY <1>2, <1>5
  <2> QED
    BY <1>2, <2>1
<1>7. \A y : Contains(q, y) <=> Had(Len(q), y)
  BY DEF Contains
<1> HIDE DEF Had
<1> QED
  BY <1>6, <1>7 DEF kept

--------------------------------------------------------------------------------
\* What the state and the calls are made of; calls that are made of wake-ups,
\* refusals and marks alone wait for others, and are the only ones that do.
StateTyped ==
    /\ DOMAIN tree = Paths
    /\ meta \in [Subgraphs -> Metadata \cup {Unset}]
    /\ expr \in [Subgraphs -> Expressions \cup {Unset}]
    /\ index \in [Paths -> Seq(Subgraphs)]

CallTyped(f) ==
    /\ f.op = "event" => f.path \in Paths
    /\ f.op \in {"wake", "refuse"} => f.todo \in Seq(Subgraphs)
    /\ f.op \notin {"event", "wake", "refuse"} => f.sub \in Subgraphs
    /\ f.op = "mark" => f.meta \in Metadata

Waiting == {"wake", "refuse", "mark"}
Shaped(s) ==
    /\ \A n \in 1 .. Len(s) : CallTyped(Frame(s, n))
    /\ \A n \in 1 .. Len(s) - 1 : Frame(s, n).op \in Waiting

WellFormed == StateTyped /\ \A t \in Threads : Shaped(stack[t])

\* A call that returns uncovers the one below it ...
LEMMA Uncovered ==
    ASSUME IInv, NEW t \in Threads, stack[t] # <<>>, Continue(t, <<>>)
    PROVE  LET s == stack[t]
               r == stack'[t]
           IN  /\ Stacks' /\ Len(s) \in Nat \ {0} /\ Len(r) = Len(s) - 1
               /\ \A n \in 1 .. Len(s) - 1 : Frame(r, n) = Frame(s, n)
               /\ r # <<>> => Top(t)' = Frame(s, Len(s) - 1) /\ Len(s) - 1 \in 1 .. Len(s) - 1
<1>1. <<>> \in Seq({}) /\ Len(<<>>) = 0
  OBVIOUS
<1>2. Stacks' /\ Replaced(stack'[t], stack[t], <<>>)
  BY <1>1, Continued DEF IInv
<1>3. /\ Len(stack[t]) \in Nat \ {0} /\ Len(stack'[t]) = Len(stack[t]) - 1
      /\ \A n \in 1 .. Len(stack[t]) - 1 : Frame(stack'[t], n) = Frame(stack[t], n)
  BY <1>1, <1>2 DEF Replaced
<1>4. ASSUME stack'[t] # <<>>
      PROVE  Top(t)' = Frame(stack[t], Len(stack[t]) - 1) /\ Len(stack[t]) - 1 \in 1 .. Len(stack[t]) - 1
  <2>1. PICK X : stack'[t] \in Seq(X)
    BY <1>2 DEF Stacks
  <2>2. Len(stack'[t]) \in Nat \ {0} /\ Top(t)' = Frame(stack'[t], Len(stack'[t]))
    BY <1>4, <2>1 DEF Frame, Top
  <2> DEFINE k == Len(stack[t])
             l == Len(stack'[t])
  <2>3. k - 1 \in 1 .. k - 1
    <3>1. k \in Nat \ {0} /\ l = k - 1 /\ l \in Nat \ {0}
      BY <1>3, <2>2
    <3> HIDE DEF k, l
    <3> QED
      BY <3>1
  <2> QED
    BY <1>3, <2>2, <2>3
<1> QED
  BY <1>2, <1>3, <1>4

\* ... one that turns into h leaves h in its place ...
LEMMA Turned ==
    ASSUME IInv, NEW t \in Threads, stack[t] # <<>>, NEW h, Continue(t, <<h>>)
    PROVE  LET s == stack[t]
               r == stack'[t]
           IN  /\ Stacks' /\ Len(s) \in Nat \ {0} /\ Len(r) = Len(s)
               /\ \A n \in 1 .. Len(s) - 1 : Frame(r, n) = Frame(s, n)
               /\ Frame(r, Len(s)) = h /\ Top(t)' = h /\ r # <<>>
<1>1. <<h>> \in Seq({h}) /\ Len(<<h>>) = 1 /\ <<h>>[1] = h
  OBVIOUS
<1>2. Stacks' /\ Replaced(stack'[t], stack[t], <<h>>)
  BY <1>1, Continued DEF IInv
<1>3. /\ Len(stack[t]) \in Nat \ {0} /\ Len(stack'[t]) = Len(stack[t])
      /\ \A n \in 1 .. Len(stack[t]) - 1 : Frame(stack'[t], n) = Frame(stack[t], n)
      /\ Frame(stack'[t], Len(stack[t])) = <<h>>[Len(<<h>>) + Len(stack[t]) - Len(stack[t])]
  BY <1>1, <1>2 DEF Replaced
<1>4. Len(<<h>>) + Len(stack[t]) - Len(stack[t]) = 1
  BY <1>1, <1>3
<1>5. Frame(stack'[t], Len(stack[t])) = h
  BY <1>1, <1>3, <1>4
<1>6. PICK X : stack'[t] \in Seq(X)
  BY <1>2 DEF Stacks
<1>7. stack'[t] # <<>>
  BY <1>3, <1>6
<1>8. Top(t)' = Frame(stack'[t], Len(stack'[t]))
  BY <1>6, <1>7 DEF Frame, Top
<1> QED
  BY <1>2, <1>3, <1>5, <1>7, <1>8

\* ... and one that calls h goes on below h as r.
LEMMA Covered ==
    ASSUME IInv, NEW t \in Threads, stack[t] # <<>>, NEW h, NEW r, Continue(t, <<h, r>>)
    PROVE  LET s == stack[t]
               z == stack'[t]
           IN  /\ Stacks' /\ Len(s) \in Nat \ {0} /\ Len(z) = Len(s) + 1
               /\ \A n \in 1 .. Len(s) - 1 : Frame(z, n) = Frame(s, n)
               /\ Frame(z, Len(s)) = r /\ Frame(z, Len(s) + 1) = h /\ Top(t)' = h /\ z # <<>>
<1>1. <<h, r>> \in Seq({h, r}) /\ Len(<<h, r>>) = 2 /\ <<h, r>>[1] = h /\ <<h, r>>[2] = r
  OBVIOUS
<1>2. Stacks' /\ Replaced(stack'[t], stack[t], <<h, r>>)
  BY <1>1, Continued DEF IInv
<1>3. /\ Len(stack[t]) \in Nat \ {0} /\ Len(stack'[t]) = Len(stack[t]) + 1
      /\ \A n \in 1 .. Len(stack[t]) - 1 : Frame(stack'[t], n) = Frame(stack[t], n)
      /\ \A n \in Len(stack[t]) .. Len(stack[t]) + 1 :
            Frame(stack'[t], n) = <<h, r>>[2 + Len(stack[t]) - n]
  BY <1>1, <1>2 DEF Replaced
<1>4. /\ Len(stack[t]) \in Len(stack[t]) .. Len(stack[t]) + 1
      /\ Len(stack[t]) + 1 \in Len(stack[t]) .. Len(stack[t]) + 1
      /\ 2 + Len(stack[t]) - Len(stack[t]) = 2 /\ 2 + Len(stack[t]) - (Len(stack[t]) + 1) = 1
  BY <1>3
<1>5. Frame(stack'[t], Len(stack[t])) = r /\ Frame(stack'[t], Len(stack[t]) + 1) = h
  BY <1>1, <1>3, <1>4
<1>6. PICK X : stack'[t] \in Seq(X)
  BY <1>2 DEF Stacks
<1>7. stack'[t] # <<>>
  BY <1>3, <1>6
<1>8. Top(t)' = Frame(stack'[t], Len(stack'[t]))
  BY <1>6, <1>7 DEF Frame, Top
<1> QED
  BY <1>2, <1>3, <1>5, <1>7, <1>8

\* What a call turns into, or makes, is made of the right things.
LEMMA CallsAreTyped ==
    ASSUME StateTyped, NEW t \in Threads, NEW f, CallTyped(f)
    PROVE  /\ \A h : Turns(t, f, h) => CallTyped(h)
           /\ \A h, r : Makes(t, f, h, r) => CallTyped(h) /\ CallTyped(r) /\ r.op \in Waiting
<1>1. \A q \in Seq(Subgraphs) : q # <<>> => Head(q) \in Subgraphs /\ Tail(q) \in Seq(Subgraphs)
  OBVIOUS
<1>2. \A p \in Paths : index[p] \in Seq(Subgraphs)
  BY DEF StateTyped
<1>3. \A s \in Subgraphs : s \in Paths /\ (Installed(s) => meta[s] \in Metadata)
  BY DEF StateTyped, Installed, Paths
<1>4. ASSUME NEW h, Turns(t, f, h) PROVE CallTyped(h)
  <2>1. CASE f.op = "event"
    <3>1. index[f.path] \in Seq(Subgraphs)
      BY <1>2, <2>1 DEF CallTyped
    <3> QED
      BY <1>4, <2>1, <3>1 DEF Turns, CallTyped, Refuse, Wake
  <2>2. CASE f.op = "wake"
    <3>1. Tail(f.todo) \in Seq(Subgraphs) /\ h = Wake(Tail(f.todo), f.depth)
      BY <1>1, <1>4, <2>2 DEF Turns, CallTyped
    <3> QED
      BY <3>1 DEF CallTyped, Wake
  <2>3. CASE f.op = "evaluate"
    BY <1>4, <2>3 DEF Turns, CallTyped, Freeze, Call, Publish
  <2>4. CASE f.op = "publish"
    BY <1>3, <1>4, <2>4 DEF Turns, CallTyped, Event
  <2>5. CASE f.op = "freeze"
    BY <1>3, <1>4, <2>5 DEF Turns, CallTyped, Mark
  <2>6. CASE f.op = "register" \/ f.op = "evaluate_now"
    BY <1>4, <2>6 DEF Turns, CallTyped, Call, Evaluate
  <2> QED
    BY <1>4, <2>1, <2>2, <2>3, <2>4, <2>5, <2>6 DEF Turns
<1>5. ASSUME NEW h, NEW r, Makes(t, f, h, r)
      PROVE  CallTyped(h) /\ CallTyped(r) /\ r.op \in Waiting
  <2>1. CASE f.op = "wake"
    <3>1. /\ Head(f.todo) \in Subgraphs /\ Tail(f.todo) \in Seq(Subgraphs)
          /\ r = Wake(Tail(f.todo), f.depth)
      BY <1>1, <1>5, <2>1 DEF Makes, CallTyped
    <3>2. CallTyped(r) /\ r.op \in Waiting
      BY <3>1 DEF CallTyped, Wake, Waiting
    <3>3. CallTyped(h)
      BY <1>5, <2>1, <3>1 DEF Makes, CallTyped, Call, Freeze, Evaluate
    <3> QED
      BY <3>2, <3>3
  <2>2. CASE f.op = "refuse"
    <3>1. /\ Head(f.todo) \in Subgraphs /\ Tail(f.todo) \in Seq(Subgraphs)
          /\ h = Freeze(Head(f.todo), "cascade_limit", f.depth) /\ r = Refuse(Tail(f.todo), f.depth)
      BY <1>1, <1>5, <2>2 DEF Makes, CallTyped
    <3> QED
      BY <3>1 DEF CallTyped, Refuse, Freeze, Waiting
  <2>3. CASE f.op = "freeze"
    BY <1>3, <1>5, <2>3 DEF Makes, CallTyped, Event, Mark, Waiting
  <2> QED
    BY <1>5, <2>1, <2>2, <2>3 DEF Makes
<1> QED
  BY <1>4, <1>5

\* So the stacks keep their shape ...
LEMMA RunKeepsShape ==
    ASSUME IInv, WellFormed, NEW t \in Threads, Run(t)
    PROVE  \A u \in Threads : Shaped(stack'[u])
<1> DEFINE s == stack[t]
           f == Top(t)
<1>1. s # <<>> /\ GoesOnAs(t, f)
  BY RunFollows
<1>2. /\ Len(s) \in Nat \ {0} /\ f = Frame(s, Len(s)) /\ CallTyped(f)
      /\ \A n \in 1 .. Len(s) - 1 : CallTyped(Frame(s, n)) /\ Frame(s, n).op \in Waiting
  BY <1>1, TopIsLast DEF WellFormed, Shaped
<1>3. \A u \in Threads : u # t => stack'[u] = stack[u]
  BY <1>1 DEF GoesOnAs, Continue, IInv, Stacks
<1>4. /\ \A h : Turns(t, f, h) => CallTyped(h)
      /\ \A h, r : Makes(t, f, h, r) => CallTyped(h) /\ CallTyped(r) /\ r.op \in Waiting
  BY <1>2, CallsAreTyped DEF WellFormed
<1> HIDE DEF f
<1>5. ASSUME Continue(t, <<>>) PROVE Shaped(stack'[t])
  <2>1. /\ Len(stack'[t]) = Len(s) - 1
        /\ \A n \in 1 .. Len(s) - 1 : Frame(stack'[t], n) = Frame(s, n)
    BY <1>1, <1>5, Uncovered
  <2> QED
    BY <1>2, <2>1 DEF Shaped
<1>6. ASSUME NEW h, Continue(t, <<h>>), CallTyped(h) PROVE Shaped(stack'[t])
  <2>1. /\ Len(stack'[t]) = Len(s) /\ Frame(stack'[t], Len(s)) = h
        /\ \A n \in 1 .. Len(s) - 1 : Frame(stack'[t], n) = Frame(s, n)
    BY <1>1, <1>6, Turned
  <2>2. \A n \in 1 .. Len(s) : n \in 1 .. Len(s) - 1 \/ n = Len(s)
    BY <1>2
  <2> QED
    BY <1>2, <1>6, <2>1, <2>2 DEF Shaped
<1>7. ASSUME NEW h, NEW r, Continue(t, <<h, r>>), CallTyped(h), CallTyped(r), r.op \in Waiting
      PROVE  Shaped(stack'[t])
  <2>1. /\ Len(stack'[t]) = Len(s) + 1
        /\ Frame(stack'[t], Len(s)) = r /\ Frame(stack'[t], Len(s) + 1) = h
        /\ \A n \in 1 .. Len(s) - 1 : Frame(stack'[t], n) = Frame(s, n)
    BY <1>1, <1>7, Covered
  <2>2. /\ \A n \in 1 .. Len(s) + 1 : n \in 1 .. Len(s) - 1 \/ n = Len(s) \/ n = Len(s) + 1
        /\ \A n \in 1 .. (Len(s) + 1) - 1 : n \in 1 .. Len(s) - 1 \/ n = Len(s)
    BY <1>2
  <2> QED
    BY <1>2, <1>7, <2>1, <2>2 DEF Shaped
<1>8. Shaped(stack'[t])
  BY <1>1, <1>4, <1>5, <1>6, <1>7 DEF GoesOnAs
<1>9. ASSUME NEW u \in Threads PROVE Shaped(stack'[u])
  <2>1. CASE u = t
    BY <1>8, <2>1
  <2>2. CASE u # t
    <3>1. stack'[u] = stack[u]
      BY <1>3, <2>2
    <3> QED
      BY <3>1 DEF WellFormed
  <2> QED
    BY <2>1, <2>2
<1> QED
  BY <1>9

\* ... and the state its parts.
LEMMA RunKeepsState ==
    ASSUME IInv, WellFormed, NEW t \in Threads, Run(t)
    PROVE  StateTyped'
<1> DEFINE f == Top(t)
<1>1. stack[t] # <<>> /\ Effects(t, f)
  BY RunFollows
<1>2. CallTyped(f)
  <2>1. Len(stack[t]) \in 1 .. Len(stack[t]) /\ f = Frame(stack[t], Len(stack[t]))
    BY <1>1, TopIsLast
  <2> QED
    BY <2>1 DEF WellFormed, Shaped
<1> HIDE DEF f
<1>3. DOMAIN tree' = Paths
  <2>1. CASE f.op = "publish" \/ f.op = "freeze"
    BY <1>1, <2>1 DEF Effects, WellFormed, StateTyped
  <2>2. CASE f.op \notin {"publish", "freeze"}
    BY <1>1, <2>2 DEF Effects, WellFormed, StateTyped
  <2> QED
    BY <2>1, <2>2
<1>4. meta' \in [Subgraphs -> Metadata \cup {Unset}]
  <2>1. CASE f.op = "mark"
    <3>1. [f.meta EXCEPT !.status = "frozen"] \in Metadata
      BY <1>2, <2>1 DEF CallTyped, Metadata
    <3>2. meta \in [Subgraphs -> Metadata \cup {Unset}]
      BY DEF WellFormed, StateTyped
    <3>3. meta' = [meta EXCEPT ![f.sub] = [f.meta EXCEPT !.status = "frozen"]]
      BY <1>1, <2>1 DEF Effects
    <3> HIDE DEF Metadata
    <3> QED
      BY <3>1, <3>2, <3>3
  <2>2. CASE f.op = "unbind"
    BY <1>1, <2>2 DEF Effects, WellFormed, StateTyped
  <2>3. CASE f.op \notin {"mark", "unbind"}
    BY <1>1, <2>3 DEF Effects, WellFormed, StateTyped
  <2> QED
    BY <2>1, <2>2, <2>3
<1>5. expr' \in [Subgraphs -> Expressions \cup {Unset}]
  BY <1>1 DEF Effects, WellFormed, StateTyped
<1>6. index' \in [Paths -> Seq(Subgraphs)]
  <2>0. \A p \in Paths : index[p] \in Seq(Subgraphs)
    BY DEF WellFormed, StateTyped
  <2>1. \A p \in Paths : Removed(f.sub)[p] \in Seq(Subgraphs)
    BY <2>0, Removes DEF Removed
  <2>2. CASE f.op = "forget"
    <3>1. index' = [p \in Paths |-> Removed(f.sub)[p]]
      BY <1>1, <2>2 DEF Effects, Removed
    <3> QED
      BY <2>1, <3>1
  <2>3. CASE f.op = "register"
    <3>1. f.sub \in Subgraphs
      BY <1>2, <2>3 DEF CallTyped
    <3>2. \A p \in Paths : Append(Removed(f.sub)[p], f.sub) \in Seq(Subgraphs)
      BY <2>1, <3>1, AppendAdds
    <3>3. index' = [p \in Paths |-> IF Contains(f.reads, p) THEN Append(Removed(f.sub)[p], f.sub)
                                                            ELSE Removed(f.sub)[p]]
      BY <1>1, <2>3 DEF Effects
    <3> QED
      BY <2>1, <3>2, <3>3
  <2>4. CASE f.op \notin {"forget", "register"}
    BY <1>1, <2>4 DEF Effects, WellFormed, StateTyped
  <2> QED
    BY <2>2, <2>3, <2>4
<1> QED
  BY <1>3, <1>4, <1>5, <1>6 DEF StateTyped

\* A request that is accepted makes one call.
LEMMA RequestShapes ==
    ASSUME IInv, WellFormed, NEW t \in Threads, NEW f, CallTyped(f),
           stack' = [stack EXCEPT ![t] = <<f>>]
    PROVE  /\ \A u \in Threads : Shaped(stack'[u])
           /\ stack'[t] = <<f>> /\ Top(t)' = f /\ <<f>> # <<>>
<1>1. Len(<<f>>) = 1 /\ <<f>>[1] = f /\ Head(<<f>>) = f /\ <<f>> # <<>>
  OBVIOUS
<1>2. stack'[t] = <<f>> /\ \A u \in Threads \ {t} : stack'[u] = stack[u]
  BY DEF IInv, Stacks
<1>3. Shaped(<<f>>)
  <2>1. \A n \in 1 .. Len(<<f>>) : Frame(<<f>>, n) = f
    BY <1>1 DEF Frame
  <2>2. 1 .. Len(<<f>>) - 1 = {}
    BY <1>1
  <2> QED
    BY <2>1, <2>2 DEF Shaped
<1>4. ASSUME NEW u \in Threads PROVE Shaped(stack'[u])
  <2>1. CASE u = t
    BY <1>2, <1>3, <2>1
  <2>2. CASE u # t
    BY <1>2, <2>2 DEF WellFormed
  <2> QED
    BY <2>1, <2>2
<1>5. Top(t)' = f
  BY <1>1, <1>2 DEF Top
<1> QED
  BY <1>1, <1>2, <1>4, <1>5

\* So the state and the stacks are well-formed from the start ...
LEMMA InitIsWellFormed == PeerInit => WellFormed
<1> SUFFICES ASSUME PeerInit PROVE WellFormed
  OBVIOUS
<1>1. StateTyped
  <2>1. expr \in [Subgraphs -> Expressions \cup {Unset}]
    BY EngineAssumption DEF PeerInit, Init
  <2>2. index \in [Paths -> Seq(Subgraphs)]
    BY DEF PeerInit, Init
  <2>3. meta \in [Subgraphs -> Metadata \cup {Unset}] /\ DOMAIN tree = Paths
    BY DEF PeerInit, Init
  <2> QED
    BY <2>1, <2>2, <2>3 DEF StateTyped
<1>2. ASSUME NEW t \in Threads PROVE Shaped(stack[t])
  <2>1. stack[t] = <<>> /\ Len(<<>>) = 0
    BY DEF PeerInit, Init
  <2> QED
    BY <2>1 DEF Shaped
<1> QED
  BY <1>1, <1>2 DEF WellFormed

\* ... and after every request ...
LEMMA RequestKeepsShape ==
    ASSUME IInv, WellFormed, NEW t \in Threads, Request(t)
    PROVE  WellFormed'
<1> DEFINE Stay == \A u \in Threads : Shaped(stack'[u])
<1>0. \A s \in Subgraphs : s \in Paths
  BY DEF Paths
<1>1. ASSUME NEW p \in Inputs, NEW v, Put(t, p, v) PROVE WellFormed'
  <2>1. CallTyped(Event(p, 0))
    BY DEF CallTyped, Event, Paths
  <2>2. Stay
    BY <1>1, <2>1, RequestShapes DEF Put
  <2>3. StateTyped'
    BY <1>1 DEF Put, WellFormed, StateTyped
  <2> QED
    BY <2>2, <2>3 DEF WellFormed
<1>2. ASSUME NEW s \in Subgraphs, NEW g \in Grants, Install(t, s, g) PROVE WellFormed'
  <2>1. CallTyped(Registration(s, Reads[expr[s]]))
    BY DEF CallTyped, Registration
  <2>2. Stay
    BY <1>2, <2>1, RequestShapes DEF Install
  <2>3. [grant |-> g, status |-> "active"] \in Metadata
    BY DEF Metadata
  <2>4. StateTyped'
    <3> HIDE DEF Metadata
    <3> QED
      BY <1>2, <2>3 DEF Install, WellFormed, StateTyped
  <2> QED
    BY <2>2, <2>4 DEF WellFormed
<1>3. ASSUME NEW s \in Subgraphs, Uninstall(t, s) PROVE WellFormed'
  <2>1. CallTyped(Call("unbind", s))
    BY DEF CallTyped, Call
  <2>2. Stay
    BY <1>3, <2>1, RequestShapes DEF Uninstall
  <2>3. \A p \in Paths : Removed(s)[p] \in Seq(Subgraphs)
    <3>1. \A p \in Paths : index[p] \in Seq(Subgraphs)
      BY DEF WellFormed, StateTyped
    <3> QED
      BY <3>1, Removes DEF Removed
  <2>4. index' = [p \in Paths |-> Removed(s)[p]]
    BY <1>3 DEF Uninstall, Removed
  <2>5. StateTyped'
    <3>1. index' \in [Paths -> Seq(Subgraphs)]
      BY <2>3, <2>4
    <3> QED
      BY <1>3, <3>1 DEF Uninstall, WellFormed, StateTyped
  <2> QED
    BY <2>2, <2>5 DEF WellFormed
<1>4. ASSUME NEW edit \in Edits, Edit(t, edit[1], edit[2]) PROVE WellFormed'
  <2>1. edit[2] \in Expressions \cup {Unset}
    BY EngineAssumption
  <2>2. expr' \in [Subgraphs -> Expressions \cup {Unset}]
    BY <1>4, <2>1 DEF Edit, WellFormed, StateTyped
  <2>3. StateTyped'
    BY <1>4, <2>2 DEF Edit, WellFormed, StateTyped
  <2> QED
    BY <1>4, <2>3 DEF Edit, WellFormed
<1> QED
  BY <1>1, <1>2, <1>3, <1>4 DEF Request

\* ... and every step.
LEMMA StepKeepsShape == IInv /\ WellFormed /\ [PeerNext]_peerVars => WellFormed'
<1> SUFFICES ASSUME IInv, WellFormed, [PeerNext]_peerVars PROVE WellFormed'
  OBVIOUS
<1>1. CASE UNCHANGED vars
  BY <1>1 DEF vars, WellFormed, StateTyped
<1>2. CASE Restart
  <2>1. StateTyped'
    BY <1>2 DEF Restart, WellFormed, StateTyped
  <2>2. ASSUME NEW t \in Threads PROVE Shaped(stack'[t])
    <3>1. stack'[t] = <<>> /\ Len(<<>>) = 0
      BY <1>2 DEF Restart
    <3> QED
      BY <3>1 DEF Shaped
  <2> QED
    BY <2>1, <2>2 DEF WellFormed
<1>3. ASSUME NEW s \in Subgraphs, Rebuild(s) PROVE WellFormed'
  <2>1. \A p \in Paths : index[p] \in Seq(Subgraphs)
    BY DEF WellFormed, StateTyped
  <2>2. \A p \in Paths : Append(index[p], s) \in Seq(Subgraphs)
    BY <2>1
  <2>3. index' \in [Paths -> Seq(Subgraphs)]
    <3>1. CASE expr[s] \in Reaudited
      BY <1>3, <2>1, <2>2, <3>1 DEF Rebuild
    <3>2. CASE expr[s] \notin Reaudited
      BY <1>3, <3>2 DEF Rebuild, WellFormed, StateTyped
    <3> QED
      BY <3>1, <3>2
  <2> QED
    BY <1>3, <2>3 DEF Rebuild, WellFormed, StateTyped
<1>4. ASSUME NEW g, Expire(g) PROVE WellFormed'
  BY <1>4 DEF Expire, WellFormed, StateTyped
<1>5. ASSUME NEW t \in Threads, Arrive(t) PROVE WellFormed'
  BY <1>5, RequestKeepsShape DEF Arrive
<1>6. ASSUME NEW t \in Threads, Serve(t) PROVE WellFormed'
  <2>1. Run(t)
    BY <1>6 DEF Serve
  <2>2. StateTyped' /\ \A u \in Threads : Shaped(stack'[u])
    BY <2>1, RunKeepsShape, RunKeepsState
  <2> QED
    BY <2>2 DEF WellFormed
<1> QED
  BY <1>1, <1>2, <1>3, <1>4, <1>5, <1>6 DEF PeerNext, Rest, peerVars, vars

--------------------------------------------------------------------------------
(***************************************************************************)
(* The index follows the metadata, as long as one thread serves.           *)
(***************************************************************************)
OneThread == \E t : Threads = {t}

\* s is to be registered, or dropped: by rebuild or by the call being served.
Awaits(s) ==
    \/ s \in rows
    \/ \E t \in Threads : (At(t, "register") \/ At(t, "unbind")) /\ Top(t).sub = s

\* What the innermost call is about to do suits the state.
Suits(f) ==
    /\ f.op = "unbind" => Watches(f.sub) = {}
    /\ f.op = "register" =>
          Installed(f.sub) /\ expr[f.sub] \in Expressions /\ f.reads = Reads[expr[f.sub]]
    /\ f.op = "forget" => ~Installed(f.sub) \/ expr[f.sub] = Unset

WatchedAreInstalled ==
    \A s \in Subgraphs :
        Watches(s) # {} => Installed(s) /\ \E e \in Expressions : Watches(s) = ToSet(Reads[e])

ActiveAreWatched ==
    \A s \in Subgraphs :
        Active(s) /\ expr[s] \in Reaudited /\ (\A edit \in Edits : edit[1] # s)
            => Watches(s) = ToSet(Reads[expr[s]]) \/ Awaits(s)

IndexFollows ==
    /\ rows # {} => Quiet
    /\ \A s \in rows : Installed(s) /\ Watches(s) = {}
    /\ WatchedAreInstalled /\ ActiveAreWatched
    /\ \A t \in Threads : stack[t] # <<>> => Suits(Top(t))

\* Removing s, and then adding it where it reads, changes what s watches only.
LEMMA RemovedWatches ==
    ASSUME StateTyped, NEW s, index' = Removed(s)
    PROVE  \A q : Watches(q)' = IF q = s THEN {} ELSE Watches(q)
<1>1. \A p \in Paths : \A q : Contains(Removed(s)[p], q) <=> q # s /\ Contains(index[p], q)
  <2>1. \A p \in Paths : index[p] \in Seq(Subgraphs)
    BY DEF StateTyped
  <2> QED
    BY <2>1, Removes DEF Removed
<1>2. \A p \in Paths : \A q : Contains(index'[p], q) <=> q # s /\ Contains(index[p], q)
  BY <1>1
<1> QED
  BY <1>2 DEF Watches

\* A registration leaves each subgraph under the paths it was under, and its own
\* under exactly those it reads.
LEMMA RegisteredWatches ==
    ASSUME StateTyped, NEW s \in Subgraphs, NEW ps,
           index' = [p \in Paths |-> IF Contains(ps, p) THEN Append(Removed(s)[p], s)
                                                        ELSE Removed(s)[p]]
    PROVE  \A q : Watches(q)' = IF q = s THEN {p \in Paths : Contains(ps, p)} ELSE Watches(q)
<1>1. \A p \in Paths :
          /\ Removed(s)[p] \in Seq(Subgraphs)
          /\ \A q : Contains(Removed(s)[p], q) <=> q # s /\ Contains(index[p], q)
  <2>1. \A p \in Paths : index[p] \in Seq(Subgraphs)
    BY DEF StateTyped
  <2> QED
    BY <2>1, Removes DEF Removed
<1>2. ASSUME NEW p \in Paths, NEW q
      PROVE  Contains(Append(Removed(s)[p], s), q) <=> q = s \/ Contains(Removed(s)[p], q)
  BY <1>1, AppendAdds
<1>3. ASSUME NEW p \in Paths, NEW q
      PROVE  Contains(index'[p], q) <=> IF q = s THEN Contains(ps, p) ELSE Contains(index[p], q)
  <2>1. index'[p] = IF Contains(ps, p) THEN Append(Removed(s)[p], s) ELSE Removed(s)[p]
    OBVIOUS
  <2>2. CASE Contains(ps, p)
    <3>1. index'[p] = Append(Removed(s)[p], s)
      BY <2>1, <2>2
    <3> QED
      BY <1>1, <1>2, <2>2, <3>1
  <2>3. CASE ~Contains(ps, p)
    <3>1. index'[p] = Removed(s)[p]
      BY <2>1, <2>3
    <3> QED
      BY <1>1, <2>3, <3>1
  <2> QED
    BY <2>2, <2>3
<1> QED
  BY <1>3 DEF Watches

\* An expression reads the paths in its list.
LEMMA ReadsAreListed ==
    ASSUME NEW e \in Expressions
    PROVE  {p \in Paths : Contains(Reads[e], p)} = ToSet(Reads[e])
<1>1. Reads[e] \in Seq(Paths)
  BY EngineAssumption
<1>2. DOMAIN Reads[e] = 1 .. Len(Reads[e]) /\ \A i \in 1 .. Len(Reads[e]) : Reads[e][i] \in Paths
  BY <1>1
<1> QED
  BY <1>2 DEF Contains, ToSet

\* The innermost call after a step of the thread suits the state.
LEMMA RunSuits ==
    ASSUME IInv, WellFormed, NEW t \in Threads, Run(t), stack'[t] # <<>>
    PROVE  Suits(Top(t))'
<1> DEFINE f == Top(t)
<1>1. stack[t] # <<>> /\ GoesOnAs(t, f) /\ Effects(t, f)
  BY RunFollows
<1>2. ASSUME NEW h, h.op \notin {"unbind", "register", "forget"}, Top(t)' = h PROVE Suits(Top(t))'
  BY <1>2 DEF Suits
<1>3. CASE Continue(t, <<>>)
  <2>1. Top(t)' = Frame(stack[t], Len(stack[t]) - 1) /\ Len(stack[t]) - 1 \in 1 .. Len(stack[t]) - 1
    BY <1>1, <1>3, Uncovered
  <2>2. Top(t)'.op \in Waiting
    BY <2>1 DEF WellFormed, Shaped
  <2> QED
    BY <1>2, <2>2 DEF Waiting
<1>4. ASSUME NEW h, Continue(t, <<h>>), Turns(t, f, h) PROVE Suits(Top(t))'
  <2>1. Top(t)' = h
    BY <1>1, <1>4, Turned
  <2>2. CASE f.op = "evaluate" /\ expr[f.sub] = Unset /\ h = Call("forget", f.sub)
    <3>1. h.op = "forget" /\ h.sub = f.sub
      BY <2>2 DEF Call
    <3>2. expr' = expr
      BY <1>1 DEF Effects
    <3> HIDE DEF f
    <3> QED
      BY <2>1, <2>2, <3>1, <3>2 DEF Suits
  <2>3. CASE h.op \notin {"unbind", "register", "forget"}
    BY <1>2, <2>1, <2>3
  <2> QED
    BY <1>4, <2>2, <2>3
       DEF Turns, Refuse, Wake, Freeze, Call, Publish, Event, Mark, Evaluate
<1>5. ASSUME NEW h, NEW r, Continue(t, <<h, r>>), Makes(t, f, h, r) PROVE Suits(Top(t))'
  <2>1. Top(t)' = h
    BY <1>1, <1>5, Covered
  <2>2. CASE f.op = "wake" /\ \E s : ~Installed(s) /\ h = Call("forget", s)
    <3>1. PICK s : ~Installed(s) /\ h = Call("forget", s)
      BY <2>2
    <3>2. h.op = "forget" /\ h.sub = s
      BY <3>1 DEF Call
    <3>3. meta' = meta
      BY <1>1, <2>2 DEF Effects
    <3> HIDE DEF f
    <3> QED
      BY <2>1, <3>1, <3>2, <3>3 DEF Suits, Installed
  <2>3. CASE h.op \notin {"unbind", "register", "forget"}
    BY <1>2, <2>1, <2>3
  <2> QED
    BY <1>5, <2>2, <2>3 DEF Makes, Freeze, Evaluate, Event
<1> QED
  BY <1>1, <1>3, <1>4, <1>5 DEF GoesOnAs

\* A step of the only thread, no row being left to rebuild.
LEMMA RunFollowsMetadata ==
    ASSUME IInv, WellFormed, IndexFollows, NEW t, Threads = {t}, rows = {}, Run(t), UNCHANGED rows
    PROVE  IndexFollows'
<1>0. PICK f : f = Top(t)
  OBVIOUS
<1>1. t \in Threads
  OBVIOUS
<1>2. stack[t] # <<>> /\ Effects(t, f)
  BY <1>0, <1>1, RunFollows
<1>3. CallTyped(f) /\ Suits(f)
  <2>1. Len(stack[t]) \in 1 .. Len(stack[t]) /\ f = Frame(stack[t], Len(stack[t]))
    BY <1>0, <1>1, <1>2, TopIsLast
  <2> QED
    BY <1>0, <1>1, <1>2, <2>1 DEF WellFormed, Shaped, IndexFollows
<1>4. \A u \in Threads : stack'[u] # <<>> => Suits(Top(u))'
  <2>1. stack'[t] # <<>> => Suits(Top(t))'
    BY <1>1, RunSuits
  <2> QED
    BY <2>1
<1>5. \A s : Awaits(s) => f.op \in {"register", "unbind"} /\ f.sub = s
  BY <1>0 DEF Awaits, At
<1>6. StateTyped /\ WatchedAreInstalled /\ ActiveAreWatched
  BY DEF WellFormed, IndexFollows
<1>7. \A s \in Subgraphs : meta[s] \in Metadata \cup {Unset}
  BY <1>6 DEF StateTyped
<1>8. WatchedAreInstalled' /\ ActiveAreWatched'
  <2>0. expr' = expr
    BY <1>2 DEF Effects
  <2>1. CASE f.op = "forget"
    <3>1. meta' = meta /\ index' = Removed(f.sub)
      BY <1>2, <2>1 DEF Effects
    <3>2. \A q : Watches(q)' = IF q = f.sub THEN {} ELSE Watches(q)
      BY <1>6, <3>1, RemovedWatches
    <3>3. \A q : ~Awaits(q)
      BY <1>5, <2>1
    <3>4. ~Installed(f.sub) \/ expr[f.sub] \notin Reaudited
      BY <1>3, <2>1, EngineAssumption, RestartAssumption DEF Suits
    <3>5. \A q : (Installed(q)' <=> Installed(q)) /\ (Active(q)' <=> Active(q))
      BY <3>1 DEF Installed, Active
    <3>6. WatchedAreInstalled'
      BY <1>6, <3>2, <3>5 DEF WatchedAreInstalled
    <3>7. ASSUME NEW s \in Subgraphs, Active(s)', expr'[s] \in Reaudited, \A edit \in Edits : edit[1] # s
          PROVE  Watches(s)' = ToSet(Reads[expr'[s]])
      <4>1. s # f.sub /\ Watches(s)' = Watches(s)
        BY <2>0, <3>2, <3>4, <3>5, <3>7 DEF Active
      <4> QED
        BY <1>6, <2>0, <3>3, <3>5, <3>7, <4>1 DEF ActiveAreWatched
    <3> QED
      BY <3>6, <3>7 DEF ActiveAreWatched
  <2>2. CASE f.op = "register"
    <3>1. meta' = meta
      BY <1>2, <2>2 DEF Effects
    <3>2. /\ f.sub \in Subgraphs /\ Installed(f.sub)
          /\ expr[f.sub] \in Expressions /\ f.reads = Reads[expr[f.sub]]
      BY <1>3, <2>2 DEF CallTyped, Suits
    <3>3. \A q : Watches(q)' = IF q = f.sub THEN {p \in Paths : Contains(f.reads, p)} ELSE Watches(q)
      <4>1. index' = [p \in Paths |-> IF Contains(f.reads, p) THEN Append(Removed(f.sub)[p], f.sub)
                                                              ELSE Removed(f.sub)[p]]
        BY <1>2, <2>2 DEF Effects
      <4> QED
        BY <1>6, <3>2, <4>1, RegisteredWatches
    <3>4. {p \in Paths : Contains(f.reads, p)} = ToSet(Reads[expr[f.sub]])
      BY <3>2, ReadsAreListed
    <3>5. \A q : (Installed(q)' <=> Installed(q)) /\ (Active(q)' <=> Active(q))
      BY <3>1 DEF Installed, Active
    <3>6. WatchedAreInstalled'
      BY <1>6, <3>2, <3>3, <3>4, <3>5 DEF WatchedAreInstalled
    <3>7. ASSUME NEW s \in Subgraphs, Active(s)', expr'[s] \in Reaudited, \A edit \in Edits : edit[1] # s
          PROVE  Watches(s)' = ToSet(Reads[expr'[s]])
      <4>1. CASE s = f.sub
        BY <2>0, <3>3, <3>4, <4>1
      <4>2. CASE s # f.sub
        <5>1. Watches(s)' = Watches(s) /\ ~Awaits(s)
          BY <1>5, <3>3, <4>2
        <5> QED
          BY <1>6, <2>0, <3>5, <3>7, <5>1 DEF ActiveAreWatched
      <4> QED
        BY <4>1, <4>2
    <3> QED
      BY <3>6, <3>7 DEF ActiveAreWatched
  <2>3. CASE f.op = "unbind"
    <3>1. meta' = [meta EXCEPT ![f.sub] = Unset] /\ index' = index
      BY <1>2, <2>3 DEF Effects
    <3>2. f.sub \in Subgraphs /\ Watches(f.sub) = {}
      BY <1>3, <2>3 DEF CallTyped, Suits
    <3>3. \A q : Watches(q)' = Watches(q)
      BY <3>1 DEF Watches
    <3>4. ~Installed(f.sub)'
      BY <1>6, <3>1, <3>2 DEF Installed, StateTyped
    <3>5. \A q \in Subgraphs : q # f.sub => (Installed(q)' <=> Installed(q)) /\ (Active(q)' <=> Active(q))
      BY <1>6, <3>1 DEF Installed, Active, StateTyped
    <3>6. WatchedAreInstalled'
      BY <1>6, <3>2, <3>3, <3>4, <3>5 DEF WatchedAreInstalled
    <3>7. ASSUME NEW s \in Subgraphs, Active(s)', expr'[s] \in Reaudited, \A edit \in Edits : edit[1] # s
          PROVE  Watches(s)' = ToSet(Reads[expr'[s]])
      <4>1. s # f.sub
        BY <3>4, <3>7 DEF Active
      <4>2. ~Awaits(s) /\ Active(s)
        BY <1>5, <3>5, <3>7, <4>1
      <4> QED
        BY <1>6, <2>0, <3>3, <3>7, <4>2 DEF ActiveAreWatched
    <3> QED
      BY <3>6, <3>7 DEF ActiveAreWatched
  <2>4. CASE f.op = "mark"
    <3>1. meta' = [meta EXCEPT ![f.sub] = [f.meta EXCEPT !.status = "frozen"]] /\ index' = index
      BY <1>2, <2>4 DEF Effects
    <3>2. f.sub \in Subgraphs /\ f.meta \in Metadata
      BY <1>3, <2>4 DEF CallTyped
    <3>3. meta'[f.sub] \in Metadata /\ meta'[f.sub].status = "frozen"
      <4>1. /\ [f.meta EXCEPT !.status = "frozen"] \in Metadata
            /\ [f.meta EXCEPT !.status = "frozen"].status = "frozen"
        BY <3>2 DEF Metadata
      <4>2. meta'[f.sub] = [f.meta EXCEPT !.status = "frozen"]
        BY <1>6, <3>1, <3>2 DEF StateTyped
      <4> QED
        BY <4>1, <4>2
    <3>4. Installed(f.sub)' /\ ~Active(f.sub)'
      BY <3>3, EngineAssumption DEF Installed, Active
    <3>5. \A q \in Subgraphs : q # f.sub => (Installed(q)' <=> Installed(q)) /\ (Active(q)' <=> Active(q))
      BY <1>6, <3>1 DEF Installed, Active, StateTyped
    <3>6. \A q : Watches(q)' = Watches(q) /\ ~Awaits(q)
      BY <1>5, <2>4, <3>1 DEF Watches
    <3>7. WatchedAreInstalled'
      BY <1>6, <3>4, <3>5, <3>6 DEF WatchedAreInstalled
    <3>8. ASSUME NEW s \in Subgraphs, Active(s)', expr'[s] \in Reaudited, \A edit \in Edits : edit[1] # s
          PROVE  Watches(s)' = ToSet(Reads[expr'[s]])
      <4>1. s # f.sub
        BY <3>4, <3>8
      <4>2. ~Awaits(s) /\ Active(s)
        BY <3>5, <3>6, <3>8, <4>1
      <4> QED
        BY <1>6, <2>0, <3>6, <3>8, <4>2 DEF ActiveAreWatched
    <3> QED
      BY <3>7, <3>8 DEF ActiveAreWatched
  <2>5. CASE f.op \notin {"forget", "register", "unbind", "mark"}
    <3>1. meta' = meta /\ index' = index
      BY <1>2, <2>5 DEF Effects
    <3>2. \A q : ~Awaits(q) /\ Watches(q)' = Watches(q)
      BY <1>5, <2>5, <3>1 DEF Watches
    <3>3. \A q : (Installed(q)' <=> Installed(q)) /\ (Active(q)' <=> Active(q))
      BY <3>1 DEF Installed, Active
    <3>4. WatchedAreInstalled'
      BY <1>6, <3>2, <3>3 DEF WatchedAreInstalled
    <3>5. ActiveAreWatched'
      BY <1>6, <2>0, <3>2, <3>3 DEF ActiveAreWatched
    <3> QED
      BY <3>4, <3>5
  <2> QED
    BY <2>1, <2>2, <2>3, <2>4, <2>5
<1> QED
  BY <1>4, <1>8 DEF IndexFollows

\* While every thread is idle and no row is left, every claim is exact.
LEMMA NothingAwaits ==
    ASSUME Quiet, rows = {}
    PROVE  \A s : ~Awaits(s)
  BY DEF Quiet, Idle, Awaits, At

\* A request of the only thread.
LEMMA RequestFollowsMetadata ==
    ASSUME IInv, WellFormed, IndexFollows, NEW t, Threads = {t}, rows = {}, Request(t), UNCHANGED rows
    PROVE  IndexFollows'
<1>1. t \in Threads
  OBVIOUS
<1>2. StateTyped /\ WatchedAreInstalled /\ ActiveAreWatched
  BY DEF WellFormed, IndexFollows
<1>3. ASSUME Idle(t) PROVE \A s : ~Awaits(s)
  BY <1>3, NothingAwaits DEF Quiet
<1>4. ASSUME NEW f, CallTyped(f), stack' = [stack EXCEPT ![t] = <<f>>]
      PROVE  \A u \in Threads : Top(u)' = f /\ stack'[u] = <<f>> /\ <<f>> # <<>>
  BY <1>1, <1>4, RequestShapes
<1>5. ASSUME NEW p \in Inputs, NEW v, Put(t, p, v) PROVE IndexFollows'
  <2> DEFINE f == Event(p, 0)
  <2>1. CallTyped(f) /\ f.op = "event"
    BY DEF CallTyped, Event, Paths
  <2>2. Idle(t) /\ stack' = [stack EXCEPT ![t] = <<f>>] /\ UNCHANGED <<meta, expr, index>>
    BY <1>5 DEF Put, Accept
  <2> HIDE DEF f
  <2>3. \A u \in Threads : Suits(Top(u))'
    BY <1>4, <2>1, <2>2 DEF Suits
  <2>4. WatchedAreInstalled'
    BY <1>2, <2>2 DEF WatchedAreInstalled, Watches, Installed
  <2>5. ActiveAreWatched'
    BY <1>2, <1>3, <2>2 DEF ActiveAreWatched, Watches, Active, Installed
  <2> QED
    BY <2>3, <2>4, <2>5 DEF IndexFollows
<1>6. ASSUME NEW s \in Subgraphs, NEW g \in Grants, Install(t, s, g) PROVE IndexFollows'
  <2> DEFINE f == Registration(s, Reads[expr[s]])
             m == [grant |-> g, status |-> "active"]
  <2>1. CallTyped(f) /\ f.op = "register" /\ f.sub = s /\ f.reads = Reads[expr[s]]
    BY DEF CallTyped, Registration
  <2>2. /\ Idle(t) /\ stack' = [stack EXCEPT ![t] = <<f>>] /\ UNCHANGED <<expr, index>>
        /\ meta' = [meta EXCEPT ![s] = m] /\ expr[s] # Unset
    BY <1>6 DEF Install, Accept
  <2>3. m \in Metadata
    BY DEF Metadata
  <2> HIDE DEF f, m
  <2>4. meta'[s] # Unset /\ \A q \in Subgraphs : q # s => meta'[q] = meta[q]
    BY <1>2, <2>2, <2>3, EngineAssumption DEF StateTyped
  <2>5. expr'[s] \in Expressions
    BY <1>2, <2>2 DEF StateTyped
  <2>6. \A u \in Threads : Suits(Top(u))'
    BY <1>4, <2>1, <2>2, <2>4, <2>5 DEF Suits, Installed
  <2>7. Awaits(s)'
    BY <1>1, <1>4, <2>1, <2>2 DEF Awaits, At
  <2>8. \A q : Watches(q)' = Watches(q)
    BY <2>2 DEF Watches
  <2>9. WatchedAreInstalled'
    BY <1>2, <2>4, <2>8 DEF WatchedAreInstalled, Installed
  <2>10. ActiveAreWatched'
    BY <1>2, <1>3, <2>2, <2>4, <2>7, <2>8 DEF ActiveAreWatched, Active, Installed
  <2> QED
    BY <2>6, <2>9, <2>10 DEF IndexFollows
<1>7. ASSUME NEW s \in Subgraphs, Uninstall(t, s) PROVE IndexFollows'
  <2> DEFINE f == Call("unbind", s)
  <2>1. CallTyped(f) /\ f.op = "unbind" /\ f.sub = s
    BY DEF CallTyped, Call
  <2>2. /\ Idle(t) /\ stack' = [stack EXCEPT ![t] = <<f>>] /\ UNCHANGED <<meta, expr>>
        /\ index' = Removed(s)
    BY <1>7 DEF Uninstall, Accept
  <2> HIDE DEF f
  <2>3. \A q : Watches(q)' = IF q = s THEN {} ELSE Watches(q)
    BY <1>2, <2>2, RemovedWatches
  <2>4. \A u \in Threads : Suits(Top(u))'
    BY <1>4, <2>1, <2>2, <2>3 DEF Suits
  <2>5. Awaits(s)'
    BY <1>1, <1>4, <2>1, <2>2 DEF Awaits, At
  <2>6. WatchedAreInstalled'
    BY <1>2, <2>2, <2>3 DEF WatchedAreInstalled, Installed
  <2>7. ActiveAreWatched'
    BY <1>2, <1>3, <2>2, <2>3, <2>5 DEF ActiveAreWatched, Active, Installed
  <2> QED
    BY <2>4, <2>6, <2>7 DEF IndexFollows
<1>8. ASSUME NEW edit \in Edits, Edit(t, edit[1], edit[2]) PROVE IndexFollows'
  <2>1. /\ Idle(t) /\ UNCHANGED <<stack, meta, index>> /\ expr' = [expr EXCEPT ![edit[1]] = edit[2]]
    BY <1>8 DEF Edit, Accept
  <2>2. \A u \in Threads : stack'[u] = <<>>
    BY <2>1 DEF Idle
  <2>3. WatchedAreInstalled'
    BY <1>2, <2>1 DEF WatchedAreInstalled, Watches, Installed
  <2>4. \A q \in Subgraphs : q # edit[1] => expr'[q] = expr[q]
    BY <1>2, <2>1 DEF StateTyped
  <2>5. \A q : Watches(q)' = Watches(q) /\ (Active(q)' <=> Active(q))
    BY <2>1 DEF Watches, Active, Installed
  <2>6. ActiveAreWatched'
    BY <1>2, <1>3, <2>1, <2>4, <2>5 DEF ActiveAreWatched
  <2> QED
    BY <2>2, <2>3, <2>6 DEF IndexFollows
<1> QED
  BY <1>5, <1>6, <1>7, <1>8 DEF Request

\* The row of an expression that passes its audit comes to watch what it reads.
LEMMA RebuiltWatches ==
    ASSUME StateTyped, NEW s \in Subgraphs, Watches(s) = {}, Rebuild(s), expr[s] \in Reaudited
    PROVE  /\ \A q : q # s => Watches(q)' = Watches(q)
           /\ Watches(s)' = ToSet(Reads[expr[s]])
<1>1. expr[s] \in Expressions
  BY RestartAssumption
<1>2. \A p \in Paths : index[p] \in Seq(Subgraphs)
  BY DEF StateTyped
<1>3. ASSUME NEW p \in Paths, NEW q
      PROVE  Contains(index'[p], q) <=>
                Contains(index[p], q) \/ (q = s /\ Contains(Reads[expr[s]], p))
  <2>1. index'[p] = IF Contains(Reads[expr[s]], p) THEN Append(index[p], s) ELSE index[p]
    BY DEF Rebuild
  <2>2. Contains(Append(index[p], s), q) <=> q = s \/ Contains(index[p], q)
    BY <1>2, AppendAdds
  <2>3. CASE Contains(Reads[expr[s]], p)
    <3>1. index'[p] = Append(index[p], s)
      BY <2>1, <2>3
    <3> QED
      BY <2>2, <2>3, <3>1
  <2>4. CASE ~Contains(Reads[expr[s]], p)
    <3>1. index'[p] = index[p]
      BY <2>1, <2>4
    <3> QED
      BY <2>4, <3>1
  <2> QED
    BY <2>3, <2>4
<1>4. \A q : q # s => Watches(q)' = Watches(q)
  BY <1>3 DEF Watches
<1>5. Watches(s)' = ToSet(Reads[expr[s]])
  <2>1. \A p \in Paths : ~Contains(index[p], s)
    BY DEF Watches
  <2>2. Watches(s)' = {p \in Paths : Contains(Reads[expr[s]], p)}
    BY <1>3, <2>1 DEF Watches
  <2> QED
    BY <1>1, <2>2, ReadsAreListed
<1> QED
  BY <1>4, <1>5

\* One row is rebuilt.
LEMMA RebuildFollowsMetadata ==
    ASSUME IInv, WellFormed, IndexFollows, NEW s \in Subgraphs, Rebuild(s)
    PROVE  IndexFollows'
<1>1. /\ s \in rows /\ rows' = rows \ {s} /\ UNCHANGED <<meta, expr, stack>>
      /\ index' = IF expr[s] \in Reaudited
                  THEN [p \in Paths |-> IF Contains(Reads[expr[s]], p) THEN Append(index[p], s)
                                                                      ELSE index[p]]
                  ELSE index
  BY DEF Rebuild
<1>2. StateTyped /\ WatchedAreInstalled /\ ActiveAreWatched
  BY DEF WellFormed, IndexFollows
<1>3. Installed(s) /\ Watches(s) = {} /\ Quiet
  BY <1>1 DEF IndexFollows
<1>4. \A t \in Threads : stack'[t] = <<>>
  BY <1>1, <1>3 DEF Quiet, Idle
<1>5. \A q : (Installed(q)' <=> Installed(q)) /\ (Active(q)' <=> Active(q))
  BY <1>1 DEF Installed, Active
<1>6. \A q : q # s /\ Awaits(q) => Awaits(q)'
  BY <1>1, <1>3 DEF Awaits, At, Quiet, Idle
<1>7. CASE expr[s] \in Reaudited
  <2>1. expr[s] \in Expressions
    BY <1>7, RestartAssumption
  <2>2. /\ \A q : q # s => Watches(q)' = Watches(q)
        /\ Watches(s)' = ToSet(Reads[expr[s]])
    BY <1>2, <1>3, <1>7, RebuiltWatches
  <2>6. WatchedAreInstalled'
    BY <1>2, <1>3, <1>5, <2>1, <2>2 DEF WatchedAreInstalled
  <2>7. ActiveAreWatched'
    BY <1>1, <1>2, <1>5, <1>6, <2>2 DEF ActiveAreWatched
  <2>8. \A q \in rows' : Installed(q)' /\ Watches(q)' = {}
    BY <1>1, <1>5, <2>2 DEF IndexFollows
  <2> QED
    BY <1>4, <2>6, <2>7, <2>8 DEF IndexFollows, Quiet, Idle
<1>8. CASE expr[s] \notin Reaudited
  <2>1. \A q : Watches(q)' = Watches(q)
    BY <1>1, <1>8 DEF Watches
  <2>2. WatchedAreInstalled'
    BY <1>2, <1>5, <2>1 DEF WatchedAreInstalled
  <2>3. ActiveAreWatched'
    BY <1>1, <1>2, <1>5, <1>6, <1>8, <2>1 DEF ActiveAreWatched
  <2>4. \A q \in rows' : Installed(q)' /\ Watches(q)' = {}
    BY <1>1, <1>5, <2>1 DEF IndexFollows
  <2> QED
    BY <1>4, <2>2, <2>3, <2>4 DEF IndexFollows, Quiet, Idle
<1> QED
  BY <1>7, <1>8

\* The process ends: nothing is watched, and every installed subgraph a row.
LEMMA RestartFollowsMetadata ==
    ASSUME WellFormed, Restart
    PROVE  IndexFollows'
<1>1. /\ index' = [p \in Paths |-> <<>>] /\ UNCHANGED <<meta, expr>>
      /\ rows' = {s \in Subgraphs : Installed(s)}
      /\ \A t \in Threads : stack'[t] = <<>>
  BY DEF Restart
<1>2. \A q : ~Contains(<<>>, q)
  BY DEF Contains
<1>3. \A q : Watches(q)' = {}
  BY <1>1, <1>2 DEF Watches
<1>4. \A q : (Installed(q)' <=> Installed(q)) /\ (Active(q)' <=> Active(q))
  BY <1>1 DEF Installed, Active
<1>5. ActiveAreWatched'
  BY <1>1, <1>4 DEF ActiveAreWatched, Awaits, Active
<1> QED
  BY <1>1, <1>3, <1>4, <1>5 DEF IndexFollows, WatchedAreInstalled, Quiet, Idle

\* Nothing else changes what the index or the metadata say.
LEMMA UnmovedFollowsMetadata ==
    ASSUME IndexFollows, UNCHANGED <<meta, expr, index, stack, rows>>
    PROVE  IndexFollows'
<1>1. \A q : /\ Watches(q)' = Watches(q) /\ (Awaits(q)' <=> Awaits(q))
             /\ (Installed(q)' <=> Installed(q)) /\ (Active(q)' <=> Active(q))
  BY DEF Watches, Awaits, At, Top, Installed, Active
<1>2. WatchedAreInstalled'
  BY <1>1 DEF IndexFollows, WatchedAreInstalled
<1>3. ActiveAreWatched'
  BY <1>1 DEF IndexFollows, ActiveAreWatched
<1>4. \A f : Suits(f) => Suits(f)'
  BY DEF Suits, Watches, Installed
<1>5. \A t \in Threads : stack'[t] # <<>> => Suits(Top(t))'
  <2> SUFFICES ASSUME NEW t \in Threads, stack'[t] # <<>> PROVE Suits(Top(t))'
    OBVIOUS
  <2>1. PICK f : f = Top(t)
    OBVIOUS
  <2>2. Suits(f) /\ Top(t)' = f
    BY <2>1 DEF IndexFollows, Top
  <2>3. Suits(f)'
    BY <1>4, <2>2
  <2> QED
    BY <2>2, <2>3 DEF Suits
<1>6. \A s \in rows' : Installed(s)' /\ Watches(s)' = {}
  BY <1>1 DEF IndexFollows
<1>7. rows' # {} => Quiet'
  BY DEF IndexFollows, Quiet, Idle
<1> QED
  BY <1>2, <1>3, <1>5, <1>6, <1>7 DEF IndexFollows

\* Nothing is watched and nothing installed to begin with ...
LEMMA InitFollowsMetadata == PeerInit => IndexFollows
<1> SUFFICES ASSUME PeerInit PROVE IndexFollows
  OBVIOUS
<1>1. \A q : ~Contains(<<>>, q)
  BY DEF Contains
<1>2. \A q : Watches(q) = {}
  BY <1>1 DEF PeerInit, Init, Watches
<1>3. \A q \in Subgraphs : ~Installed(q)
  BY DEF PeerInit, Init, Installed
<1> QED
  BY <1>2, <1>3 DEF PeerInit, Init, IndexFollows, WatchedAreInstalled, ActiveAreWatched, Active

\* ... and every step of a peer with one thread keeps the two together.
LEMMA StepFollowsMetadata ==
    OneThread /\ IInv /\ WellFormed /\ IndexFollows /\ [PeerNext]_peerVars => IndexFollows'
<1> SUFFICES ASSUME OneThread, IInv, WellFormed, IndexFollows, [PeerNext]_peerVars
             PROVE  IndexFollows'
  OBVIOUS
<1>1. CASE UNCHANGED <<vars, rows>>
  BY <1>1, UnmovedFollowsMetadata DEF vars
<1>2. CASE Restart
  BY <1>2, RestartFollowsMetadata
<1>3. ASSUME NEW s \in Subgraphs, Rebuild(s) PROVE IndexFollows'
  BY <1>3, RebuildFollowsMetadata
<1>4. ASSUME NEW g, Expire(g), UNCHANGED rows PROVE IndexFollows'
  BY <1>4, UnmovedFollowsMetadata DEF Expire
<1>5. ASSUME NEW t \in Threads, Arrive(t) PROVE IndexFollows'
  <2>1. Threads = {t}
    BY DEF OneThread
  <2> QED
    BY <1>5, <2>1, RequestFollowsMetadata DEF Arrive, Serving, restartVars
<1>6. ASSUME NEW t \in Threads, Serve(t) PROVE IndexFollows'
  <2>1. Threads = {t}
    BY DEF OneThread
  <2> QED
    BY <1>6, <2>1, RunFollowsMetadata DEF Serve, Serving
<1> QED
  BY <1>1, <1>2, <1>3, <1>4, <1>5, <1>6 DEF PeerNext, Rest, peerVars, restartVars

\* When the peer is quiet, an index that follows the metadata matches it.
LEMMA FollowingMatches == IndexFollows => IndexMatchesTree
<1> SUFFICES ASSUME IndexFollows, Quiet, Serving, NEW s \in Subgraphs
             PROVE  /\ Watches(s) # {} =>
                          Installed(s) /\ \E e \in Expressions : Watches(s) = ToSet(Reads[e])
                    /\ (Active(s) /\ expr[s] \in Reaudited /\ \A edit \in Edits : edit[1] # s)
                          => Watches(s) = ToSet(Reads[expr[s]])
  BY DEF IndexMatchesTree
<1>1. ~Awaits(s)
  BY NothingAwaits DEF Serving
<1> QED
  BY <1>1 DEF IndexFollows, WatchedAreInstalled, ActiveAreWatched

--------------------------------------------------------------------------------
(***************************************************************************)
(* A frozen subgraph tells why, as long as one thread serves.  Between     *)
(* writing a reason to the result path and marking the metadata frozen the *)
(* engine runs a whole cascade, in which the subgraph is still active.     *)
(* Each of the three causes of a freeze keeps that cascade from publishing *)
(* over the reason: too deep, it freezes whatever it wakes; with an        *)
(* expired grant, the subgraph is evaluated by nobody; over the backstop,  *)
(* it wakes nobody.                                                        *)
(***************************************************************************)
Causes == {"deep", "expired", "refused"}

Backed(t, why, q) ==
    /\ why = "expired" => Installed(q) /\ meta[q].grant \in expired
    /\ why = "refused" => OverBackstop(t)

Deep(f) ==
    \/ f.op \in {"mark", "forget"}
    \/ f.op \in {"event", "wake", "refuse", "freeze"} /\ f.depth >= CascadeLimit

Refusing(f) == f.op \in {"event", "refuse", "freeze", "mark"}

Doomed(q, f) ==
    \/ f.op \in {"event", "wake", "refuse", "freeze", "mark", "forget"}
    \/ f.op = "evaluate" /\ f.grant \in expired
    \/ f.op \in {"evaluate", "publish"} /\ f.sub # q

\* A call that is made for such a cause leaves q's reason alone.
Spares(why, q, f) ==
    /\ why = "deep" => Deep(f)
    /\ why = "refused" => Refusing(f)
    /\ why = "expired" => Doomed(q, f)

SparesAbove(s, n, why, q) == \A j \in n + 1 .. Len(s) : Spares(why, q, Frame(s, j))

\* A mark that waits has its reason in the tree, and a refusal its backstop.
MarkStands(t, n) ==
    LET f == Frame(stack[t], n)
    IN  f.op = "mark" =>
          /\ Installed(f.sub) /\ f.meta.grant = meta[f.sub].grant /\ tree[f.sub] \in FreezeCodes
          /\ \E why \in Causes : Backed(t, why, f.sub) /\ SparesAbove(stack[t], n, why, f.sub)

RefusalStands(t, n) ==
    Frame(stack[t], n).op = "refuse" =>
        OverBackstop(t) /\ \A q : SparesAbove(stack[t], n, "refused", q)

\* The innermost call evaluates, publishes or freezes with good reason.
Apt(t, f) ==
    /\ f.op \in {"evaluate", "publish", "register", "evaluate_now"} => ~Frozen(f.sub)
    /\ f.op = "evaluate" /\ Installed(f.sub) => meta[f.sub].grant = f.grant
    /\ f.op = "freeze" =>
          /\ f.code \in FreezeCodes
          /\ \/ f.depth >= CascadeLimit
             \/ Installed(f.sub) => meta[f.sub].grant \in expired
             \/ OverBackstop(t)

FrozenTell == \A s \in Subgraphs : Frozen(s) => tree[s] \in FreezeCodes

Told ==
    /\ FrozenTell
    /\ \A t \in Threads :
          /\ \A n \in 1 .. Len(stack[t]) : MarkStands(t, n) /\ RefusalStands(t, n)
          /\ stack[t] # <<>> => Apt(t, Top(t))

\* A call that spares q makes and becomes only calls that do ...
LEMMA SparingGoesOn ==
    ASSUME NEW t, NEW f, NEW why \in Causes, NEW q, Backed(t, why, q), Spares(why, q, f)
    PROVE  /\ \A h : Turns(t, f, h) => Spares(why, q, h)
           /\ \A h, r : Makes(t, f, h, r) => Spares(why, q, h) /\ Spares(why, q, r)
<1>1. CASE why = "deep"
  <2>1. Deep(f)
    BY <1>1 DEF Spares
  <2>2. ASSUME NEW h, Turns(t, f, h) PROVE Deep(h)
    BY <2>1, <2>2 DEF Turns, Deep, Refuse, Wake, Mark
  <2>3. ASSUME NEW h, NEW r, Makes(t, f, h, r) PROVE Deep(h) /\ Deep(r)
    BY <2>1, <2>3 DEF Makes, Deep, Refuse, Wake, Mark, Freeze, Call, Event
  <2> QED
    BY <1>1, <2>2, <2>3 DEF Spares
<1>2. CASE why = "refused"
  <2>1. Refusing(f) /\ OverBackstop(t)
    BY <1>2 DEF Spares, Backed
  <2>2. ASSUME NEW h, Turns(t, f, h) PROVE Refusing(h)
    BY <2>1, <2>2 DEF Turns, Refusing, Refuse, Mark
  <2>3. ASSUME NEW h, NEW r, Makes(t, f, h, r) PROVE Refusing(h) /\ Refusing(r)
    BY <2>1, <2>3 DEF Makes, Refusing, Refuse, Mark, Freeze, Event
  <2> QED
    BY <1>2, <2>2, <2>3 DEF Spares
<1>3. CASE why = "expired"
  <2>1. Doomed(q, f) /\ Installed(q) /\ meta[q].grant \in expired
    BY <1>3 DEF Spares, Backed
  <2>2. ASSUME NEW h, Turns(t, f, h) PROVE Doomed(q, h)
    BY <2>1, <2>2 DEF Turns, Doomed, Refuse, Wake, Freeze, Call, Publish, Event, Mark
  <2>3. ASSUME NEW h, NEW r, Makes(t, f, h, r) PROVE Doomed(q, h) /\ Doomed(q, r)
    <3>1. CASE f.op = "wake"
      <4>1. Doomed(q, r)
        BY <2>3, <3>1 DEF Makes, Doomed, Wake
      <4>2. CASE h = Evaluate(Head(f.todo), meta[Head(f.todo)].grant, f.depth)
        <5>1. h.op = "evaluate" /\ h.sub = Head(f.todo) /\ h.grant = meta[Head(f.todo)].grant
          BY <4>2 DEF Evaluate
        <5>2. h.sub = q => h.grant \in expired
          BY <2>1, <5>1
        <5> QED
          BY <4>1, <5>1, <5>2 DEF Doomed
      <4>3. CASE \/ h = Call("forget", Head(f.todo))
                 \/ h = Freeze(Head(f.todo), "cascade_limit", f.depth)
        <5>1. h.op \in {"forget", "freeze"}
          BY <4>3 DEF Call, Freeze
        <5> QED
          BY <4>1, <5>1 DEF Doomed
      <4> QED
        BY <2>3, <3>1, <4>1, <4>2, <4>3 DEF Makes
    <3>2. CASE f.op \in {"refuse", "freeze"}
      BY <2>3, <3>2 DEF Makes, Doomed, Refuse, Freeze, Event, Mark
    <3> QED
      BY <2>3, <3>1, <3>2 DEF Makes
  <2> QED
    BY <1>3, <2>2, <2>3 DEF Spares
<1> QED
  BY <1>1, <1>2, <1>3 DEF Causes

\* ... keeps the cause, and leaves the reason in the tree.
LEMMA SparingKeeps ==
    ASSUME StateTyped, NEW t, NEW f, CallTyped(f), Apt(t, f), Effects(t, f),
           f.op = "mark" => Installed(f.sub) /\ f.meta.grant = meta[f.sub].grant,
           NEW why \in Causes, NEW q \in Subgraphs, Installed(q),
           Backed(t, why, q), Spares(why, q, f)
    PROVE  /\ Backed(t, why, q)' /\ Installed(q)' /\ meta'[q].grant = meta[q].grant
           /\ tree[q] \in FreezeCodes => tree'[q] \in FreezeCodes
<1>1. f.op # "unbind"
  BY DEF Spares, Causes, Deep, Refusing, Doomed
<1>2. Installed(q)' /\ meta'[q].grant = meta[q].grant
  <2>1. CASE f.op = "mark"
    <3> DEFINE m == [f.meta EXCEPT !.status = "frozen"]
    <3>1. m \in Metadata /\ m.grant = f.meta.grant
      BY <2>1 DEF CallTyped, Metadata
    <3>2. meta' = [meta EXCEPT ![f.sub] = m]
      BY <2>1 DEF Effects
    <3> HIDE DEF m
    <3>3. meta'[q] = IF q = f.sub THEN m ELSE meta[q]
      BY <3>2 DEF StateTyped
    <3>4. CASE q = f.sub
      <4>1. meta'[q] = m
        BY <3>3, <3>4
      <4> QED
        BY <2>1, <3>1, <3>4, <4>1, EngineAssumption DEF Installed
    <3>5. CASE q # f.sub
      BY <3>3, <3>5 DEF Installed
    <3> QED
      BY <3>4, <3>5
  <2>2. CASE f.op # "mark"
    BY <1>1, <2>2 DEF Effects, Installed
  <2> QED
    BY <2>1, <2>2
<1>3. Backed(t, why, q)'
  <2>1. CASE why = "refused"
    <3>1. reentry' = reentry
      BY <2>1 DEF Spares, Refusing, Effects, Backed
    <3> QED
      BY <2>1, <3>1 DEF Backed, OverBackstop, Counter
  <2>2. CASE why = "expired"
    BY <1>2, <2>2 DEF Backed, Effects
  <2>3. CASE why = "deep"
    BY <2>3 DEF Backed
  <2> QED
    BY <2>1, <2>2, <2>3 DEF Causes
<1>4. ASSUME tree[q] \in FreezeCodes PROVE tree'[q] \in FreezeCodes
  <2>1. CASE f.op = "publish"
    <3>1. f.sub # q /\ q \in DOMAIN tree
      BY <2>1 DEF Spares, Causes, Deep, Refusing, Doomed, StateTyped, Paths
    <3> QED
      BY <1>4, <2>1, <3>1 DEF Effects
  <2>2. CASE f.op = "freeze"
    <3>1. f.code \in FreezeCodes /\ tree' = IF Installed(f.sub) THEN [tree EXCEPT ![f.sub] = f.code] ELSE tree
      BY <2>2 DEF Apt, Effects
    <3>2. q \in DOMAIN tree
      BY DEF StateTyped, Paths
    <3> QED
      BY <1>4, <3>1, <3>2
  <2>3. CASE f.op \notin {"publish", "freeze"}
    BY <1>4, <2>3 DEF Effects
  <2> QED
    BY <2>1, <2>2, <2>3
<1> QED
  BY <1>2, <1>3, <1>4

\* The innermost call after a step of the thread is as apt as the one before.
LEMMA RunStaysApt ==
    ASSUME IInv, WellFormed, Told, NEW t \in Threads, Run(t), stack'[t] # <<>>
    PROVE  Apt(t, Top(t))'
<1>0. PICK f : f = Top(t)
  OBVIOUS
<1>1. stack[t] # <<>> /\ GoesOnAs(t, f) /\ Effects(t, f) /\ Apt(t, f)
  BY <1>0, RunFollows DEF Told
<1>2. f.op = "refuse" => OverBackstop(t)
  <2>1. Len(stack[t]) \in 1 .. Len(stack[t]) /\ f = Frame(stack[t], Len(stack[t]))
    BY <1>0, <1>1, TopIsLast
  <2> QED
    BY <2>1 DEF Told, RefusalStands
<1>3. ASSUME NEW h, h.op \notin {"evaluate", "publish", "register", "evaluate_now", "freeze"},
             Top(t)' = h
      PROVE  Apt(t, Top(t))'
  BY <1>3 DEF Apt
<1>4. ASSUME NEW h, Top(t)' = h, meta' = meta, h.op = "evaluate", ~Frozen(h.sub),
             Installed(h.sub) => meta[h.sub].grant = h.grant
      PROVE  Apt(t, Top(t))'
  BY <1>4 DEF Apt, Frozen, Installed
<1>5. ASSUME NEW h, Top(t)' = h, meta' = meta, h.op \in {"publish", "evaluate_now"}, ~Frozen(h.sub)
      PROVE  Apt(t, Top(t))'
  BY <1>5 DEF Apt, Frozen, Installed
<1>6. ASSUME NEW h, Top(t)' = h, UNCHANGED <<meta, expired, reentry>>, h.op = "freeze",
             h.code \in FreezeCodes,
             \/ h.depth >= CascadeLimit
             \/ Installed(h.sub) => meta[h.sub].grant \in expired
             \/ OverBackstop(t)
      PROVE  Apt(t, Top(t))'
  BY <1>6 DEF Apt, Installed, OverBackstop, Counter
<1>c. "cascade_limit" \in FreezeCodes /\ "installation_grant_invalid" \in FreezeCodes
  BY DEF FreezeCodes
<1>7. CASE Continue(t, <<>>)
  <2>1. Top(t)' = Frame(stack[t], Len(stack[t]) - 1) /\ Len(stack[t]) - 1 \in 1 .. Len(stack[t]) - 1
    BY <1>1, <1>7, Uncovered
  <2>2. Top(t)'.op \in Waiting
    BY <2>1 DEF WellFormed, Shaped
  <2> QED
    BY <1>3, <2>2 DEF Waiting
<1>8. ASSUME NEW h, Continue(t, <<h>>), Turns(t, f, h) PROVE Apt(t, Top(t))'
  <2>1. Top(t)' = h
    BY <1>1, <1>8, Turned
  <2>2. CASE f.op = "evaluate"
    <3>1. UNCHANGED <<meta, expired, reentry>> /\ ~Frozen(f.sub)
      BY <1>1, <2>2 DEF Effects, Apt
    <3>2. CASE f.grant \in expired /\ h = Freeze(f.sub, "installation_grant_invalid", f.depth)
      <4>1. h.op = "freeze" /\ h.sub = f.sub /\ h.code \in FreezeCodes
        BY <1>c, <3>2 DEF Freeze
      <4>2. Installed(h.sub) => meta[h.sub].grant \in expired
        BY <1>1, <2>2, <3>2, <4>1 DEF Apt
      <4> QED
        BY <1>6, <2>1, <3>1, <4>1, <4>2
    <3>3. CASE h = Call("forget", f.sub)
      <4>1. h.op = "forget"
        BY <3>3 DEF Call
      <4> QED
        BY <1>3, <2>1, <4>1
    <3>4. CASE \E v : h = Publish(f.sub, v, f.depth)
      <4>1. h.op = "publish" /\ h.sub = f.sub
        BY <3>4 DEF Publish
      <4> QED
        BY <1>5, <2>1, <3>1, <4>1
    <3> QED
      BY <1>8, <2>2, <3>2, <3>3, <3>4 DEF Turns
  <2>3. CASE f.op = "register"
    <3>1. meta' = meta /\ ~Frozen(f.sub)
      BY <1>1, <2>3 DEF Effects, Apt
    <3>2. h.op = "evaluate_now" /\ h.sub = f.sub
      BY <1>8, <2>3 DEF Turns, Call
    <3> QED
      BY <1>5, <2>1, <3>1, <3>2
  <2>4. CASE f.op = "evaluate_now"
    <3>1. meta' = meta /\ ~Frozen(f.sub)
      BY <1>1, <2>4 DEF Effects, Apt
    <3>2. h.op = "evaluate" /\ h.sub = f.sub /\ h.grant = meta[f.sub].grant
      BY <1>8, <2>4 DEF Turns, Evaluate
    <3> QED
      BY <1>4, <2>1, <3>1, <3>2
  <2>5. CASE f.op \notin {"evaluate", "register", "evaluate_now"}
    <3>1. h.op \in {"refuse", "wake", "event", "mark"}
      BY <1>8, <2>5 DEF Turns, Refuse, Wake, Event, Mark
    <3> QED
      BY <1>3, <2>1, <3>1
  <2> QED
    BY <2>2, <2>3, <2>4, <2>5
<1>9. ASSUME NEW h, NEW r, Continue(t, <<h, r>>), Makes(t, f, h, r) PROVE Apt(t, Top(t))'
  <2>1. Top(t)' = h
    BY <1>1, <1>9, Covered
  <2>2. CASE f.op = "wake"
    <3>0. UNCHANGED <<meta, expired>>
      BY <1>1, <2>2 DEF Effects
    <3>1. CASE h = Call("forget", Head(f.todo))
      <4>1. h.op = "forget"
        BY <3>1 DEF Call
      <4> QED
        BY <1>3, <2>1, <4>1
    <3>2. CASE f.depth >= CascadeLimit /\ h = Freeze(Head(f.todo), "cascade_limit", f.depth)
      <4>1. h.op = "freeze" /\ h.code \in FreezeCodes /\ h.depth >= CascadeLimit
        BY <1>c, <3>2 DEF Freeze
      <4> QED
        BY <2>1, <4>1 DEF Apt
    <3>3. CASE /\ ~Frozen(Head(f.todo))
               /\ h = Evaluate(Head(f.todo), meta[Head(f.todo)].grant, f.depth)
      <4>1. h.op = "evaluate" /\ h.sub = Head(f.todo) /\ h.grant = meta[Head(f.todo)].grant
        BY <3>3 DEF Evaluate
      <4> QED
        BY <1>4, <2>1, <3>0, <3>3, <4>1
    <3> QED
      BY <1>9, <2>2, <3>1, <3>2, <3>3 DEF Makes
  <2>3. CASE f.op = "refuse"
    <3>1. UNCHANGED <<meta, expired, reentry>> /\ OverBackstop(t)
      BY <1>1, <1>2, <2>3 DEF Effects
    <3>2. h.op = "freeze" /\ h.code \in FreezeCodes
      BY <1>9, <1>c, <2>3 DEF Makes, Freeze
    <3> QED
      BY <1>6, <2>1, <3>1, <3>2
  <2>4. CASE f.op = "freeze"
    <3>1. h.op = "event"
      BY <1>9, <2>4 DEF Makes, Event
    <3> QED
      BY <1>3, <2>1, <3>1
  <2> QED
    BY <1>9, <2>2, <2>3, <2>4 DEF Makes
<1> QED
  BY <1>1, <1>7, <1>8, <1>9 DEF GoesOnAs

\* A frozen subgraph still tells why after a step of a call.
LEMMA RunTellsFrozen ==
    ASSUME WellFormed, FrozenTell, NEW t, NEW f, CallTyped(f), Apt(t, f), Effects(t, f),
           f.op = "mark" => tree[f.sub] \in FreezeCodes
    PROVE  FrozenTell'
<1>0. StateTyped
  BY DEF WellFormed
<1> SUFFICES ASSUME NEW s \in Subgraphs, Frozen(s)' PROVE tree'[s] \in FreezeCodes
  BY DEF FrozenTell
<1>1. s \in DOMAIN tree /\ s \in DOMAIN meta
  BY <1>0 DEF StateTyped, Paths
<1>2. CASE f.op = "publish"
  <2>1. meta' = meta /\ tree' = [tree EXCEPT ![f.sub] = f.value] /\ ~Frozen(f.sub)
    BY <1>2 DEF Effects, Apt
  <2>2. Frozen(s)
    BY <2>1 DEF Frozen, Installed
  <2>3. s # f.sub
    BY <2>1, <2>2
  <2>4. tree'[s] = tree[s]
    BY <1>1, <2>1, <2>3
  <2> QED
    BY <2>2, <2>4 DEF FrozenTell
<1>3. CASE f.op = "freeze"
  <2>1. /\ meta' = meta /\ f.code \in FreezeCodes
        /\ tree' = IF Installed(f.sub) THEN [tree EXCEPT ![f.sub] = f.code] ELSE tree
    BY <1>3 DEF Effects, Apt
  <2>2. Frozen(s)
    BY <2>1 DEF Frozen, Installed
  <2>3. tree'[s] = tree[s] \/ tree'[s] = f.code
    BY <1>1, <2>1
  <2> QED
    BY <2>1, <2>2, <2>3 DEF FrozenTell
<1>4. CASE f.op = "mark"
  <2>1. tree' = tree /\ meta' = [meta EXCEPT ![f.sub] = [f.meta EXCEPT !.status = "frozen"]]
    BY <1>4 DEF Effects
  <2>2. CASE s = f.sub
    BY <1>4, <2>1, <2>2
  <2>3. CASE s # f.sub
    <3>1. meta'[s] = meta[s]
      BY <1>1, <2>1, <2>3
    <3>2. Frozen(s)
      BY <3>1 DEF Frozen, Installed
    <3> QED
      BY <2>1, <3>2 DEF FrozenTell
  <2> QED
    BY <2>2, <2>3
<1>5. CASE f.op = "unbind"
  <2>1. tree' = tree /\ meta' = [meta EXCEPT ![f.sub] = Unset]
    BY <1>5 DEF Effects
  <2>2. s # f.sub
    BY <1>1, <2>1 DEF Frozen, Installed
  <2>3. meta'[s] = meta[s]
    BY <1>1, <2>1, <2>2
  <2>4. Frozen(s)
    BY <2>3 DEF Frozen, Installed
  <2> QED
    BY <2>1, <2>4 DEF FrozenTell
<1>6. CASE f.op \notin {"publish", "freeze", "mark", "unbind"}
  <2>1. tree' = tree /\ meta' = meta
    BY <1>6 DEF Effects
  <2>2. Frozen(s)
    BY <2>1 DEF Frozen, Installed
  <2> QED
    BY <2>1, <2>2 DEF FrozenTell
<1> QED
  BY <1>2, <1>3, <1>4, <1>5, <1>6

\* A freeze that writes its reason has a cause, which its event spares.
LEMMA FreezeHasCause ==
    ASSUME StateTyped, NEW t, NEW f, CallTyped(f), Apt(t, f), Effects(t, f),
           f.op = "freeze", Installed(f.sub)
    PROVE  /\ Installed(f.sub) /\ UNCHANGED meta
           /\ tree'[f.sub] \in FreezeCodes
           /\ \E why \in Causes : Backed(t, why, f.sub)' /\ Spares(why, f.sub, Event(f.sub, f.depth))
<1>1. UNCHANGED <<meta, expired, reentry>> /\ tree' = [tree EXCEPT ![f.sub] = f.code]
  BY DEF Effects
<1>2. f.sub \in DOMAIN tree /\ f.code \in FreezeCodes
  BY DEF CallTyped, StateTyped, Apt, Paths
<1>3. tree'[f.sub] \in FreezeCodes
  BY <1>1, <1>2
<1>4. \A why : Backed(t, why, f.sub) => Backed(t, why, f.sub)'
  BY <1>1 DEF Backed, Installed, OverBackstop, Counter
<1>5. ASSUME NEW why \in Causes, why = "deep" => f.depth >= CascadeLimit
      PROVE  Spares(why, f.sub, Event(f.sub, f.depth))
  BY <1>5 DEF Spares, Deep, Refusing, Doomed, Event
<1>6. \E why \in Causes : Backed(t, why, f.sub) /\ (why = "deep" => f.depth >= CascadeLimit)
  <2>1. CASE f.depth >= CascadeLimit
    BY <2>1 DEF Backed, Causes
  <2>2. CASE meta[f.sub].grant \in expired
    BY <2>2 DEF Backed, Causes
  <2>3. CASE OverBackstop(t)
    BY <2>3 DEF Backed, Causes
  <2> QED
    BY <2>1, <2>2, <2>3 DEF Apt
<1> QED
  BY <1>1, <1>3, <1>4, <1>5, <1>6

\* What waits for a call to end still stands after a step of it, and so does
\* what the step leaves waiting.
LEMMA RunStands ==
    ASSUME IInv, WellFormed, Told, NEW t \in Threads, Run(t)
    PROVE  \A n \in 1 .. Len(stack'[t]) : MarkStands(t, n)' /\ RefusalStands(t, n)'
<1>0. PICK f : f = Top(t)
  OBVIOUS
<1>1. stack[t] # <<>> /\ GoesOnAs(t, f) /\ Effects(t, f) /\ Apt(t, f)
  BY <1>0, RunFollows DEF Told
<1>w. PICK k : k = Len(stack[t])
  OBVIOUS
<1>2. k \in Nat \ {0} /\ k \in 1 .. k /\ f = Frame(stack[t], k) /\ CallTyped(f)
  <2>1. k \in Nat \ {0} /\ f = Frame(stack[t], k)
    BY <1>0, <1>1, <1>w, TopIsLast
  <2> QED
    BY <1>w, <2>1 DEF WellFormed, Shaped
<1>3. \A n \in 1 .. k : MarkStands(t, n) /\ RefusalStands(t, n)
  BY <1>w DEF Told
<1>4. StateTyped /\ expired' = expired
  BY <1>1 DEF WellFormed, Effects
<1>5. \A why, q, h : Spares(why, q, h)' <=> Spares(why, q, h)
  BY <1>4 DEF Spares, Deep, Refusing, Doomed
<1>m. f.op = "mark" => Installed(f.sub) /\ f.meta.grant = meta[f.sub].grant
  BY <1>2, <1>3 DEF MarkStands
<1>6. ASSUME NEW n \in 1 .. k - 1, NEW why, NEW q, SparesAbove(stack[t], n, why, q)
      PROVE  Spares(why, q, f)
  <2>1. k \in n + 1 .. k
    BY <1>2
  <2> QED
    BY <1>2, <1>6, <1>w, <2>1 DEF SparesAbove
<1>7. \A n \in 1 .. k - 1 : Frame(stack'[t], n) = Frame(stack[t], n)
  BY <1>1, <1>w, Uncovered, Turned, Covered DEF GoesOnAs
<1>8. ASSUME NEW why \in Causes, NEW q, Backed(t, why, q), Spares(why, q, f)
      PROVE  \A j \in k .. Len(stack'[t]) : Spares(why, q, Frame(stack'[t], j))
  <2>0. /\ \A h : Turns(t, f, h) => Spares(why, q, h)
        /\ \A h, r : Makes(t, f, h, r) => Spares(why, q, h) /\ Spares(why, q, r)
    BY <1>8, SparingGoesOn
  <2>1. CASE Continue(t, <<>>)
    <3>1. Len(stack'[t]) = k - 1
      BY <1>1, <1>w, <2>1, Uncovered
    <3> QED
      BY <1>2, <3>1
  <2>2. ASSUME NEW h, Continue(t, <<h>>), Turns(t, f, h)
        PROVE  \A j \in k .. Len(stack'[t]) : Spares(why, q, Frame(stack'[t], j))
    <3>1. Len(stack'[t]) = k /\ Frame(stack'[t], k) = h
      BY <1>1, <1>w, <2>2, Turned
    <3>2. \A j \in k .. k : j = k
      BY <1>2
    <3> QED
      BY <2>0, <2>2, <3>1, <3>2
  <2>3. ASSUME NEW h, NEW r, Continue(t, <<h, r>>), Makes(t, f, h, r)
        PROVE  \A j \in k .. Len(stack'[t]) : Spares(why, q, Frame(stack'[t], j))
    <3>1. Len(stack'[t]) = k + 1 /\ Frame(stack'[t], k) = r /\ Frame(stack'[t], k + 1) = h
      BY <1>1, <1>w, <2>3, Covered
    <3>2. \A j \in k .. k + 1 : j = k \/ j = k + 1
      BY <1>2
    <3> QED
      BY <2>0, <2>3, <3>1, <3>2
  <2> QED
    BY <1>1, <2>1, <2>2, <2>3 DEF GoesOnAs
<1>9. ASSUME NEW n \in 1 .. k - 1, NEW why \in Causes, NEW q, Backed(t, why, q),
             SparesAbove(stack[t], n, why, q)
      PROVE  SparesAbove(stack[t], n, why, q)'
  <2>1. \A j \in k .. Len(stack'[t]) : Spares(why, q, Frame(stack'[t], j))
    BY <1>6, <1>8, <1>9
  <2>2. ASSUME NEW j \in n + 1 .. Len(stack'[t]) PROVE Spares(why, q, Frame(stack'[t], j))
    <3>1. CASE j \in k .. Len(stack'[t])
      BY <2>1, <3>1
    <3>2. CASE j \in n + 1 .. k - 1
      <4>1. j \in 1 .. k - 1 /\ j \in n + 1 .. k
        BY <1>2, <3>2
      <4> QED
        BY <1>7, <1>9, <1>w, <4>1 DEF SparesAbove
    <3>3. j \in k .. Len(stack'[t]) \/ j \in n + 1 .. k - 1
      BY <1>2
    <3> QED
      BY <3>1, <3>2, <3>3
  <2> QED
    BY <1>5, <2>2 DEF SparesAbove
\* Whatever was waiting below.
<1>10. ASSUME NEW n \in 1 .. k - 1 PROVE MarkStands(t, n)'
  <2>1. PICK g : g = Frame(stack[t], n)
    OBVIOUS
  <2>2. Frame(stack'[t], n) = g
    BY <1>7, <2>1
  <2> SUFFICES ASSUME g.op = "mark"
               PROVE  /\ Installed(g.sub)' /\ g.meta.grant = meta'[g.sub].grant
                      /\ tree'[g.sub] \in FreezeCodes
                      /\ \E why \in Causes :
                            Backed(t, why, g.sub)' /\ SparesAbove(stack[t], n, why, g.sub)'
    BY <2>2 DEF MarkStands
  <2>3. n \in 1 .. k /\ n \in 1 .. Len(stack[t])
    BY <1>2, <1>w
  <2>4. /\ Installed(g.sub) /\ g.meta.grant = meta[g.sub].grant /\ tree[g.sub] \in FreezeCodes
        /\ \E why \in Causes : Backed(t, why, g.sub) /\ SparesAbove(stack[t], n, why, g.sub)
    BY <1>3, <2>1, <2>3 DEF MarkStands
  <2>5. PICK why \in Causes : Backed(t, why, g.sub) /\ SparesAbove(stack[t], n, why, g.sub)
    BY <2>4
  <2>6. g.sub \in Subgraphs
    BY <2>1, <2>3 DEF WellFormed, Shaped, CallTyped
  <2>7. Spares(why, g.sub, f)
    BY <1>6, <2>5
  <2>8. /\ Backed(t, why, g.sub)' /\ Installed(g.sub)' /\ meta'[g.sub].grant = meta[g.sub].grant
        /\ tree[g.sub] \in FreezeCodes => tree'[g.sub] \in FreezeCodes
    <3> HIDE DEF Causes
    <3> QED
      BY <1>1, <1>2, <1>4, <1>m, <2>4, <2>5, <2>6, <2>7, SparingKeeps
  <2>9. SparesAbove(stack[t], n, why, g.sub)'
    BY <1>9, <2>5
  <2> QED
    BY <2>4, <2>5, <2>8, <2>9
<1>11. ASSUME NEW n \in 1 .. k - 1 PROVE RefusalStands(t, n)'
  <2>1. Frame(stack'[t], n) = Frame(stack[t], n)
    BY <1>7
  <2> SUFFICES ASSUME Frame(stack[t], n).op = "refuse"
               PROVE  OverBackstop(t)' /\ \A q : SparesAbove(stack[t], n, "refused", q)'
    BY <2>1 DEF RefusalStands
  <2>2. n \in 1 .. k
    BY <1>2
  <2>3. OverBackstop(t) /\ \A q : SparesAbove(stack[t], n, "refused", q)
    BY <1>3, <2>2 DEF RefusalStands
  <2>4. "refused" \in Causes /\ \A q : Backed(t, "refused", q)
    BY <2>3 DEF Causes, Backed
  <2>5. \A q : SparesAbove(stack[t], n, "refused", q)'
    BY <1>9, <2>3, <2>4
  <2>6. Refusing(f)
    BY <1>6, <2>3 DEF Spares
  <2>7. reentry' = reentry
    BY <1>1, <2>3, <2>6 DEF Refusing, Effects
  <2> QED
    BY <2>3, <2>5, <2>7 DEF OverBackstop, Counter
\* The call that the innermost one turned into.
<1>12. ASSUME NEW h, Continue(t, <<h>>), Turns(t, f, h)
       PROVE  Len(stack'[t]) = k /\ MarkStands(t, k)' /\ RefusalStands(t, k)'
  <2>1. Len(stack'[t]) = k /\ Frame(stack'[t], k) = h
    BY <1>1, <1>12, <1>w, Turned
  <2>2. \A why, q : SparesAbove(stack[t], k, why, q)'
    <3>1. k + 1 .. k = {}
      BY <1>2
    <3> QED
      BY <2>1, <3>1 DEF SparesAbove
  <2>3. ASSUME h.op = "mark"
        PROVE  /\ Installed(h.sub)' /\ h.meta.grant = meta'[h.sub].grant
               /\ tree'[h.sub] \in FreezeCodes
               /\ \E why \in Causes : Backed(t, why, h.sub)'
    <3>1. f.op = "freeze" /\ Installed(f.sub) /\ h = Mark(f.sub, meta[f.sub])
      BY <1>12, <2>3 DEF Turns, Refuse, Wake, Freeze, Call, Publish, Event, Evaluate
    <3>2. h.sub = f.sub /\ h.meta = meta[f.sub]
      BY <3>1 DEF Mark
    <3>3. /\ Installed(f.sub) /\ UNCHANGED meta /\ tree'[f.sub] \in FreezeCodes
          /\ \E why \in Causes : Backed(t, why, f.sub)'
      BY <1>1, <1>2, <1>4, <3>1, FreezeHasCause
    <3> QED
      BY <3>2, <3>3 DEF Installed
  <2>4. ASSUME h.op = "refuse" PROVE OverBackstop(t)'
    <3>1. f.op = "event" /\ OverBackstop(t)
      BY <1>12, <2>4 DEF Turns, Wake, Freeze, Call, Publish, Event, Evaluate, Mark
    <3>2. reentry' = reentry
      BY <1>1, <3>1 DEF Effects
    <3> QED
      BY <3>1, <3>2 DEF OverBackstop, Counter
  <2>5. MarkStands(t, k)'
    BY <2>1, <2>2, <2>3 DEF MarkStands
  <2>6. RefusalStands(t, k)'
    BY <2>1, <2>2, <2>4 DEF RefusalStands
  <2> QED
    BY <2>1, <2>5, <2>6
\* The call it made, and what waits for that one.
<1>13. ASSUME NEW h, NEW r, Continue(t, <<h, r>>), Makes(t, f, h, r)
       PROVE  /\ Len(stack'[t]) = k + 1
              /\ MarkStands(t, k)' /\ RefusalStands(t, k)'
              /\ MarkStands(t, k + 1)' /\ RefusalStands(t, k + 1)'
  <2>1. Len(stack'[t]) = k + 1 /\ Frame(stack'[t], k) = r /\ Frame(stack'[t], k + 1) = h
    BY <1>1, <1>13, <1>w, Covered
  <2>2. h.op \notin {"mark", "refuse"}
    BY <1>13 DEF Makes, Call, Freeze, Evaluate, Event
  <2>3. MarkStands(t, k + 1)' /\ RefusalStands(t, k + 1)'
    BY <2>1, <2>2 DEF MarkStands, RefusalStands
  <2>4. ASSUME NEW why, NEW q, Spares(why, q, h) PROVE SparesAbove(stack[t], k, why, q)'
    <3>1. \A j \in k + 1 .. k + 1 : j = k + 1
      BY <1>2
    <3> QED
      BY <1>5, <2>1, <2>4, <3>1 DEF SparesAbove
  <2>5. ASSUME r.op = "mark"
        PROVE  /\ Installed(r.sub)' /\ r.meta.grant = meta'[r.sub].grant
               /\ tree'[r.sub] \in FreezeCodes
               /\ \E why \in Causes : Backed(t, why, r.sub)' /\ SparesAbove(stack[t], k, why, r.sub)'
    <3>1. /\ f.op = "freeze" /\ Installed(f.sub)
          /\ h = Event(f.sub, f.depth) /\ r = Mark(f.sub, meta[f.sub])
      BY <1>13, <2>5 DEF Makes, Wake, Refuse
    <3>2. r.sub = f.sub /\ r.meta = meta[f.sub]
      BY <3>1 DEF Mark
    <3>3. /\ Installed(f.sub) /\ UNCHANGED meta /\ tree'[f.sub] \in FreezeCodes
          /\ \E why \in Causes : Backed(t, why, f.sub)' /\ Spares(why, f.sub, h)
      BY <1>1, <1>2, <1>4, <3>1, FreezeHasCause
    <3> QED
      BY <2>4, <3>2, <3>3 DEF Installed
  <2>6. ASSUME r.op = "refuse"
        PROVE  OverBackstop(t)' /\ \A q : SparesAbove(stack[t], k, "refused", q)'
    <3>1. f.op = "refuse" /\ h.op = "freeze"
      BY <1>13, <2>6 DEF Makes, Wake, Mark, Freeze
    <3>2. OverBackstop(t) /\ reentry' = reentry
      BY <1>1, <1>2, <1>3, <3>1 DEF RefusalStands, Effects
    <3>3. \A q : Spares("refused", q, h)
      BY <3>1 DEF Spares, Refusing
    <3> QED
      BY <2>4, <3>2, <3>3 DEF OverBackstop, Counter
  <2>7. MarkStands(t, k)'
    BY <2>1, <2>5 DEF MarkStands
  <2>8. RefusalStands(t, k)'
    BY <2>1, <2>6 DEF RefusalStands
  <2> QED
    BY <2>1, <2>3, <2>7, <2>8
<1>14. ASSUME NEW n \in 1 .. Len(stack'[t]) PROVE MarkStands(t, n)' /\ RefusalStands(t, n)'
  <2>1. CASE n \in 1 .. k - 1
    BY <1>10, <1>11, <2>1
  <2>2. CASE n \notin 1 .. k - 1
    <3>1. CASE Continue(t, <<>>)
      BY <1>1, <1>w, <2>2, <3>1, Uncovered
    <3>2. CASE \E h : Continue(t, <<h>>) /\ Turns(t, f, h)
      <4>1. Len(stack'[t]) = k /\ MarkStands(t, k)' /\ RefusalStands(t, k)'
        BY <1>12, <3>2
      <4>2. n = k
        BY <1>2, <2>2, <4>1
      <4> QED
        BY <4>1, <4>2
    <3>3. CASE \E h, r : Continue(t, <<h, r>>) /\ Makes(t, f, h, r)
      <4>1. /\ Len(stack'[t]) = k + 1
            /\ MarkStands(t, k)' /\ RefusalStands(t, k)'
            /\ MarkStands(t, k + 1)' /\ RefusalStands(t, k + 1)'
        BY <1>13, <3>3
      <4>2. n = k \/ n = k + 1
        BY <1>2, <2>2, <4>1
      <4> QED
        BY <4>1, <4>2
    <3> QED
      BY <1>1, <3>1, <3>2, <3>3 DEF GoesOnAs
  <2> QED
    BY <2>1, <2>2
<1> QED
  BY <1>14

\* A step of the only thread keeps the reasons.
LEMMA RunTells ==
    ASSUME IInv, WellFormed, Told, NEW t, Threads = {t}, Run(t)
    PROVE  Told'
<1>0. PICK f : f = Top(t)
  OBVIOUS
<1>1. t \in Threads
  OBVIOUS
<1>2. stack[t] # <<>> /\ Effects(t, f) /\ Apt(t, f)
  BY <1>0, <1>1, RunFollows DEF Told
<1>3. CallTyped(f) /\ (f.op = "mark" => tree[f.sub] \in FreezeCodes)
  <2>1. Len(stack[t]) \in 1 .. Len(stack[t]) /\ f = Frame(stack[t], Len(stack[t]))
    BY <1>0, <1>1, <1>2, TopIsLast
  <2>2. CallTyped(f)
    BY <1>1, <2>1 DEF WellFormed, Shaped
  <2>3. MarkStands(t, Len(stack[t]))
    BY <1>1, <2>1 DEF Told
  <2> QED
    BY <2>1, <2>2, <2>3 DEF MarkStands
<1>4. FrozenTell'
  BY <1>2, <1>3, RunTellsFrozen DEF Told
<1>5. \A n \in 1 .. Len(stack'[t]) : MarkStands(t, n)' /\ RefusalStands(t, n)'
  BY <1>1, RunStands
<1>6. stack'[t] # <<>> => Apt(t, Top(t))'
  BY <1>1, RunStaysApt
<1>7. \A u \in Threads : u = t
  OBVIOUS
<1> QED
  BY <1>4, <1>5, <1>6, <1>7 DEF Told

\* A request puts one call on an empty stack, which is no mark and no refusal.
LEMMA RequestIsTold ==
    ASSUME IInv, WellFormed, NEW t, Threads = {t}, FrozenTell', NEW f, CallTyped(f),
           f.op \notin {"mark", "refuse"}, stack' = [stack EXCEPT ![t] = <<f>>],
           Apt(t, f)'
    PROVE  Told'
<1>1. stack'[t] = <<f>> /\ Top(t)' = f
  BY RequestShapes
<1>2. Len(<<f>>) = 1 /\ <<f>>[1] = f
  OBVIOUS
<1>3. ASSUME NEW n \in 1 .. Len(stack'[t]) PROVE Frame(stack'[t], n) = f
  BY <1>1, <1>2 DEF Frame
<1>4. \A n \in 1 .. Len(stack'[t]) : MarkStands(t, n)' /\ RefusalStands(t, n)'
  BY <1>3 DEF MarkStands, RefusalStands
<1>5. Apt(t, Top(t))'
  BY <1>1 DEF Apt
<1> QED
  BY <1>4, <1>5 DEF Told

\* Callers write inputs, which are nobody's results.
LEMMA RequestTells ==
    ASSUME IInv, WellFormed, Told, NEW t, Threads = {t}, Inputs \cap Subgraphs = {}, Request(t)
    PROVE  Told'
<1>1. StateTyped /\ FrozenTell
  BY DEF WellFormed, Told
<1>2. ASSUME NEW p \in Inputs, NEW v, Put(t, p, v) PROVE Told'
  <2> DEFINE f == Event(p, 0)
  <2>1. CallTyped(f) /\ f.op = "event"
    BY DEF CallTyped, Event, Paths
  <2>2. /\ stack' = [stack EXCEPT ![t] = <<f>>] /\ meta' = meta
        /\ tree' = [tree EXCEPT ![p] = v]
    BY <1>2 DEF Put
  <2> HIDE DEF f
  <2>3. \A s \in Subgraphs : tree'[s] = tree[s]
    BY <1>1, <2>2 DEF StateTyped, Paths
  <2>4. FrozenTell'
    BY <1>1, <2>2, <2>3 DEF FrozenTell, Frozen, Installed
  <2>5. Apt(t, f)'
    BY <2>1 DEF Apt
  <2> QED
    BY <2>1, <2>2, <2>4, <2>5, RequestIsTold
<1>3. ASSUME NEW s \in Subgraphs, NEW g \in Grants, Install(t, s, g) PROVE Told'
  <2> DEFINE m == [grant |-> g, status |-> "active"]
  <2>0. PICK f : f = Registration(s, Reads[expr[s]])
    OBVIOUS
  <2>1. CallTyped(f) /\ f.op = "register" /\ f.sub = s
    BY <2>0 DEF CallTyped, Registration
  <2>2. /\ stack' = [stack EXCEPT ![t] = <<f>>] /\ tree' = tree
        /\ meta' = [meta EXCEPT ![s] = m] /\ m.status = "active"
    BY <1>3, <2>0 DEF Install
  <2> HIDE DEF m
  <2>3. meta'[s] = m /\ \A q \in Subgraphs : q # s => meta'[q] = meta[q]
    BY <1>1, <2>2 DEF StateTyped
  <2>4. ~Frozen(s)'
    BY <2>2, <2>3 DEF Frozen
  <2>5. FrozenTell'
    BY <1>1, <2>2, <2>3, <2>4 DEF FrozenTell, Frozen, Installed
  <2>6. Apt(t, f)'
    BY <2>1, <2>4 DEF Apt, Frozen, Installed
  <2> QED
    BY <2>1, <2>2, <2>5, <2>6, RequestIsTold
<1>4. ASSUME NEW s \in Subgraphs, Uninstall(t, s) PROVE Told'
  <2> DEFINE f == Call("unbind", s)
  <2>1. CallTyped(f) /\ f.op = "unbind"
    BY DEF CallTyped, Call
  <2>2. stack' = [stack EXCEPT ![t] = <<f>>] /\ UNCHANGED <<tree, meta>>
    BY <1>4 DEF Uninstall
  <2> HIDE DEF f
  <2>3. FrozenTell'
    BY <1>1, <2>2 DEF FrozenTell, Frozen, Installed
  <2>4. Apt(t, f)'
    BY <2>1 DEF Apt
  <2> QED
    BY <2>1, <2>2, <2>3, <2>4, RequestIsTold
<1>5. ASSUME NEW edit \in Edits, Edit(t, edit[1], edit[2]) PROVE Told'
  <2>1. UNCHANGED <<tree, meta, stack>> /\ stack[t] = <<>> /\ Len(<<>>) = 0
    BY <1>5 DEF Edit, Accept, Idle
  <2>2. FrozenTell'
    BY <1>1, <2>1 DEF FrozenTell, Frozen, Installed
  <2>3. stack'[t] = <<>> /\ 1 .. Len(stack'[t]) = {}
    BY <2>1
  <2> QED
    BY <2>2, <2>3 DEF Told
<1> QED
  BY <1>2, <1>3, <1>4, <1>5 DEF Request

\* A restart forgets every call, and neither a result nor the metadata.
LEMMA RestartTells ==
    ASSUME Told, Restart
    PROVE  Told'
<1>1. UNCHANGED <<tree, meta>> /\ \A t \in Threads : stack'[t] = <<>>
  BY DEF Restart
<1>2. FrozenTell'
  BY <1>1 DEF Told, FrozenTell, Frozen, Installed
<1>3. ASSUME NEW t \in Threads PROVE stack'[t] = <<>> /\ 1 .. Len(stack'[t]) = {}
  <2>1. Len(<<>>) = 0
    OBVIOUS
  <2> QED
    BY <1>1, <2>1
<1> QED
  BY <1>2, <1>3 DEF Told

\* Grants that expire leave every reason where it is.
LEMMA UnmovedTells ==
    ASSUME Told, UNCHANGED <<tree, meta, reentry, stack>>, expired \subseteq expired'
    PROVE  Told'
<1>1. FrozenTell'
  BY DEF Told, FrozenTell, Frozen, Installed
<1>2. \A why, q, f : Spares(why, q, f) => Spares(why, q, f)'
  BY DEF Spares, Deep, Refusing, Doomed
<1>3. \A t, why, q : Backed(t, why, q) => Backed(t, why, q)'
  BY DEF Backed, Installed, OverBackstop, Counter
<1>4. \A t, n, why, q : SparesAbove(stack[t], n, why, q) => SparesAbove(stack[t], n, why, q)'
  BY <1>2 DEF SparesAbove, Frame
<1>5. ASSUME NEW t \in Threads, NEW n \in 1 .. Len(stack[t])
      PROVE  MarkStands(t, n)' /\ RefusalStands(t, n)'
  <2>1. MarkStands(t, n) /\ RefusalStands(t, n)
    BY DEF Told
  <2>2. PICK f : f = Frame(stack[t], n) /\ f = Frame(stack'[t], n)
    OBVIOUS
  <2>3. MarkStands(t, n)'
    <3> SUFFICES ASSUME f.op = "mark"
                 PROVE  /\ Installed(f.sub)' /\ f.meta.grant = meta'[f.sub].grant
                        /\ tree'[f.sub] \in FreezeCodes
                        /\ \E why \in Causes :
                              Backed(t, why, f.sub)' /\ SparesAbove(stack[t], n, why, f.sub)'
      BY <2>2 DEF MarkStands
    <3>1. /\ Installed(f.sub) /\ f.meta.grant = meta[f.sub].grant /\ tree[f.sub] \in FreezeCodes
          /\ \E why \in Causes : Backed(t, why, f.sub) /\ SparesAbove(stack[t], n, why, f.sub)
      BY <2>1, <2>2 DEF MarkStands
    <3> QED
      BY <1>3, <1>4, <3>1 DEF Installed
  <2>4. RefusalStands(t, n)'
    <3> SUFFICES ASSUME f.op = "refuse"
                 PROVE  OverBackstop(t)' /\ \A q : SparesAbove(stack[t], n, "refused", q)'
      BY <2>2 DEF RefusalStands
    <3>1. OverBackstop(t) /\ \A q : SparesAbove(stack[t], n, "refused", q)
      BY <2>1, <2>2 DEF RefusalStands
    <3> QED
      BY <1>4, <3>1 DEF OverBackstop, Counter
  <2> QED
    BY <2>3, <2>4
<1>6. ASSUME NEW t \in Threads, stack[t] # <<>> PROVE Apt(t, Top(t))'
  <2>1. PICK f : f = Top(t) /\ Top(t)' = f
    BY DEF Top
  <2>2. Apt(t, f)
    BY <1>6, <2>1 DEF Told
  <2>3. Apt(t, f)'
    BY <2>2 DEF Apt, Frozen, Installed, OverBackstop, Counter
  <2> QED
    BY <2>1, <2>3 DEF Apt
<1> QED
  BY <1>1, <1>5, <1>6 DEF Told

\* Nobody is frozen to begin with ...
LEMMA InitTells == PeerInit => Told
<1> SUFFICES ASSUME PeerInit PROVE Told
  OBVIOUS
<1>1. \A t \in Threads : stack[t] = <<>>
  BY DEF PeerInit, Init
<1>2. FrozenTell
  BY DEF PeerInit, Init, FrozenTell, Frozen, Installed
<1>3. Len(<<>>) = 0 /\ 1 .. 0 = {}
  OBVIOUS
<1> QED
  BY <1>1, <1>2, <1>3 DEF Told

\* ... and every step of a peer with one thread keeps the reasons.
LEMMA StepTells ==
    OneThread /\ Inputs \cap Subgraphs = {} /\ IInv /\ WellFormed /\ Told /\ [PeerNext]_peerVars
        => Told'
<1> SUFFICES ASSUME OneThread, Inputs \cap Subgraphs = {}, IInv, WellFormed, Told,
                    [PeerNext]_peerVars
             PROVE  Told'
  OBVIOUS
<1>1. CASE UNCHANGED vars
  BY <1>1, UnmovedTells DEF vars
<1>2. CASE Restart
  BY <1>2, RestartTells
<1>3. ASSUME NEW s \in Subgraphs, Rebuild(s) PROVE Told'
  BY <1>3, UnmovedTells DEF Rebuild
<1>4. ASSUME NEW g, Expire(g) PROVE Told'
  <2>1. UNCHANGED <<tree, meta, reentry, stack>> /\ expired \subseteq expired'
    BY <1>4 DEF Expire
  <2> QED
    BY <2>1, UnmovedTells
<1>5. ASSUME NEW t \in Threads, Arrive(t) PROVE Told'
  <2>1. Threads = {t}
    BY DEF OneThread
  <2> QED
    BY <1>5, <2>1, RequestTells DEF Arrive
<1>6. ASSUME NEW t \in Threads, Serve(t) PROVE Told'
  <2>1. Threads = {t}
    BY DEF OneThread
  <2> QED
    BY <1>6, <2>1, RunTells DEF Serve
<1> QED
  BY <1>1, <1>2, <1>3, <1>4, <1>5, <1>6 DEF PeerNext, Rest, peerVars

\* The counter of the only thread counts its own wake-ups.
LEMMA OneThreadCountsItsOwn == OneThread => OwnCounters
  BY DEF OneThread, OwnCounters

\* The invariants together justify every freeze.
LEMMA TellingJustifies ==
    IInv /\ ReasonsGiven /\ Told => FreezesAreJustified
<1> SUFFICES ASSUME IInv, ReasonsGiven, Told PROVE FreezesAreJustified
  OBVIOUS
<1>1. CascadeFreezeJustified
  BY ReasonsJustify
<1> QED
  BY <1>1 DEF Told, FrozenTell, Frozen, FreezesAreJustified

--------------------------------------------------------------------------------
(***************************************************************************)
(* A result that is watched is its expression's, or a call on some stack   *)
(* will resolve its subgraph: wake, re-evaluate, publish or freeze it.  A  *)
(* write that makes results stale puts its event on the stack in the same  *)
(* step; what a restart takes off the stacks it counts as cut.             *)
(***************************************************************************)
Resolving == {"register", "evaluate_now", "evaluate", "publish", "freeze", "mark"}

\* Calls that will resolve s whatever the index comes to, and all that will.
Holds(f, s) ==
    \/ f.op \in {"wake", "refuse"} /\ Contains(f.todo, s)
    \/ f.op \in Resolving /\ f.sub = s
Reading(s) == IF expr[s] = Unset THEN {} ELSE ToSet(Reads[expr[s]])
Touches(f, s) ==
    Holds(f, s) \/ (f.op = "event" /\ f.path \in Reading(s) /\ Contains(index[f.path], s))

Pending(s) == \E t \in Threads : \E n \in 1 .. Len(stack[t]) : Touches(Frame(stack[t], n), s)

\* Whatever makes its result stale wakes s.
Woken(s) == Active(s) /\ expr[s] # Unset /\ Reading(s) \subseteq Watches(s)

WatchedAreFresh == \A s \in Subgraphs \ cut : Woken(s) => ~Stale(s) \/ Pending(s)

\* What rebuild has still to register is fresh, with or without being watched.
RowsAreFresh == \A s \in (rows \cap Subgraphs) \ cut : Active(s) => ~Stale(s)

\* While one thread serves, nothing overtakes an evaluation.
PublishesNews ==
    \A t : Threads = {t} /\ At(t, "publish") =>
        expr[Top(t).sub] # Unset /\ Top(t).value = Outcome(expr[Top(t).sub])

Kept == WatchedAreFresh /\ RowsAreFresh /\ PublishesNews

\* What is in a sequence is its head or behind it.
LEMMA HeadOrTail ==
    ASSUME NEW X, NEW q \in Seq(X), NEW y, Contains(q, y)
    PROVE  q # <<>> /\ (y = Head(q) \/ Contains(Tail(q), y))
<1>1. PICK i \in 1 .. Len(q) : q[i] = y
  BY DEF Contains
<1>2. /\ q # <<>> /\ Len(Tail(q)) = Len(q) - 1 /\ Head(q) = q[1]
      /\ \A j \in 1 .. Len(Tail(q)) : Tail(q)[j] = q[j + 1]
  BY <1>1
<1>3. CASE i = 1
  BY <1>1, <1>2, <1>3
<1>4. CASE i # 1
  <2>1. i - 1 \in 1 .. Len(Tail(q)) /\ Tail(q)[i - 1] = y
    BY <1>1, <1>2, <1>4
  <2> QED
    BY <1>2, <2>1 DEF Contains
<1> QED
  BY <1>3, <1>4

\* A call that will resolve an active subgraph goes on as one that will.
LEMMA TouchGoesOn ==
    ASSUME StateTyped, NEW t, NEW f, CallTyped(f), NEW s \in Subgraphs, Active(s), expr[s] # Unset,
           Touches(f, s), f.op # "publish"
    PROVE  /\ Ends(f) => f.op = "mark"
           /\ \A h : Turns(t, f, h) => Holds(h, s)
           /\ \A h, r : Makes(t, f, h, r) => Holds(h, s) \/ Holds(r, s)
<1>0. ~Contains(<<>>, s)
  BY DEF Contains
<1>1. Installed(s) /\ ~Frozen(s)
  BY DEF Active, Frozen
<1>2. CASE f.op = "event"
  <2>1. Contains(index[f.path], s)
    BY <1>2 DEF Touches, Holds, Resolving
  <2>2. \A h : Turns(t, f, h) => Holds(h, s)
    BY <1>2, <2>1 DEF Turns, Holds, Wake, Refuse
  <2> QED
    BY <1>0, <1>2, <2>1, <2>2 DEF Ends, Makes
<1>3. CASE f.op \in {"wake", "refuse"}
  <2>1. f.todo \in Seq(Subgraphs) /\ Contains(f.todo, s)
    BY <1>3 DEF Touches, Holds, CallTyped, Resolving
  <2>2. s = Head(f.todo) \/ Contains(Tail(f.todo), s)
    BY <2>1, HeadOrTail
  <2>3. ASSUME NEW h, Turns(t, f, h) PROVE Holds(h, s)
    <3>1. Frozen(Head(f.todo)) /\ h = Wake(Tail(f.todo), f.depth)
      BY <1>3, <2>3 DEF Turns
    <3>2. Contains(Tail(f.todo), s)
      BY <1>1, <2>2, <3>1
    <3> QED
      BY <3>1, <3>2 DEF Holds, Wake
  <2>4. \A h, r : Makes(t, f, h, r) => Holds(h, s) \/ Holds(r, s)
    <3> SUFFICES ASSUME NEW h, NEW r, Makes(t, f, h, r) PROVE Holds(h, s) \/ Holds(r, s)
      OBVIOUS
    <3>1. CASE f.op = "wake"
      <4>1. r = Wake(Tail(f.todo), f.depth)
        BY <3>1 DEF Makes
      <4>2. CASE Contains(Tail(f.todo), s)
        BY <4>1, <4>2 DEF Holds, Wake
      <4>3. CASE s = Head(f.todo)
        BY <1>1, <3>1, <4>3 DEF Makes, Holds, Resolving, Call, Freeze, Evaluate
      <4> QED
        BY <2>2, <4>2, <4>3
    <3>2. CASE f.op = "refuse"
      <4>1. h = Freeze(Head(f.todo), "cascade_limit", f.depth) /\ r = Refuse(Tail(f.todo), f.depth)
        BY <3>2 DEF Makes
      <4> QED
        BY <2>2, <4>1 DEF Holds, Resolving, Freeze, Refuse
    <3> QED
      BY <1>3, <3>1, <3>2
  <2> QED
    BY <1>0, <1>3, <2>1, <2>3, <2>4 DEF Ends
<1>4. CASE f.op \notin {"event", "wake", "refuse"}
  <2>1. f.op \in Resolving /\ f.sub = s
    BY <1>4 DEF Touches, Holds
  <2>2. \A h : Turns(t, f, h) => Holds(h, s)
    BY <1>4, <2>1 DEF Turns, Holds, Resolving, Freeze, Call, Publish, Mark, Evaluate
  <2>3. \A h, r : Makes(t, f, h, r) => Holds(r, s)
    BY <1>4, <2>1 DEF Makes, Holds, Resolving, Mark
  <2> QED
    BY <1>1, <1>4, <2>1, <2>2, <2>3 DEF Ends, Resolving
<1> QED
  BY <1>2, <1>3, <1>4

\* A call that will resolve s does as long as s is woken by what it reads.
LEMMA TouchLasts ==
    ASSUME NEW f, NEW s, Touches(f, s), expr'[s] = expr[s], Woken(s)'
    PROVE  Touches(f, s)'
<1>1. Holds(f, s) => Holds(f, s)'
  BY DEF Holds
<1>2. ASSUME f.op = "event", f.path \in Reading(s) PROVE Touches(f, s)'
  <2>1. f.path \in Reading(s)'
    BY <1>2 DEF Reading
  <2>2. Contains(index'[f.path], s)
    BY <2>1 DEF Woken, Watches
  <2> QED
    BY <1>2, <2>1, <2>2 DEF Touches
<1> QED
  BY <1>1, <1>2 DEF Touches

\* So what is pending stays pending, until the call that was to resolve s did.
LEMMA PendingStays ==
    ASSUME IInv, WellFormed, NEW t \in Threads, Run(t), NEW s \in Subgraphs, Active(s), Woken(s)',
           Pending(s)
    PROVE  Pending(s)' \/ (Top(t).op \in {"publish", "mark"} /\ Top(t).sub = s)
<1>0. PICK f : f = Top(t)
  OBVIOUS
<1>1. expr'[s] = expr[s] /\ expr[s] # Unset
  BY RunFollows DEF Effects, Woken
<1>2. stack[t] # <<>> /\ GoesOnAs(t, f)
  BY <1>0, RunFollows
<1>3. PICK k : k = Len(stack[t])
  OBVIOUS
<1>4. k \in Nat \ {0} /\ k \in 1 .. k /\ f = Frame(stack[t], k) /\ CallTyped(f)
  <2>1. k \in Nat \ {0} /\ f = Frame(stack[t], k)
    BY <1>0, <1>2, <1>3, TopIsLast
  <2> QED
    BY <1>3, <2>1 DEF WellFormed, Shaped
<1>5. PICK u \in Threads : \E n \in 1 .. Len(stack[u]) : Touches(Frame(stack[u], n), s)
  BY DEF Pending
<1>n. PICK n \in 1 .. Len(stack[u]) : Touches(Frame(stack[u], n), s)
  BY <1>5
<1>6. \A m \in 1 .. k - 1 : Frame(stack'[t], m) = Frame(stack[t], m)
  BY <1>2, <1>3, Uncovered, Turned, Covered DEF GoesOnAs
<1>7. Len(stack'[t]) \in Nat /\ Len(stack'[t]) >= k - 1
  <2>1. ASSUME Continue(t, <<>>) PROVE Len(stack'[t]) = k - 1
    BY <1>2, <1>3, <2>1, Uncovered
  <2>2. ASSUME NEW h, Continue(t, <<h>>) PROVE Len(stack'[t]) = k
    BY <1>2, <1>3, <2>2, Turned
  <2>3. ASSUME NEW h, NEW r, Continue(t, <<h, r>>) PROVE Len(stack'[t]) = k + 1
    BY <1>2, <1>3, <2>3, Covered
  <2>4. Len(stack'[t]) \in {k - 1, k, k + 1}
    BY <1>2, <2>1, <2>2, <2>3 DEF GoesOnAs
  <2> QED
    BY <1>4, <2>4
<1>8. ASSUME NEW m \in 1 .. Len(stack'[t]), Holds(Frame(stack'[t], m), s) PROVE Pending(s)'
  BY <1>8 DEF Pending, Touches, Holds
<1>9. ASSUME NEW m, NEW v \in Threads, m \in 1 .. Len(stack'[v]), Touches(Frame(stack'[v], m), s)
      PROVE  Pending(s)'
  <2>1. PICK g : g = Frame(stack'[v], m)
    OBVIOUS
  <2>2. Touches(g, s)'
    BY <1>1, <1>9, <2>1, TouchLasts
  <2> QED
    BY <1>9, <2>1, <2>2 DEF Pending
<1>10. CASE u # t
  <2>1. stack'[u] = stack[u]
    <3>1. \E fs : Continue(t, fs)
      BY <1>2 DEF GoesOnAs
    <3> QED
      BY <1>10, <3>1 DEF Continue, IInv, Stacks
  <2> QED
    BY <1>n, <1>9, <2>1
<1>11. CASE u = t /\ n \in 1 .. k - 1
  <2>1. n \in 1 .. Len(stack'[t]) /\ Frame(stack'[t], n) = Frame(stack[t], n)
    BY <1>4, <1>6, <1>7, <1>11
  <2> QED
    BY <1>n, <1>9, <1>11, <2>1
<1>12. CASE u = t /\ n = k
  <2>1. Touches(f, s)
    BY <1>4, <1>n, <1>12
  <2>2. CASE f.op \in {"publish", "mark"}
    BY <1>0, <2>1, <2>2 DEF Touches, Holds
  <2>3. CASE f.op \notin {"publish", "mark"}
    <3>0. /\ ~Ends(f)
          /\ \A h : Turns(t, f, h) => Holds(h, s)
          /\ \A h, r : Makes(t, f, h, r) => Holds(h, s) \/ Holds(r, s)
      BY <1>1, <1>4, <2>1, <2>3, TouchGoesOn DEF WellFormed
    <3>2. ASSUME NEW h, Continue(t, <<h>>), Turns(t, f, h) PROVE Pending(s)'
      <4>1. Len(stack'[t]) = k /\ Frame(stack'[t], k) = h
        BY <1>2, <1>3, <3>2, Turned
      <4>2. Holds(h, s)
        BY <3>0, <3>2
      <4> QED
        BY <1>4, <1>8, <4>1, <4>2
    <3>3. ASSUME NEW h, NEW r, Continue(t, <<h, r>>), Makes(t, f, h, r) PROVE Pending(s)'
      <4>1. Len(stack'[t]) = k + 1 /\ Frame(stack'[t], k) = r /\ Frame(stack'[t], k + 1) = h
        BY <1>2, <1>3, <3>3, Covered
      <4>2. Holds(h, s) \/ Holds(r, s)
        BY <3>0, <3>3
      <4>3. k \in 1 .. k + 1 /\ k + 1 \in 1 .. k + 1
        BY <1>4
      <4> QED
        BY <1>8, <4>1, <4>2, <4>3
    <3> QED
      BY <1>2, <3>0, <3>2, <3>3 DEF GoesOnAs
  <2> QED
    BY <2>2, <2>3
<1> QED
  BY <1>3, <1>4, <1>10, <1>11, <1>12

\* An expression sees what is at the paths it reads, and nothing else.
LEMMA EnvironmentStays ==
    ASSUME NEW e \in Expressions, \A p \in ToSet(Reads[e]) : tree'[p] = tree[p]
    PROVE  Env(e)' = Env(e)
<1>1. \A i \in DOMAIN Reads[e] : Reads[e][i] \in ToSet(Reads[e])
  BY DEF ToSet
<1> QED
  BY <1>1 DEF Env

\* What a subgraph reads are paths, and what it does not read leaves its result
\* what it is.
LEMMA ResultStays ==
    ASSUME StateTyped, NEW s \in Subgraphs, expr'[s] = expr[s], tree'[s] = tree[s],
           \A p \in Reading(s) : tree'[p] = tree[p]
    PROVE  Stale(s)' <=> Stale(s)
<1>1. CASE expr[s] = Unset
  BY <1>1 DEF Stale
<1>2. CASE expr[s] # Unset
  <2>1. PICK e \in Expressions : expr[s] = e
    BY <1>2 DEF StateTyped
  <2>2. Env(e)' = Env(e)
    BY <1>2, <2>1, EnvironmentStays DEF Reading
  <2>3. Outcome(e)' = Outcome(e)
    BY <2>2 DEF Outcome, ResultEntity
  <2>4. (Stale(s) <=> tree[s] # Outcome(e)) /\ (Stale(s)' <=> tree'[s] # Outcome(e)')
    BY <1>2, <2>1 DEF Stale, Outcome, ResultEntity, Env
  <2> QED
    BY <2>3, <2>4
<1> QED
  BY <1>1, <1>2

\* An event that s watches and reads is on the stack after a step that fires it.
LEMMA EventsAreHeard ==
    ASSUME IInv, NEW t \in Threads, stack[t] # <<>>, NEW s, NEW q \in Paths, q \in Watches(s)',
           q \in Reading(s)', NEW d,
           \/ Continue(t, <<Event(q, d)>>)
           \/ \E r : Continue(t, <<Event(q, d), r>>)
    PROVE  Pending(s)'
<1> DEFINE h == Event(q, d)
<1>1. Touches(h, s)'
  BY DEF Touches, Event, Watches
<1> HIDE DEF h
<1>2. CASE Continue(t, <<h>>)
  <2>1. /\ Len(stack[t]) \in Nat \ {0} /\ Len(stack'[t]) = Len(stack[t])
        /\ Frame(stack'[t], Len(stack[t])) = h
    BY <1>2, Turned
  <2>2. Len(stack[t]) \in 1 .. Len(stack'[t])
    BY <2>1
  <2> QED
    BY <1>1, <2>1, <2>2 DEF Pending
<1>3. ASSUME NEW r, Continue(t, <<h, r>>) PROVE Pending(s)'
  <2>1. /\ Len(stack[t]) \in Nat \ {0} /\ Len(stack'[t]) = Len(stack[t]) + 1
        /\ Frame(stack'[t], Len(stack[t]) + 1) = h
    BY <1>3, Covered
  <2>2. Len(stack[t]) + 1 \in 1 .. Len(stack'[t])
    BY <2>1
  <2> QED
    BY <1>1, <2>1, <2>2 DEF Pending
<1> QED
  BY <1>2, <1>3 DEF h

\* A call that holds s, and is on the stack after a step.
LEMMA CallsAreHeld ==
    ASSUME IInv, NEW t \in Threads, stack[t] # <<>>, NEW s, NEW h, Holds(h, s),
           \/ Continue(t, <<h>>)
           \/ \E g : Continue(t, <<g, h>>)
    PROVE  Pending(s)'
<1>1. Touches(h, s)'
  BY DEF Touches, Holds
<1>2. /\ Len(stack[t]) \in Nat \ {0} /\ Len(stack'[t]) \in {Len(stack[t]), Len(stack[t]) + 1}
      /\ Frame(stack'[t], Len(stack[t])) = h
  BY Turned, Covered
<1>3. Len(stack[t]) \in 1 .. Len(stack'[t])
  BY <1>2
<1> QED
  BY <1>1, <1>2, <1>3 DEF Pending

\* A publication or a freeze writes one result, and fires its event if it is news:
\* all others stay as fresh as they are, or are woken.
LEMMA WriteKeepsFresh ==
    ASSUME StateTyped, IInv, NEW t \in Threads, stack[t] # <<>>, UNCHANGED <<index, expr>>,
           NEW q \in Subgraphs, NEW v, tree' = [tree EXCEPT ![q] = v],
           \/ tree[q] = v
           \/ \E d : \/ Continue(t, <<Event(q, d)>>)
                     \/ \E r : Continue(t, <<Event(q, d), r>>),
           NEW s \in Subgraphs, Reading(s) \subseteq Watches(s)
    PROVE  \/ Pending(s)'
           \/ /\ \A p \in Reading(s) : tree'[p] = tree[p]
              /\ s # q => (Stale(s)' <=> Stale(s))
<1>0. q \in Paths /\ s \in Paths /\ DOMAIN tree = Paths
  BY DEF Paths, StateTyped
<1>1. Watches(s)' = Watches(s) /\ Reading(s)' = Reading(s)
  BY DEF Watches, Reading
<1>2. CASE q \in Reading(s) /\ tree[q] # v
  BY <1>0, <1>1, <1>2, EventsAreHeard
<1>3. CASE q \notin Reading(s) \/ tree[q] = v
  <2>1. \A p \in Reading(s) : tree'[p] = tree[p]
    BY <1>0, <1>3 DEF Watches
  <2>2. s # q => (Stale(s)' <=> Stale(s))
    BY <1>0, <2>1, ResultStays
  <2> QED
    BY <2>1, <2>2
<1> QED
  BY <1>2, <1>3

\* Each step of a thread leaves what it serves fresh, or yet to be resolved, or cut.
LEMMA RunKeepsFresh ==
    ASSUME IInv, WellFormed, Kept, NEW t \in Threads, Serve(t)
    PROVE  WatchedAreFresh'
<1>0. PICK f : f = Top(t)
  OBVIOUS
<1>1. StateTyped /\ Run(t)
  BY DEF WellFormed, Serve
<1>2. stack[t] # <<>> /\ GoesOnAs(t, f) /\ Effects(t, f)
  BY <1>0, <1>1, RunFollows
<1>3. CallTyped(f)
  <2>1. Len(stack[t]) \in 1 .. Len(stack[t]) /\ f = Frame(stack[t], Len(stack[t]))
    BY <1>0, <1>1, <1>2, TopIsLast
  <2> QED
    BY <1>1, <2>1 DEF WellFormed, Shaped
<1>4. expr' = expr
  BY <1>2 DEF Effects
<1>c. /\ f.op # "publish" => cut' = cut
      /\ f.op = "publish" => cut' = (cut \ {f.sub}) \cup {s \in {f.sub} : Threads # {t} /\ Stale(s)'}
  BY <1>0, <1>2 DEF Serve, At
<1> SUFFICES ASSUME NEW s \in Subgraphs \ cut', Woken(s)'
             PROVE  ~Stale(s)' \/ Pending(s)'
  BY DEF WatchedAreFresh
<1>5. /\ s \in Paths /\ expr[s] # Unset /\ expr'[s] = expr[s] /\ Reading(s)' = Reading(s)
      /\ Active(s)' /\ Reading(s) \subseteq Watches(s)'
  BY <1>4 DEF Woken, Reading, Paths
<1>6. ASSUME Active(s), Reading(s) \subseteq Watches(s), s \notin cut,
             ~Stale(s) => ~Stale(s)' \/ Pending(s)',
             ~(f.op \in {"publish", "mark"} /\ f.sub = s)
      PROVE  ~Stale(s)' \/ Pending(s)'
  <2>1. ~Stale(s) \/ Pending(s)
    BY <1>5, <1>6 DEF Kept, WatchedAreFresh, Woken
  <2>2. Pending(s) => Pending(s)'
    BY <1>0, <1>1, <1>6, PendingStays
  <2> QED
    BY <1>6, <2>1, <2>2
<1>7. ASSUME UNCHANGED tree PROVE Stale(s)' <=> Stale(s)
  BY <1>1, <1>5, <1>7, ResultStays
<1>8. f.op # "publish" => s \notin cut
  BY <1>c
<1>9. CASE f.op = "publish"
  <2>1. /\ tree' = [tree EXCEPT ![f.sub] = f.value] /\ UNCHANGED <<meta, index>> /\ f.sub \in Subgraphs
    BY <1>2, <1>3, <1>9 DEF Effects, CallTyped
  <2>2. Active(s) /\ Reading(s) \subseteq Watches(s)
    BY <1>5, <2>1 DEF Watches, Active, Installed
  <2>3. tree[f.sub] = f.value \/ \E d : Continue(t, <<Event(f.sub, d)>>)
    BY <1>2, <1>9 DEF GoesOnAs, Ends, Turns, Makes
  <2>4. \/ Pending(s)'
        \/ /\ \A p \in Reading(s) : tree'[p] = tree[p]
           /\ s # f.sub => (Stale(s)' <=> Stale(s))
    BY <1>1, <1>2, <1>4, <2>1, <2>2, <2>3, WriteKeepsFresh
  <2>5. CASE s = f.sub /\ Threads # {t}
    BY <1>9, <1>c, <2>5
  <2>6. CASE s = f.sub /\ Threads = {t}
    <3>1. f.value = Outcome(expr[s])
      BY <1>0, <1>2, <1>9, <2>6 DEF Kept, PublishesNews, At
    <3>2. PICK e \in Expressions : expr[s] = e
      BY <1>1, <1>5 DEF StateTyped
    <3>3. tree'[s] = Outcome(e)
      BY <1>1, <1>5, <2>1, <2>6, <3>1, <3>2 DEF StateTyped
    <3>4. ASSUME \A p \in Reading(s) : tree'[p] = tree[p] PROVE ~Stale(s)'
      <4>1. Env(e)' = Env(e)
        BY <1>5, <3>2, <3>4, EnvironmentStays DEF Reading
      <4>2. Outcome(e)' = Outcome(e)
        BY <4>1 DEF Outcome, ResultEntity
      <4>3. Stale(s)' <=> tree'[s] # Outcome(e)'
        BY <1>5, <3>2 DEF Stale, Outcome, ResultEntity, Env
      <4> QED
        BY <3>3, <4>2, <4>3
    <3> QED
      BY <2>4, <3>4
  <2>7. CASE s # f.sub
    <3>1. s \notin cut
      BY <1>9, <1>c, <2>7
    <3> QED
      BY <1>6, <2>2, <2>4, <2>7, <3>1
  <2> QED
    BY <2>5, <2>6, <2>7
<1>10. CASE f.op = "freeze" /\ Installed(f.sub)
  <2>1. /\ tree' = [tree EXCEPT ![f.sub] = f.code] /\ UNCHANGED <<meta, index>> /\ f.sub \in Subgraphs
    BY <1>2, <1>3, <1>10 DEF Effects, CallTyped
  <2>2. Active(s) /\ Reading(s) \subseteq Watches(s)
    BY <1>5, <2>1 DEF Watches, Active, Installed
  <2>m. PICK m : m = Mark(f.sub, meta[f.sub])
    OBVIOUS
  <2>3. \/ tree[f.sub] = f.code /\ Continue(t, <<m>>)
        \/ Continue(t, <<Event(f.sub, f.depth), m>>)
    BY <1>2, <1>10, <2>m DEF GoesOnAs, Ends, Turns, Makes
  <2>4. Pending(s)' \/ (s # f.sub => (Stale(s)' <=> Stale(s)))
    BY <1>1, <1>2, <1>4, <2>1, <2>2, <2>3, WriteKeepsFresh
  <2>5. CASE s = f.sub
    <3>1. Holds(m, s)
      BY <2>5, <2>m DEF Holds, Resolving, Mark
    <3> QED
      BY <1>1, <1>2, <2>3, <3>1, CallsAreHeld
  <2>6. CASE s # f.sub
    BY <1>6, <1>8, <1>10, <2>2, <2>4, <2>6
  <2> QED
    BY <2>5, <2>6
<1>11. CASE f.op \in {"mark", "unbind"}
  <2>1. UNCHANGED <<tree, index>> /\ f.sub \in Subgraphs
    BY <1>2, <1>3, <1>11 DEF Effects, CallTyped
  <2>2. s # f.sub
    <3>1. CASE f.op = "mark"
      <4>1. f.meta \in Metadata /\ meta' = [meta EXCEPT ![f.sub] = [f.meta EXCEPT !.status = "frozen"]]
        BY <1>2, <1>3, <3>1 DEF Effects, CallTyped
      <4>2. meta'[f.sub].status = "frozen"
        BY <1>1, <2>1, <4>1 DEF StateTyped, Metadata
      <4> QED
        BY <1>5, <4>2 DEF Active
    <3>2. CASE f.op = "unbind"
      <4>1. meta' = [meta EXCEPT ![f.sub] = Unset]
        BY <1>2, <3>2 DEF Effects
      <4> QED
        BY <1>1, <1>5, <2>1, <4>1 DEF StateTyped, Active, Installed
    <3> QED
      BY <1>11, <3>1, <3>2
  <2>3. meta'[s] = meta[s]
    BY <1>1, <1>2, <1>11, <2>2 DEF Effects, StateTyped
  <2>4. Active(s) /\ Reading(s) \subseteq Watches(s)
    BY <1>5, <2>1, <2>3 DEF Watches, Active, Installed
  <2> QED
    BY <1>6, <1>7, <1>8, <1>11, <2>1, <2>2, <2>4
<1>12. CASE f.op \in {"forget", "register"}
  <2>1. UNCHANGED <<tree, meta>> /\ f.sub \in Subgraphs
    BY <1>2, <1>3, <1>12 DEF Effects, CallTyped
  <2>2. \A q : q # f.sub => Watches(q)' = Watches(q)
    <3>1. CASE f.op = "forget"
      BY <1>1, <1>2, <3>1, RemovedWatches DEF Effects
    <3>2. CASE f.op = "register"
      <4>1. index' = [p \in Paths |-> IF Contains(f.reads, p) THEN Append(Removed(f.sub)[p], f.sub)
                                                              ELSE Removed(f.sub)[p]]
        BY <1>2, <3>2 DEF Effects
      <4> QED
        BY <1>1, <2>1, <4>1, RegisteredWatches
    <3> QED
      BY <1>12, <3>1, <3>2
  <2>3. CASE s # f.sub \/ f.op = "forget"
    <3>1. Active(s)
      BY <1>5, <2>1 DEF Active, Installed
    <3>2. Reading(s) \subseteq Watches(s)
      <4>1. CASE s # f.sub
        BY <1>5, <2>2, <4>1
      <4>2. CASE s = f.sub /\ f.op = "forget"
        BY <1>1, <1>2, <1>5, <4>2, RemovedWatches DEF Effects
      <4> QED
        BY <2>3, <4>1, <4>2
    <3> QED
      BY <1>6, <1>7, <1>8, <1>12, <2>1, <3>1, <3>2
  <2>5. CASE s = f.sub /\ f.op = "register"
    <3>1. PICK h : h = Call("evaluate_now", s)
      OBVIOUS
    <3>2. Continue(t, <<h>>)
      BY <1>2, <2>5, <3>1 DEF GoesOnAs, Ends, Turns, Makes
    <3>3. Holds(h, s)
      BY <3>1 DEF Holds, Resolving, Call
    <3> QED
      BY <1>1, <1>2, <3>2, <3>3, CallsAreHeld
  <2> QED
    BY <1>12, <2>3, <2>5
<1>13. CASE f.op \notin {"publish", "mark", "unbind", "forget", "register"} /\ ~(f.op = "freeze" /\ Installed(f.sub))
  <2>1. UNCHANGED <<tree, meta, index>>
    BY <1>2, <1>13 DEF Effects
  <2>2. Active(s) /\ Reading(s) \subseteq Watches(s)
    BY <1>5, <2>1 DEF Watches, Active, Installed
  <2> QED
    BY <1>6, <1>7, <1>8, <1>13, <2>1, <2>2
<1> QED
  BY <1>9, <1>10, <1>11, <1>12, <1>13

\* What the only thread publishes is what the expression as it is gives.
LEMMA RunKeepsNews ==
    ASSUME IInv, WellFormed, NEW t, Threads = {t}, Run(t)
    PROVE  PublishesNews'
<1>0. PICK f : f = Top(t)
  OBVIOUS
<1>1. t \in Threads /\ StateTyped
  BY DEF WellFormed
<1>2. stack[t] # <<>> /\ GoesOnAs(t, f) /\ Effects(t, f)
  BY <1>0, <1>1, RunFollows
<1>4. expr' = expr
  BY <1>2 DEF Effects
<1>5. \A u : Threads = {u} => u = t
  OBVIOUS
<1>6. CASE Continue(t, <<>>)
  <2>1. stack'[t] # <<>> => Top(t)'.op \in Waiting
    BY <1>1, <1>2, <1>6, Uncovered DEF WellFormed, Shaped
  <2> QED
    BY <1>5, <2>1 DEF PublishesNews, At, Waiting
<1>7. ASSUME NEW h, Continue(t, <<h>>), Turns(t, f, h) PROVE PublishesNews'
  <2>1. Top(t)' = h
    BY <1>1, <1>2, <1>7, Turned
  <2>2. CASE h.op # "publish"
    BY <1>5, <2>1, <2>2 DEF PublishesNews, At
  <2>3. CASE h.op = "publish"
    <3>1. f.op = "evaluate" /\ expr[f.sub] # Unset
          /\ h = Publish(f.sub, Outcome(expr[f.sub]), f.depth)
      BY <1>7, <2>3 DEF Turns, Refuse, Wake, Freeze, Call, Event, Mark, Evaluate
    <3>2. tree' = tree
      BY <1>2, <3>1 DEF Effects
    <3>3. h.sub = f.sub /\ h.value = Outcome(expr[f.sub])
      BY <3>1 DEF Publish
    <3>4. Outcome(expr[f.sub])' = Outcome(expr[f.sub])
      BY <1>4, <3>2 DEF Outcome, ResultEntity, Env
    <3> QED
      BY <1>4, <1>5, <2>1, <3>1, <3>3, <3>4 DEF PublishesNews
  <2> QED
    BY <2>2, <2>3
<1>8. ASSUME NEW h, NEW r, Continue(t, <<h, r>>), Makes(t, f, h, r) PROVE PublishesNews'
  <2>1. Top(t)' = h
    BY <1>1, <1>2, <1>8, Covered
  <2>2. h.op # "publish"
    BY <1>8 DEF Makes, Call, Freeze, Evaluate, Event
  <2> QED
    BY <1>5, <2>1, <2>2 DEF PublishesNews, At
<1> QED
  BY <1>2, <1>6, <1>7, <1>8 DEF GoesOnAs

\* Nothing is pending between requests.
LEMMA NothingPends == ASSUME Quiet PROVE \A s : ~Pending(s)
<1>1. \A t \in Threads : stack[t] = <<>>
  BY DEF Quiet, Idle
<1>2. Len(<<>>) = 0 /\ 1 .. 0 = {}
  OBVIOUS
<1> QED
  BY <1>1, <1>2 DEF Pending

\* A request that is accepted touches all that its first call touches ...
LEMMA RequestTouches ==
    ASSUME IInv, NEW t \in Threads, NEW f, stack' = [stack EXCEPT ![t] = <<f>>], NEW s, Touches(f, s)'
    PROVE  Pending(s)'
<1>1. stack'[t] = <<f>>
  BY DEF IInv, Stacks
<1>2. Len(<<f>>) = 1 /\ <<f>>[1] = f
  OBVIOUS
<1>3. Len(stack'[t]) = 1 /\ Frame(stack'[t], 1) = f
  BY <1>1, <1>2 DEF Frame
<1> QED
  BY <1>3 DEF Pending

\* ... and leaves the other stacks alone.
LEMMA RequestKeepsPending ==
    ASSUME IInv, NEW t \in Threads, Idle(t), \A u \in Threads \ {t} : stack'[u] = stack[u],
           NEW s, Pending(s), expr'[s] = expr[s], Woken(s)'
    PROVE  Pending(s)'
<1>1. PICK u \in Threads : \E n \in 1 .. Len(stack[u]) : Touches(Frame(stack[u], n), s)
  BY DEF Pending
<1>2. PICK n \in 1 .. Len(stack[u]) : Touches(Frame(stack[u], n), s)
  BY <1>1
<1>3. Len(<<>>) = 0 /\ 1 .. 0 = {}
  OBVIOUS
<1>4. u # t /\ stack'[u] = stack[u]
  BY <1>2, <1>3 DEF Idle
<1>5. PICK g : g = Frame(stack[u], n)
  OBVIOUS
<1>6. Touches(g, s)'
  BY <1>2, <1>5, TouchLasts
<1> QED
  BY <1>2, <1>4, <1>5, <1>6 DEF Pending

\* A request: what it writes itself is fresh, to be woken, or counted as cut.
LEMMA RequestKeepsFresh ==
    ASSUME IInv, WellFormed, Kept, NEW t \in Threads, Arrive(t)
    PROVE  WatchedAreFresh'
<1> DEFINE Written(s) == expr'[s] # expr[s] \/ tree'[s] # tree[s]
<1>1. StateTyped /\ Idle(t) /\ Request(t)
  BY DEF WellFormed, Arrive, Request, Put, Install, Uninstall, Edit, Accept
<1> SUFFICES ASSUME NEW s \in Subgraphs \ cut', Woken(s)'
             PROVE  ~Stale(s)' \/ Pending(s)'
  BY DEF WatchedAreFresh
<1>2. CASE Written(s)
  BY <1>2 DEF Arrive
<1>3. CASE ~Written(s)
  <2>1. s \notin cut /\ expr'[s] = expr[s] /\ tree'[s] = tree[s]
    BY <1>3 DEF Arrive
  <2>2. /\ expr[s] # Unset /\ Reading(s)' = Reading(s) /\ Active(s)'
        /\ Reading(s) \subseteq Watches(s)'
    BY <2>1 DEF Woken, Reading
  <2>3. ASSUME Active(s), Watches(s)' \subseteq Watches(s), \A p \in Reading(s) : tree'[p] = tree[p],
               \A u \in Threads \ {t} : stack'[u] = stack[u]
        PROVE  ~Stale(s)' \/ Pending(s)'
    <3>1. ~Stale(s) \/ Pending(s)
      BY <2>1, <2>2, <2>3 DEF Kept, WatchedAreFresh, Woken
    <3>2. Stale(s)' <=> Stale(s)
      BY <1>1, <2>1, <2>3, ResultStays
    <3>3. Pending(s) => Pending(s)'
      BY <1>1, <2>1, <2>3, RequestKeepsPending
    <3> QED
      BY <3>1, <3>2, <3>3
  <2>4. ASSUME NEW p \in Inputs, NEW v, Put(t, p, v) PROVE ~Stale(s)' \/ Pending(s)'
    <3> DEFINE f == Event(p, 0)
    <3>1. f.op = "event" /\ f.path = p
      BY DEF Event
    <3>2. /\ stack' = [stack EXCEPT ![t] = <<f>>] /\ UNCHANGED <<meta, expr, index>>
          /\ tree' = [tree EXCEPT ![p] = v]
      BY <2>4 DEF Put
    <3> HIDE DEF f
    <3>3. Watches(s)' = Watches(s) /\ Active(s)
      BY <2>2, <3>2 DEF Watches, Active, Installed
    <3>4. CASE p \in Reading(s)
      <4>1. Contains(index'[p], s) /\ p \in Reading(s)'
        BY <2>2, <3>4 DEF Watches
      <4>2. Touches(f, s)'
        BY <3>1, <4>1 DEF Touches
      <4> QED
        BY <3>2, <4>2, RequestTouches
    <3>5. CASE p \notin Reading(s)
      <4>1. \A q \in Reading(s) : tree'[q] = tree[q]
        BY <1>1, <2>2, <3>2, <3>3, <3>5 DEF StateTyped, Watches
      <4>2. \A u \in Threads \ {t} : stack'[u] = stack[u]
        BY <3>2 DEF IInv, Stacks
      <4> QED
        BY <2>3, <3>3, <4>1, <4>2
    <3> QED
      BY <3>4, <3>5
  <2>5. ASSUME NEW q \in Subgraphs, NEW g \in Grants, Install(t, q, g) PROVE ~Stale(s)' \/ Pending(s)'
    <3>0. PICK f : f = Registration(q, Reads[expr[q]])
      OBVIOUS
    <3>1. f.op = "register" /\ f.sub = q
      BY <3>0 DEF Registration
    <3>2. /\ stack' = [stack EXCEPT ![t] = <<f>>] /\ UNCHANGED <<tree, expr, index>>
          /\ \E m : meta' = [meta EXCEPT ![q] = m]
      BY <2>5, <3>0 DEF Install
    <3>3. CASE s = q
      <4>1. Touches(f, s)'
        BY <3>1, <3>3 DEF Touches, Holds, Resolving
      <4> QED
        BY <3>2, <4>1, RequestTouches
    <3>4. CASE s # q
      <4>1. Active(s) /\ Watches(s)' = Watches(s)
        BY <1>1, <2>2, <3>2, <3>4 DEF StateTyped, Active, Installed, Watches
      <4>2. \A u \in Threads \ {t} : stack'[u] = stack[u]
        BY <3>2 DEF IInv, Stacks
      <4> QED
        BY <2>3, <3>2, <4>1, <4>2
    <3> QED
      BY <3>3, <3>4
  <2>6. ASSUME NEW q \in Subgraphs, Uninstall(t, q) PROVE ~Stale(s)' \/ Pending(s)'
    <3>1. /\ \E f : stack' = [stack EXCEPT ![t] = <<f>>]
          /\ UNCHANGED <<tree, expr, meta>> /\ index' = Removed(q)
      BY <2>6 DEF Uninstall
    <3>2. Watches(s)' \subseteq Watches(s) /\ Active(s)
      BY <1>1, <2>2, <3>1, RemovedWatches DEF Active, Installed
    <3>3. \A u \in Threads \ {t} : stack'[u] = stack[u]
      BY <3>1 DEF IInv, Stacks
    <3> QED
      BY <2>3, <3>1, <3>2, <3>3
  <2>7. ASSUME NEW edit \in Edits, Edit(t, edit[1], edit[2]) PROVE ~Stale(s)' \/ Pending(s)'
    <3>1. UNCHANGED <<tree, meta, index, stack>>
      BY <2>7 DEF Edit
    <3>2. Watches(s)' \subseteq Watches(s) /\ Active(s)
      BY <2>2, <3>1 DEF Watches, Active, Installed
    <3> QED
      BY <2>3, <3>1, <3>2
  <2> QED
    BY <1>1, <2>4, <2>5, <2>6, <2>7 DEF Request
<1> HIDE DEF Written
<1> QED
  BY <1>2, <1>3

\* A request of the only thread publishes nothing yet.
LEMMA RequestKeepsNews ==
    ASSUME IInv, NEW t \in Threads, Request(t)
    PROVE  PublishesNews'
<1>1. \A u : Threads = {u} => u = t
  OBVIOUS
<1>2. ASSUME NEW f, f.op # "publish", stack' = [stack EXCEPT ![t] = <<f>>]
      PROVE  PublishesNews'
  <2>1. stack'[t] = <<f>>
    BY <1>2 DEF IInv, Stacks
  <2>2. Top(t)' = f
    BY <2>1 DEF Top
  <2> QED
    BY <1>1, <1>2, <2>2 DEF PublishesNews, At
<1>3. ASSUME NEW p \in Inputs, NEW v, Put(t, p, v) PROVE PublishesNews'
  <2>1. PICK f : f = Event(p, 0)
    OBVIOUS
  <2>2. f.op # "publish" /\ stack' = [stack EXCEPT ![t] = <<f>>]
    BY <1>3, <2>1 DEF Put, Event
  <2> QED
    BY <1>2, <2>2
<1>4. ASSUME NEW q \in Subgraphs, NEW g \in Grants, Install(t, q, g) PROVE PublishesNews'
  <2>1. PICK f : f = Registration(q, Reads[expr[q]])
    OBVIOUS
  <2>2. f.op # "publish" /\ stack' = [stack EXCEPT ![t] = <<f>>]
    BY <1>4, <2>1 DEF Install, Registration
  <2> QED
    BY <1>2, <2>2
<1>5. ASSUME NEW q \in Subgraphs, Uninstall(t, q) PROVE PublishesNews'
  <2>1. PICK f : f = Call("unbind", q)
    OBVIOUS
  <2>2. f.op # "publish" /\ stack' = [stack EXCEPT ![t] = <<f>>]
    BY <1>5, <2>1 DEF Uninstall, Call
  <2> QED
    BY <1>2, <2>2
<1>6. ASSUME NEW edit \in Edits, Edit(t, edit[1], edit[2]) PROVE PublishesNews'
  BY <1>1, <1>6 DEF Edit, Accept, Idle, PublishesNews, At
<1> QED
  BY <1>3, <1>4, <1>5, <1>6 DEF Request

\* A restart counts as cut off whatever a call was to resolve.
LEMMA PendingIsCut ==
    ASSUME IInv, NEW s, Pending(s)
    PROVE  \E t \in Threads : WouldTouch(t, s)
<1>0. PICK t \in Threads : \E n \in 1 .. Len(stack[t]) : Touches(Frame(stack[t], n), s)
  BY DEF Pending
<1>1. PICK n \in 1 .. Len(stack[t]) : Touches(Frame(stack[t], n), s)
  BY <1>0
<1>2. PICK X : stack[t] \in Seq(X)
  BY DEF IInv, Stacks
<1>3. PICK i : i = Len(stack[t]) + 1 - n
  OBVIOUS
<1>4. i \in DOMAIN stack[t] /\ Frame(stack[t], n) = stack[t][i]
  BY <1>2, <1>3 DEF Frame
<1> QED
  BY <1>1, <1>4 DEF WouldTouch, Touches, Holds, Resolving

\* The process ends.
LEMMA RestartKeepsFresh ==
    ASSUME IInv, WellFormed, Kept, Restart
    PROVE  Kept'
<1>1. /\ index' = [p \in Paths |-> <<>>] /\ UNCHANGED <<tree, meta, expr>>
      /\ rows' = {s \in Subgraphs : Installed(s)} /\ \A t \in Threads : stack'[t] = <<>>
      /\ cut' = cut \cup {s \in Subgraphs : Outrun(s) \/ \E t \in Threads : WouldTouch(t, s)}
  BY DEF Restart
<1>2. \A s \in Subgraphs : Stale(s)' <=> Stale(s)
  BY <1>1, ResultStays DEF WellFormed
<1>3. ASSUME NEW s \in Subgraphs \ cut', Active(s)' PROVE ~Stale(s)
  <2>1. s \in Subgraphs \ cut /\ ~Outrun(s) /\ Installed(s) /\ Active(s)
    BY <1>1, <1>3 DEF Active, Installed
  <2>2. CASE s \in rows
    BY <2>1, <2>2 DEF Kept, RowsAreFresh
  <2>3. CASE expr[s] = Unset
    BY <2>3 DEF Stale
  <2>4. CASE s \notin rows /\ expr[s] # Unset
    <3>1. Woken(s)
      BY <2>1, <2>4 DEF Outrun, Woken, Reading
    <3>2. ~Pending(s)
      BY <1>1, <1>3, PendingIsCut
    <3> QED
      BY <2>1, <3>1, <3>2 DEF Kept, WatchedAreFresh
  <2> QED
    BY <2>2, <2>3, <2>4
<1>4. WatchedAreFresh' /\ RowsAreFresh'
  BY <1>1, <1>2, <1>3 DEF WatchedAreFresh, RowsAreFresh, Woken
<1>5. PublishesNews'
  BY <1>1 DEF PublishesNews, At
<1> QED
  BY <1>4, <1>5 DEF Kept

\* One row is rebuilt.
LEMMA RebuildKeepsFresh ==
    ASSUME IInv, WellFormed, Kept, NEW s \in Subgraphs, Rebuild(s)
    PROVE  Kept'
<1>1. s \in rows /\ rows' = rows \ {s} /\ UNCHANGED <<tree, meta, expr, stack, cut>>
  BY DEF Rebuild
<1>2. StateTyped /\ \A q \in Subgraphs : (Stale(q)' <=> Stale(q)) /\ (Active(q)' <=> Active(q))
  BY <1>1, ResultStays DEF WellFormed, Active, Installed
<1>3. \A p \in Paths : \A q : q # s => (Contains(index'[p], q) <=> Contains(index[p], q))
  <2> SUFFICES ASSUME NEW p \in Paths
               PROVE  \A q : q # s => (Contains(index'[p], q) <=> Contains(index[p], q))
    OBVIOUS
  <2>1. index[p] \in Seq(Subgraphs)
    BY <1>2 DEF StateTyped
  <2>2. \A q : Contains(Append(index[p], s), q) <=> q = s \/ Contains(index[p], q)
    BY <2>1, AppendAdds
  <2>3. index'[p] = index[p] \/ index'[p] = Append(index[p], s)
    BY <1>2 DEF Rebuild, StateTyped
  <2> QED
    BY <2>2, <2>3
<1>4. ASSUME NEW q \in Subgraphs \ cut', Woken(q)' PROVE ~Stale(q) \/ Pending(q)'
  <2>1. CASE q = s
    BY <1>1, <1>2, <1>4, <2>1 DEF Kept, RowsAreFresh, Woken
  <2>2. CASE q # s
    <3>1. Watches(q)' = Watches(q) /\ Reading(q)' = Reading(q) /\ expr'[q] = expr[q]
      BY <1>1, <1>3, <2>2 DEF Watches, Reading
    <3>2. Woken(q)
      BY <1>2, <1>4, <3>1 DEF Woken
    <3>3. ASSUME Pending(q) PROVE Pending(q)'
      <4>1. PICK t \in Threads : \E n \in 1 .. Len(stack[t]) : Touches(Frame(stack[t], n), q)
        BY <3>3 DEF Pending
      <4>2. PICK n \in 1 .. Len(stack[t]) : Touches(Frame(stack[t], n), q)
        BY <4>1
      <4>3. PICK g : g = Frame(stack[t], n)
        OBVIOUS
      <4>4. Touches(g, q)'
        BY <1>4, <3>1, <4>2, <4>3, TouchLasts
      <4> QED
        BY <1>1, <4>2, <4>3, <4>4 DEF Pending
    <3> QED
      BY <1>1, <1>4, <3>2, <3>3 DEF Kept, WatchedAreFresh
  <2> QED
    BY <2>1, <2>2
<1>5. WatchedAreFresh'
  BY <1>2, <1>4 DEF WatchedAreFresh
<1>6. RowsAreFresh'
  BY <1>1, <1>2 DEF Kept, RowsAreFresh
<1>7. PublishesNews'
  BY <1>1 DEF Kept, PublishesNews, At, Top, Outcome, ResultEntity, Env
<1> QED
  BY <1>5, <1>6, <1>7 DEF Kept

\* Steps that leave the stacks and all they will touch as they are.
LEMMA UnmovedKeepsFresh ==
    ASSUME Kept, UNCHANGED <<tree, meta, expr, index, stack, rows, cut>>
    PROVE  Kept'
<1>1. \A q : /\ Woken(q)' <=> Woken(q)
             /\ Pending(q)' <=> Pending(q)
             /\ Active(q)' <=> Active(q)
             /\ Stale(q)' <=> Stale(q)
  BY DEF Woken, Watches, Reading, Active, Installed, Pending, Touches, Holds, Stale, Outcome,
         ResultEntity, Env
<1>2. WatchedAreFresh' /\ RowsAreFresh'
  BY <1>1 DEF Kept, WatchedAreFresh, RowsAreFresh
<1>3. PublishesNews'
  BY DEF Kept, PublishesNews, At, Top, Outcome, ResultEntity, Env
<1> QED
  BY <1>2, <1>3 DEF Kept

\* Nothing is installed and no call is served at first ...
LEMMA InitKeepsFresh == PeerInit => Kept
BY DEF PeerInit, Init, Kept, WatchedAreFresh, RowsAreFresh, PublishesNews, At, Woken, Active, Installed

\* ... and every step keeps what is watched fresh, or a call pending that will
\* make it so, but for what it counts as cut.
LEMMA StepKeepsFresh == IInv /\ WellFormed /\ Kept /\ [PeerNext]_peerVars => Kept'
<1> SUFFICES ASSUME IInv, WellFormed, Kept, [PeerNext]_peerVars PROVE Kept'
  OBVIOUS
<1>1. CASE UNCHANGED peerVars \/ (Rest /\ UNCHANGED restartVars)
  BY <1>1, UnmovedKeepsFresh DEF Rest, peerVars, vars, restartVars
<1>2. CASE Restart
  BY <1>2, RestartKeepsFresh
<1>3. ASSUME NEW s \in Subgraphs, Rebuild(s) PROVE Kept'
  BY <1>3, RebuildKeepsFresh
<1>4. ASSUME NEW g, Expire(g), UNCHANGED restartVars PROVE Kept'
  BY <1>4, UnmovedKeepsFresh DEF Expire, restartVars
<1>5. ASSUME NEW t \in Threads, Arrive(t) PROVE Kept'
  <2>1. RowsAreFresh'
    BY <1>5 DEF Arrive, Serving, RowsAreFresh
  <2>2. PublishesNews'
    BY <1>5, RequestKeepsNews DEF Arrive
  <2> QED
    BY <1>5, <2>1, <2>2, RequestKeepsFresh DEF Kept
<1>6. ASSUME NEW t \in Threads, Serve(t) PROVE Kept'
  <2>1. RowsAreFresh'
    BY <1>6 DEF Serve, Serving, RowsAreFresh
  <2>2. PublishesNews'
    <3>1. CASE Threads = {t}
      BY <1>6, <3>1, RunKeepsNews DEF Serve
    <3>2. CASE Threads # {t}
      <4>1. \A u : Threads # {u}
        BY <3>2
      <4> QED
        BY <4>1 DEF PublishesNews
    <3> QED
      BY <3>1, <3>2
  <2> QED
    BY <1>6, <2>1, <2>2, RunKeepsFresh DEF Kept
<1> QED
  BY <1>1, <1>2, <1>3, <1>4, <1>5, <1>6 DEF PeerNext

\* Between requests nothing is pending, so that what is watched is fresh.
LEMMA KeptIsFresh == Kept => FreshUnlessCut
BY NothingPends DEF FreshUnlessCut, Kept, WatchedAreFresh, Woken, Reading

--------------------------------------------------------------------------------
\* However many threads serve, subgraphs feed on each other and restarts cut
\* cascades off, no stack holds more wake-ups than the backstop admits: every
\* wake-up a stack holds is counted, and a counter stops at the limit.
THEOREM StackStaysBounded == PeerSpec => []StackBounded
<1>1. PeerSpec => []IInv
  BY InitIInv, StepKeepsCount, PTL DEF PeerSpec
<1> QED
  BY <1>1, CountBoundsStack, PTL

\* Where a counter counts one stack only, as each of Rust's does however many
\* threads serve, and TypeScript's with its one, a subgraph is frozen for
\* cascade_limit by a cascade that is too deep itself, and never because
\* another thread is deep in one.
THEOREM FreezesAreOwn == OwnCounters => (PeerSpec => []CascadeFreezeJustified)
<1> SUFFICES ASSUME OwnCounters PROVE PeerSpec => []CascadeFreezeJustified
  OBVIOUS
<1>1. PeerInit => IInv /\ ReasonsGiven
  BY InitIInv, InitGivesReasons
<1>2. IInv /\ ReasonsGiven /\ [PeerNext]_peerVars => (IInv /\ ReasonsGiven)'
  BY StepKeepsCount, StepGivesReasons
<1> QED
  BY <1>1, <1>2, ReasonsJustify, PTL DEF PeerSpec

\* As long as one thread serves, the dependency index and the metadata agree
\* whenever the peer is quiet: through installs, re-installs and uninstalls,
\* stale registrations that a cascade drops, edits of expressions, and restarts
\* that find the peer in the middle of any of them and rebuild the index.
THEOREM IndexFollowsMetadata == OneThread => (PeerSpec => []IndexMatchesTree)
<1> SUFFICES ASSUME OneThread PROVE PeerSpec => []IndexMatchesTree
  OBVIOUS
<1>1. PeerInit => IInv /\ WellFormed /\ IndexFollows
  BY InitIInv, InitIsWellFormed, InitFollowsMetadata
<1>2. IInv /\ WellFormed /\ IndexFollows /\ [PeerNext]_peerVars => (IInv /\ WellFormed /\ IndexFollows)'
  BY StepKeepsCount, StepKeepsShape, StepFollowsMetadata
<1> QED
  BY <1>1, <1>2, FollowingMatches, PTL DEF PeerSpec

\* As long as one thread serves, and callers write no subgraph's result, every
\* freeze for cascade_limit is its own cascade's, and whoever reads the result
\* of a frozen subgraph when the cascades are over finds why it was frozen,
\* though the freeze wrote that reason first and then ran a whole cascade, in
\* which the subgraph was still active, before it marked it frozen.
THEOREM FrozenResultsTellWhy ==
    OneThread /\ Inputs \cap Subgraphs = {} => (PeerSpec => []FreezesAreJustified)
<1> SUFFICES ASSUME OneThread, Inputs \cap Subgraphs = {} PROVE PeerSpec => []FreezesAreJustified
  OBVIOUS
<1> DEFINE Inv == IInv /\ WellFormed /\ ReasonsGiven /\ Told
<1>1. PeerInit => Inv
  BY InitIInv, InitIsWellFormed, InitGivesReasons, InitTells
<1>2. Inv /\ [PeerNext]_peerVars => Inv'
  BY StepKeepsCount, StepKeepsShape, StepGivesReasons, StepTells, OneThreadCountsItsOwn
<1>3. Inv => FreezesAreJustified
  BY TellingJustifies
<1> QED
  BY <1>1, <1>2, <1>3, PTL DEF PeerSpec

\* However many threads serve, once every request is answered, the result of an
\* active subgraph that watches all it reads is what its expression gives over
\* the tree as it then is: through cascades that feed on themselves, freezes,
\* re-installs, lapsing grants, deleted, replaced and re-created expressions,
\* results that callers write over, and restarts in the middle of any of them.
\* Excepted are those counted as cut, until they are published again.
THEOREM ResultsStayFresh == PeerSpec => []FreshUnlessCut
<1> DEFINE Inv == IInv /\ WellFormed /\ Kept
<1>1. PeerInit => Inv
  BY InitIInv, InitIsWellFormed, InitKeepsFresh
<1>2. Inv /\ [PeerNext]_peerVars => Inv'
  BY StepKeepsCount, StepKeepsShape, StepKeepsFresh
<1>3. Inv => FreshUnlessCut
  BY KeptIsFresh
<1> QED
  BY <1>1, <1>2, <1>3, PTL DEF PeerSpec
================================================================================
