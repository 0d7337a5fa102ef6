---------------------------- MODULE ImagesProofs ----------------------------
(***************************************************************************)
(* Proofs about Images for every set of images, every depth of the call    *)
(* stack and every choice of what fails.                                   *)
(***************************************************************************)
EXTENDS Images, SequenceTheorems, FiniteSetTheorems, WellFoundedInduction, TLAPS

-----------------------------------------------------------------------------
(* The inductive invariant *)

Op == {"load", "internal", "start", "unload", "ask", "notify"}
Pc == {"open", "pe", "install", "debug", "start", "entry", "done", "connect", "unlink", "close",
       "uninstall", "free", "Unload", "body"}

FrameSet == [op : Op, img : Image \cup {NULL}, pc : Pc, LastSi : Nat,
             parent : Image \cup {NULL}, ok : BOOLEAN]

ImageSet == [state : {"none", "live", "freed", "zeroed"}, Handle : BOOLEAN, Started : BOOLEAN, StartImageContext : Nat,
             linked : BOOLEAN, Unload : BOOLEAN]

Types ==
    /\ stack \in Seq(FrameSet)
    /\ \A d \in 1..Len(stack) : stack[d].op # "notify" => stack[d].img \in Image
    /\ image \in [Image -> ImageSet]
    /\ CurrentStartImage \in Nat
    /\ EfiAtRuntime \in BOOLEAN

\* At runtime no call of the loader is left.
Ended == EfiAtRuntime => stack = <<>>

\* A call works on an image that no call below works on, unless it only asks
\* the image to unload itself.
OneUser ==
    \A d, e \in 1..Len(stack) :
        d < e /\ stack[e].img # NULL /\ stack[d].img = stack[e].img => stack[e].op = "ask"

\* n is the largest member of S, or S is empty and n is 0.
IsInnermost(S, n) == (n = 0 /\ S = {}) \/ (n \in S /\ \A m \in S : m <= n)

\* The calls of StartImage are linked innermost first.
Chain ==
    /\ IsInnermost(Started, CurrentStartImage)
    /\ \A d \in Started : IsInnermost({e \in Started : e < d}, stack[d].LastSi)

\* Contexts and calls of StartImage belong to each other.
Contexts ==
    /\ \A d \in Started : image[stack[d].img].StartImageContext = d
    /\ \A i \in Image : image[i].StartImageContext # 0 =>
          /\ image[i].Started
          /\ image[i].StartImageContext \in Started
          /\ stack[image[i].StartImageContext].img = i

IInv == Types /\ Ended /\ OneUser /\ (~EfiAtRuntime => Chain /\ Contexts)

-----------------------------------------------------------------------------
(* Sequences *)

\* What a call leaves of the stack.
LEMMA PushFacts ==
    ASSUME NEW S, NEW s \in Seq(S), NEW f \in S
    PROVE  /\ Append(s, f) \in Seq(S)
           /\ Len(Append(s, f)) = Len(s) + 1
           /\ \A d \in 1..Len(s) : Append(s, f)[d] = s[d]
           /\ Append(s, f)[Len(s) + 1] = f
  OBVIOUS

\* What Exit leaves of the stack.
LEMMA CutFacts ==
    ASSUME NEW S, NEW s \in Seq(S), NEW n \in 0..Len(s)
    PROVE  /\ SubSeq(s, 1, n) \in Seq(S)
           /\ Len(SubSeq(s, 1, n)) = n
           /\ \A d \in 1..n : SubSeq(s, 1, n)[d] = s[d]
  <1>1. 1 \in Int /\ n \in Int /\ \A d \in 1..n : s[d] \in S
    OBVIOUS
  <1>2. /\ SubSeq(s, 1, n) \in Seq(S)
        /\ Len(SubSeq(s, 1, n)) = IF 1 <= n THEN n - 1 + 1 ELSE 0
        /\ \A d \in 1 .. (n - 1 + 1) : SubSeq(s, 1, n)[d] = s[1 + d - 1]
    BY <1>1, SubSeqProperties
  <1> QED BY <1>1, <1>2

-----------------------------------------------------------------------------
(* The shapes of a step on the call stack *)

Top == stack[Len(stack)]
IsStart(f) == f.op = "start" /\ f.pc \in {"entry", "done"}

\* A step that starts no image and lets none return.
Quiet ==
    /\ stack' \in Seq(FrameSet)
    /\ \A d \in 1..Len(stack') : stack'[d].op # "notify" => stack'[d].img \in Image
    /\ OneUser'
    /\ Started' = Started
    /\ \A d \in Started : stack'[d].img = stack[d].img /\ stack'[d].LastSi = stack[d].LastSi

\* A new frame.
LEMMA FrameTyped ==
    ASSUME NEW op \in Op, NEW i \in Image \cup {NULL}, NEW pc \in Pc
    PROVE  Frame(op, i, pc) \in FrameSet
  <1>1. NULL \in Image \cup {NULL}
    OBVIOUS
  <1> QED BY <1>1 DEF Frame, FrameSet

\* The calls of StartImage, by their frames.
LEMMA StartedFacts ==
    ASSUME Types
    PROVE  /\ Started = {d \in 1..Len(stack) : IsStart(stack[d])}
           /\ \A d \in Started : d \in Nat \ {0} /\ stack[d].img \in Image
  <1>1. DOMAIN stack = 1..Len(stack) /\ Len(stack) \in Nat
    BY DEF Types
  <1>2. Started = {d \in 1..Len(stack) : IsStart(stack[d])}
    BY <1>1 DEF Started, IsStart
  <1> QED BY <1>1, <1>2 DEF Types, IsStart

\* The running call goes on.
LEMMA GotoStep ==
    ASSUME Types, OneUser, stack # <<>>, NEW pc \in Pc, stack' = Goto(pc)
    PROVE  /\ stack' \in Seq(FrameSet) /\ Len(stack') = Len(stack) /\ Len(stack) \in Nat \ {0}
           /\ \A d \in 1..Len(stack) - 1 : stack'[d] = stack[d]
           /\ stack'[Len(stack)] = [Top EXCEPT !.pc = pc]
           /\ \A d \in 1..Len(stack) : stack'[d].img = stack[d].img /\ stack'[d].op = stack[d].op
                                       /\ stack'[d].LastSi = stack[d].LastSi
           /\ OneUser'
  <1>1. Len(stack) \in Nat \ {0} /\ Top \in FrameSet /\ [Top EXCEPT !.pc = pc] \in FrameSet
    <2>1. Len(stack) \in Nat \ {0}
      BY DEF Types
    <2>2. Top \in FrameSet
      BY <2>1 DEF Types, Top
    <2>3. [Top EXCEPT !.pc = pc] \in FrameSet
      BY <2>2 DEF FrameSet
    <2> QED BY <2>1, <2>2, <2>3
  <1>2. stack' = [stack EXCEPT ![Len(stack)] = [Top EXCEPT !.pc = pc]]
    BY DEF Goto, Depth, Top, Types
  <1>3. /\ stack' \in Seq(FrameSet) /\ Len(stack') = Len(stack)
        /\ \A d \in 1..Len(stack) - 1 : stack'[d] = stack[d]
        /\ stack'[Len(stack)] = [Top EXCEPT !.pc = pc]
    BY <1>1, <1>2 DEF Types
  <1>4. \A d \in 1..Len(stack) : stack'[d].img = stack[d].img /\ stack'[d].op = stack[d].op
                                 /\ stack'[d].LastSi = stack[d].LastSi
    BY <1>1, <1>3 DEF Top, FrameSet
  <1>5. OneUser'
    BY <1>1, <1>3, <1>4 DEF OneUser
  <1> QED BY <1>1, <1>3, <1>4, <1>5

\* It goes on, and no image starts or returns.
LEMMA QuietGoto ==
    ASSUME Types, OneUser, stack # <<>>, NEW pc \in Pc, stack' = Goto(pc),
           Top.op # "start"
    PROVE  Quiet
  <1>1. /\ stack' \in Seq(FrameSet) /\ Len(stack') = Len(stack) /\ Len(stack) \in Nat \ {0}
        /\ \A d \in 1..Len(stack) - 1 : stack'[d] = stack[d]
        /\ \A d \in 1..Len(stack) : stack'[d].img = stack[d].img /\ stack'[d].op = stack[d].op
                                    /\ stack'[d].LastSi = stack[d].LastSi
        /\ OneUser'
    BY GotoStep
  <1>2. \A d \in 1..Len(stack) : IsStart(stack'[d]) <=> IsStart(stack[d])
    BY <1>1 DEF IsStart, Top
  <1>3. Started' = {d \in 1..Len(stack) : IsStart(stack'[d])}
    BY <1>1 DEF Started, IsStart
  <1>4. Started' = Started
    BY <1>2, <1>3, StartedFacts
  <1> QED BY <1>1, <1>4, StartedFacts DEF Quiet, Types

\* A service or a notification is called that starts no image, for an image that
\* no call below works on, or to ask it to unload itself.
LEMMA QuietPush ==
    ASSUME Types, OneUser, NEW f \in FrameSet, stack' = Append(stack, f),
           f.op # "start", f.op # "notify" => f.img \in Image,
           f.img # NULL /\ f.op # "ask" => \A d \in 1..Len(stack) : stack[d].img # f.img
    PROVE  Quiet
  <1>1. /\ stack' \in Seq(FrameSet) /\ Len(stack') = Len(stack) + 1 /\ Len(stack) \in Nat
        /\ \A d \in 1..Len(stack) : stack'[d] = stack[d]
        /\ stack'[Len(stack) + 1] = f
    BY PushFacts DEF Types
  <1>2. \A d \in 1..Len(stack') : d \in 1..Len(stack) \/ d = Len(stack) + 1
    BY <1>1
  <1>3. OneUser'
    BY <1>1, <1>2 DEF OneUser
  <1>4. Started' = {d \in 1..Len(stack') : IsStart(stack'[d])}
    BY <1>1 DEF Started, IsStart
  <1>5. Started' = Started
    BY <1>1, <1>2, <1>4, StartedFacts DEF IsStart
  <1> QED BY <1>1, <1>2, <1>3, <1>5, StartedFacts DEF Quiet, Types

\* The running call returns and was no StartImage before its image has.
LEMMA QuietReturn ==
    ASSUME Types, OneUser, stack # <<>>, Return, ~IsStart(Top)
    PROVE  Quiet
  <1>1. Len(stack) - 1 \in 0..Len(stack) /\ Len(stack) \in Nat \ {0}
    BY DEF Types
  <1>2. /\ stack' \in Seq(FrameSet) /\ Len(stack') = Len(stack) - 1
        /\ \A d \in 1..Len(stack) - 1 : stack'[d] = stack[d]
    BY <1>1, CutFacts DEF Return, Front, Types
  <1>3. OneUser'
    BY <1>1, <1>2 DEF OneUser
  <1>4. Started' = {d \in 1..Len(stack') : IsStart(stack'[d])}
    BY <1>2 DEF Started, IsStart
  <1>5. Started' = Started
    BY <1>1, <1>2, <1>4, StartedFacts DEF Top
  <1>6. \A d \in Started : d \in 1..Len(stack) - 1
    BY <1>1, StartedFacts DEF Top
  <1> QED BY <1>1, <1>2, <1>3, <1>5, <1>6, StartedFacts DEF Quiet, Types

\* The running call turns into the unloading of its image.
LEMMA QuietBecome ==
    ASSUME Types, OneUser, stack # <<>>, stack' = Become("unload", "unlink"),
           ~IsStart(Top), Top.img \in Image,
           \A d \in 1..Len(stack) - 1 : stack[d].img # Top.img
    PROVE  Quiet
  <1> DEFINE s == SubSeq(stack, 1, Len(stack) - 1)
             f == Frame("unload", Top.img, "unlink")
  <1>1. Len(stack) - 1 \in 0..Len(stack) /\ Len(stack) \in Nat \ {0}
    BY DEF Types
  <1>2. /\ s \in Seq(FrameSet) /\ Len(s) = Len(stack) - 1
        /\ \A d \in 1..Len(stack) - 1 : s[d] = stack[d]
    BY <1>1, CutFacts DEF Types
  <1>3. f \in FrameSet /\ f.op = "unload" /\ f.img = Top.img
    <2>1. f \in FrameSet
      <3>1. Top.img \in Image \cup {NULL} /\ "unload" \in Op /\ "unlink" \in Pc
        BY DEF Op, Pc
      <3> QED BY <3>1, FrameTyped
    <2>2. f.op = "unload" /\ f.img = Top.img
      BY DEF Frame
    <2> QED BY <2>1, <2>2
  <1>4. stack' = Append(s, f)
    BY DEF Become, Front, Img, Last, Top
  <1> HIDE DEF s, f
  <1>5. /\ stack' \in Seq(FrameSet) /\ Len(stack') = Len(stack)
        /\ \A d \in 1..Len(stack) - 1 : stack'[d] = stack[d]
        /\ stack'[Len(stack)] = f
    BY <1>1, <1>2, <1>3, <1>4, PushFacts
  <1>6. OneUser'
    BY <1>1, <1>3, <1>5 DEF OneUser
  <1>7. Started' = {d \in 1..Len(stack') : IsStart(stack'[d])}
    BY <1>5 DEF Started, IsStart
  <1>8. ~IsStart(f)
    BY <1>3 DEF IsStart
  <1>9. Started' = Started
    BY <1>1, <1>5, <1>7, <1>8, StartedFacts DEF Top
  <1>10. \A d \in Started : d \in 1..Len(stack) - 1
    BY <1>1, StartedFacts DEF Top
  <1> QED BY <1>1, <1>3, <1>5, <1>6, <1>9, <1>10, StartedFacts DEF Quiet, Types

-----------------------------------------------------------------------------
(* Chains *)

\* A step that starts no image and lets none return keeps the chain, if it
\* leaves the contexts of the images alone.
LEMMA QuietStep ==
    ASSUME IInv, ~EfiAtRuntime, Quiet,
           CurrentStartImage' = CurrentStartImage, EfiAtRuntime' = EfiAtRuntime,
           image' \in [Image -> ImageSet],
           \A i \in Image :
              /\ image'[i].StartImageContext = image[i].StartImageContext
              /\ image[i].StartImageContext # 0 => image'[i].Started = image[i].Started
    PROVE  IInv'
  <1>1. Types'
    BY DEF IInv, Types, Quiet
  <1>2. Ended' /\ OneUser'
    BY DEF Quiet, Ended
  <1>3. Chain'
    <2>1. Started' = Started /\ CurrentStartImage' = CurrentStartImage
      BY DEF Quiet
    <2>2. ASSUME NEW d \in Started
          PROVE  IsInnermost({e \in Started : e < d}, stack'[d].LastSi)
      BY <2>2 DEF IInv, Chain, Quiet
    <2> QED BY <2>1, <2>2 DEF IInv, Chain
  <1>4. Contexts'
    <2>1. Started' = Started
      BY DEF Quiet
    <2>2. ASSUME NEW d \in Started
          PROVE  image'[stack'[d].img].StartImageContext = d
      BY <2>2, StartedFacts DEF IInv, Contexts, Quiet
    <2>3. ASSUME NEW i \in Image, image'[i].StartImageContext # 0
          PROVE  /\ image'[i].Started
                 /\ image'[i].StartImageContext \in Started
                 /\ stack'[image'[i].StartImageContext].img = i
      BY <2>3 DEF IInv, Contexts, Quiet
    <2> QED BY <2>1, <2>2, <2>3 DEF Contexts
  <1> QED BY <1>1, <1>2, <1>3, <1>4 DEF IInv

\* The same when the images do not change at all.
LEMMA QuietImages ==
    ASSUME IInv, ~EfiAtRuntime, Quiet, UNCHANGED <<image, CurrentStartImage, EfiAtRuntime>>
    PROVE  IInv'
  <1>1. image' \in [Image -> ImageSet]
    BY DEF IInv, Types
  <1> QED BY <1>1, QuietStep

\* An image that is not started has no context, and a call of StartImage for it
\* becomes the innermost.  The frames of below stay.
LEMMA EnterStep ==
    ASSUME IInv, ~EfiAtRuntime, NEW i \in Image, NEW n \in 0..Len(stack),
           Enter(i, SubSeq(stack, 1, n)), ~image[i].Started,
           \A d \in Started : d <= n,
           \A d \in 1..n : stack[d].img # i
    PROVE  IInv'
  <1> DEFINE s == SubSeq(stack, 1, n)
             f == [Frame("start", i, "entry") EXCEPT !.LastSi = CurrentStartImage]
  <1>1. Len(stack) \in Nat /\ n \in Nat
    BY DEF IInv, Types
  <1>2. s \in Seq(FrameSet) /\ Len(s) = n /\ \A d \in 1..n : s[d] = stack[d]
    BY CutFacts DEF IInv, Types
  <1>3. /\ f \in FrameSet /\ f.op = "start" /\ f.img = i /\ f.pc = "entry"
        /\ f.LastSi = CurrentStartImage
    <2>1. CurrentStartImage \in Nat /\ i \in Image \cup {NULL} /\ "start" \in Op /\ "entry" \in Pc
      BY DEF IInv, Types, Op, Pc
    <2> DEFINE g == Frame("start", i, "entry")
    <2>2. g \in FrameSet
      BY <2>1, FrameTyped
    <2>3. g.op = "start" /\ g.img = i /\ g.pc = "entry"
      BY DEF Frame
    <2> HIDE DEF g
    <2>4. f = [g EXCEPT !.LastSi = CurrentStartImage]
      BY DEF g
    <2> HIDE DEF f
    <2> QED BY <2>1, <2>2, <2>3, <2>4 DEF FrameSet
  <1>4. /\ stack' = Append(s, f) /\ CurrentStartImage' = n + 1
        /\ image' = [image EXCEPT ![i].Started = TRUE, ![i].StartImageContext = n + 1,
                                  ![i].Unload = i \in Unloads]
        /\ EfiAtRuntime' = EfiAtRuntime
    BY <1>2 DEF Enter, rest
  <1> HIDE DEF s, f
  <1>5. /\ stack' \in Seq(FrameSet) /\ Len(stack') = n + 1
        /\ \A d \in 1..n : stack'[d] = stack[d]
        /\ stack'[n + 1] = f
    BY <1>1, <1>2, <1>3, <1>4, PushFacts
  <1>6. \A d \in 1..Len(stack') : d \in 1..n \/ d = n + 1
    BY <1>1, <1>5
  <1>7. /\ image' \in [Image -> ImageSet]
        /\ image'[i].Started /\ image'[i].StartImageContext = n + 1
        /\ \A j \in Image : j # i => image'[j] = image[j]
    <2>1. (i \in Unloads) \in BOOLEAN /\ image \in [Image -> ImageSet] /\ n + 1 \in Nat
      BY <1>1 DEF IInv, Types
    <2> DEFINE r == [image[i] EXCEPT !.Started = TRUE, !.StartImageContext = n + 1, !.Unload = i \in Unloads]
    <2>2. r \in ImageSet /\ r.Started /\ r.StartImageContext = n + 1
      BY <2>1 DEF ImageSet
    <2>3. image' = [image EXCEPT ![i] = r]
      BY <1>4, <2>1 DEF ImageSet
    <2> HIDE DEF r
    <2> QED BY <2>1, <2>2, <2>3
  <1>8. Types'
    <2>1. \A d \in 1..n : stack'[d].op # "notify" => stack'[d].img \in Image
      BY <1>1, <1>5 DEF IInv, Types
    <2>2. \A d \in 1..Len(stack') : stack'[d].op # "notify" => stack'[d].img \in Image
      BY <1>3, <1>5, <1>6, <2>1
    <2> QED BY <1>1, <1>4, <1>5, <1>7, <2>2 DEF IInv, Types
  <1>9. Ended'
    BY <1>4 DEF Ended
  <1>10. OneUser'
    BY <1>1, <1>3, <1>5, <1>6 DEF IInv, OneUser
  <1>11. Started' = Started \cup {n + 1} /\ \A d \in Started : d \in 1..n
    <2>1. Started' = {d \in 1..Len(stack') : IsStart(stack'[d])}
      BY <1>5 DEF Started, IsStart
    <2>2. Started = {d \in 1..Len(stack) : IsStart(stack[d])}
      BY StartedFacts DEF IInv
    <2>3. IsStart(f)
      BY <1>3 DEF IsStart
    <2>4. \A d \in Started : d \in 1..n
      BY <1>1, <2>2
    <2>5. ASSUME NEW d \in Started' PROVE d \in Started \cup {n + 1}
      BY <1>1, <1>5, <1>6, <2>1, <2>2
    <2>6. ASSUME NEW d \in Started PROVE d \in Started'
      BY <1>1, <1>5, <2>1, <2>2, <2>4
    <2>7. n + 1 \in Started'
      BY <1>1, <1>5, <2>1, <2>3
    <2> QED BY <2>4, <2>5, <2>6, <2>7
  <1>12. Chain'
    <2>1. IsInnermost(Started, CurrentStartImage)
      BY DEF IInv, Chain
    <2>2. IsInnermost(Started', n + 1)
      BY <1>1, <1>11 DEF IsInnermost
    <2>3. {e \in Started' : e < n + 1} = Started
      BY <1>1, <1>11
    <2>4. ASSUME NEW d \in Started
          PROVE  /\ {e \in Started' : e < d} = {e \in Started : e < d}
                 /\ stack'[d].LastSi = stack[d].LastSi
      BY <1>1, <1>5, <1>11
    <2>5. ASSUME NEW d \in Started'
          PROVE  IsInnermost({e \in Started' : e < d}, stack'[d].LastSi)
      <3>1. CASE d = n + 1
        BY <1>3, <1>5, <2>1, <2>3, <3>1
      <3>2. CASE d \in Started
        BY <2>4, <3>2 DEF IInv, Chain
      <3> QED BY <1>11, <3>1, <3>2
    <2> QED BY <1>4, <2>2, <2>5 DEF Chain
  <1>13. Contexts'
    <2>1. image[i].StartImageContext = 0
      BY DEF IInv, Contexts
    <2>2. ASSUME NEW d \in Started'
          PROVE  image'[stack'[d].img].StartImageContext = d
      <3>1. CASE d = n + 1
        BY <1>3, <1>5, <1>7, <3>1
      <3>2. CASE d \in Started
        <4>1. stack'[d] = stack[d] /\ stack[d].img # i /\ stack[d].img \in Image
          BY <1>5, <1>11, <3>2, StartedFacts DEF IInv
        <4> QED BY <1>7, <3>2, <4>1 DEF IInv, Contexts
      <3> QED BY <1>11, <3>1, <3>2
    <2>3. ASSUME NEW j \in Image, image'[j].StartImageContext # 0
          PROVE  /\ image'[j].Started
                 /\ image'[j].StartImageContext \in Started'
                 /\ stack'[image'[j].StartImageContext].img = j
      <3>1. CASE j = i
        BY <1>3, <1>5, <1>7, <1>11, <3>1
      <3>2. CASE j # i
        <4>1. image[j].StartImageContext \in Started /\ image'[j] = image[j]
          BY <1>7, <2>3, <3>2 DEF IInv, Contexts
        <4>2. stack'[image[j].StartImageContext] = stack[image[j].StartImageContext]
          BY <1>5, <1>11, <4>1
        <4> QED BY <1>11, <2>3, <4>1, <4>2 DEF IInv, Contexts
      <3> QED BY <3>1, <3>2
    <2> QED BY <2>2, <2>3 DEF Contexts
  <1> QED BY <1>4, <1>8, <1>9, <1>10, <1>12, <1>13 DEF IInv

\* Exit, or the return of the entry point, of the innermost image: the calls
\* above its StartImage are gone, and none of them is a StartImage whose image
\* has not returned.
LEMMA JumpStep ==
    ASSUME IInv, ~EfiAtRuntime, NEW n \in Started, NEW ok \in BOOLEAN, Jump(n, ok),
           \A d \in Started : d <= n
    PROVE  IInv'
  <1> DEFINE s == SubSeq(stack, 1, n)
             f == [stack[n] EXCEPT !.pc = "done", !.ok = ok]
  <1>1. n \in 1..Len(stack) /\ Len(stack) \in Nat /\ IsStart(stack[n]) /\ stack[n] \in FrameSet
    BY StartedFacts DEF IInv, Types
  <1>2. n \in 0..Len(stack) /\ stack \in Seq(FrameSet)
    BY <1>1 DEF IInv, Types
  <1>3. s \in Seq(FrameSet) /\ Len(s) = n /\ \A d \in 1..n : s[d] = stack[d]
    BY <1>2, CutFacts
  <1>4. /\ f \in FrameSet /\ f.op = stack[n].op /\ f.img = stack[n].img
        /\ f.LastSi = stack[n].LastSi /\ f.pc = "done"
    BY <1>1 DEF FrameSet, Pc
  <1>5. stack' = [s EXCEPT ![n] = f]
    <2>1. stack' = [s EXCEPT ![n].pc = "done", ![n].ok = ok]
      BY DEF Jump
    <2>2. s[n] = stack[n] /\ stack[n] \in FrameSet
      BY <1>1, <1>3
    <2> HIDE DEF s
    <2> QED BY <1>1, <1>3, <2>1, <2>2 DEF FrameSet
  <1> HIDE DEF s, f
  <1>6. /\ stack' \in Seq(FrameSet) /\ Len(stack') = n
        /\ \A d \in 1..n - 1 : stack'[d] = stack[d]
        /\ stack'[n] = f
    BY <1>1, <1>3, <1>4, <1>5
  <1>7. \A d \in 1..n : /\ stack'[d].op = stack[d].op /\ stack'[d].img = stack[d].img
                        /\ stack'[d].LastSi = stack[d].LastSi
    BY <1>1, <1>4, <1>6
  <1>8. Started' = Started
    <2>1. Started' = {d \in 1..n : IsStart(stack'[d])}
      BY <1>6 DEF Started, IsStart
    <2>2. Started = {d \in 1..Len(stack) : IsStart(stack[d])}
      BY StartedFacts DEF IInv
    <2>3. IsStart(stack'[n])
      BY <1>1, <1>4, <1>6 DEF IsStart
    <2> QED BY <1>1, <1>6, <2>1, <2>2, <2>3
  <1>9. OneUser'
    BY <1>1, <1>6, <1>7 DEF IInv, OneUser
  <1>10. \A d \in Started : d \in 1..n
    BY <1>1, StartedFacts DEF IInv
  <1>11. \A d \in 1..Len(stack') : stack'[d].op # "notify" => stack'[d].img \in Image
    BY <1>1, <1>6, <1>7 DEF IInv, Types
  <1>12. Quiet
    BY <1>6, <1>7, <1>8, <1>9, <1>10, <1>11 DEF Quiet
  <1> QED BY <1>12, QuietImages DEF Jump, rest

-----------------------------------------------------------------------------
(* The running call *)

\* The running call is there, before the boot services end.
LEMMA AtFacts ==
    ASSUME IInv, NEW op \in Op, NEW pc, At(op, pc)
    PROVE  /\ stack # <<>> /\ ~EfiAtRuntime /\ Len(stack) \in Nat \ {0}
           /\ Top \in FrameSet /\ Top.op = op /\ Top.pc = pc /\ Img = Top.img
           /\ op # "notify" => Img \in Image
           /\ op \notin {"notify", "ask"} => \A d \in 1..Len(stack) - 1 : stack[d].img # Img
  <1>1. stack # <<>> /\ Len(stack) \in Nat \ {0} /\ Top \in FrameSet
    BY DEF At, Depth, IInv, Types, Top
  <1>2. ~EfiAtRuntime
    BY <1>1 DEF IInv, Ended
  <1>3. Top.op = op /\ Top.pc = pc /\ Img = Top.img
    BY DEF At, Last, Img, Top
  <1>4. op # "notify" => Img \in Image
    BY <1>1, <1>3 DEF IInv, Types, Top
  <1>5. op \notin {"notify", "ask"} => \A d \in 1..Len(stack) - 1 : stack[d].img # Img
    BY <1>1, <1>3, <1>4, ImagesAssumption DEF IInv, OneUser, Top
  <1> QED BY <1>1, <1>2, <1>3, <1>4, <1>5

\* A change of one structure that leaves its context alone.
LEMMA ImageUpdate ==
    ASSUME IInv, NEW i \in Image, NEW r \in ImageSet, image' = [image EXCEPT ![i] = r],
           r.StartImageContext = image[i].StartImageContext,
           image[i].StartImageContext # 0 => r.Started = image[i].Started
    PROVE  /\ image' \in [Image -> ImageSet]
           /\ \A j \in Image :
                /\ image'[j].StartImageContext = image[j].StartImageContext
                /\ image[j].StartImageContext # 0 => image'[j].Started = image[j].Started
  <1>1. image \in [Image -> ImageSet]
    BY DEF IInv, Types
  <1> QED BY <1>1

\* A service goes on, and the structures stay.
LEMMA ServiceGoto ==
    ASSUME IInv, NEW op \in Op \ {"start"}, NEW pc, At(op, pc),
           NEW to \in Pc, stack' = Goto(to),
           UNCHANGED <<image, CurrentStartImage, EfiAtRuntime>>
    PROVE  IInv'
  <1>1. stack # <<>> /\ ~EfiAtRuntime /\ Top.op # "start"
    BY AtFacts
  <1>2. Quiet
    BY <1>1, QuietGoto DEF IInv
  <1> QED BY <1>1, <1>2, QuietImages

\* A service goes on and changes the structure it works on.
LEMMA ServiceUpdate ==
    ASSUME IInv, NEW op \in Op \ {"start", "notify"}, NEW pc, At(op, pc),
           NEW to \in Pc, stack' = Goto(to), NEW r \in ImageSet,
           image' = [image EXCEPT ![Img] = r],
           r.StartImageContext = image[Img].StartImageContext, r.Started = image[Img].Started,
           UNCHANGED <<CurrentStartImage, EfiAtRuntime>>
    PROVE  IInv'
  <1>1. stack # <<>> /\ ~EfiAtRuntime /\ Top.op # "start" /\ Img \in Image
    BY AtFacts
  <1>2. Quiet
    BY <1>1, QuietGoto DEF IInv
  <1>3. /\ image' \in [Image -> ImageSet]
        /\ \A j \in Image :
             /\ image'[j].StartImageContext = image[j].StartImageContext
             /\ image[j].StartImageContext # 0 => image'[j].Started = image[j].Started
    BY <1>1, ImageUpdate
  <1> QED BY <1>1, <1>2, <1>3, QuietStep

\* A service that is at work on an image alone turns into its unloading.
LEMMA ServiceUnloads ==
    ASSUME IInv, NEW op \in Op \ {"notify"}, NEW pc, At(op, pc),
           op = "start" => pc = "connect",
           op = "ask" => \A d \in 1..Len(stack) - 1 : stack[d].img # Img,
           stack' = Become("unload", "unlink"),
           UNCHANGED <<image, CurrentStartImage, EfiAtRuntime>>
    PROVE  IInv'
  <1>1. /\ stack # <<>> /\ ~EfiAtRuntime /\ Img \in Image /\ Img = Top.img
        /\ Top.op = op /\ Top.pc = pc
        /\ \A d \in 1..Len(stack) - 1 : stack[d].img # Img
    BY AtFacts
  <1>2. ~IsStart(Top)
    BY <1>1 DEF IsStart
  <1>3. Quiet
    BY <1>1, <1>2, QuietBecome DEF IInv
  <1> QED BY <1>1, <1>3, QuietImages

\* A call returns that is no StartImage before its image has.
LEMMA ServiceReturns ==
    ASSUME IInv, NEW op \in Op, NEW pc, At(op, pc), op = "start" => pc = "connect", Return,
           UNCHANGED <<image, CurrentStartImage, EfiAtRuntime>>
    PROVE  IInv'
  <1>1. stack # <<>> /\ ~EfiAtRuntime /\ Top.op = op /\ Top.pc = pc
    BY AtFacts
  <1>2. ~IsStart(Top)
    BY <1>1 DEF IsStart
  <1>3. Quiet
    BY <1>1, <1>2, QuietReturn DEF IInv
  <1> QED BY <1>1, <1>3, QuietImages

-----------------------------------------------------------------------------
(* LoadImage and internal images *)

\* Callers leave alone what a call below works on.
LEMMA BusyFacts ==
    ASSUME Types, NEW i \in Image, ~Busy(i)
    PROVE  \A d \in 1..Len(stack) : stack[d].img # i
  BY DEF Busy, Types

\* LoadImage pushes a call for a structure nobody uses yet.
LEMMA LoadImageStep ==
    ASSUME IInv, NEW i \in Image, LoadImage(i)
    PROVE  IInv'
  <1> DEFINE g == Frame("load", i, "open")
             f == [g EXCEPT !.parent = Parent]
  <1>1. ~EfiAtRuntime /\ ~Busy(i) /\ stack' = Append(stack, f)
        /\ UNCHANGED <<image, CurrentStartImage, EfiAtRuntime>>
    BY DEF LoadImage, Caller, User, rest
  <1>2. Parent \in Image \cup {NULL}
    <2>1. CASE CurrentStartImage = 0
      BY <2>1, ImagesAssumption DEF Parent
    <2>2. CASE CurrentStartImage # 0
      <3>1. CurrentStartImage \in Started
        BY <1>1, <2>2 DEF IInv, Chain, IsInnermost
      <3> QED BY <2>2, <3>1, StartedFacts DEF Parent, IInv
    <2> QED BY <2>1, <2>2
  <1>3. g \in FrameSet /\ g.op = "load" /\ g.img = i
    <2>1. "load" \in Op /\ "open" \in Pc /\ i \in Image \cup {NULL}
      BY DEF Op, Pc
    <2>2. g \in FrameSet
      BY <2>1, FrameTyped
    <2>3. g.op = "load" /\ g.img = i
      BY DEF Frame
    <2> QED BY <2>2, <2>3
  <1> HIDE DEF g
  <1>4. f \in FrameSet /\ f.op = "load" /\ f.img = i
    BY <1>2, <1>3 DEF FrameSet
  <1> HIDE DEF f
  <1>5. Quiet
    BY <1>1, <1>4, BusyFacts, QuietPush DEF IInv
  <1> QED BY <1>1, <1>5, QuietImages

\* The file is opened and the structure filled, or LoadImage returns.
LEMMA LoadOpenStep ==
    ASSUME IInv, LoadOpen
    PROVE  IInv'
  <1>1. At("load", "open") /\ "load" \in Op /\ "pe" \in Pc
    BY DEF LoadOpen, Op, Pc
  <1>2. CASE stack' = Goto("pe") /\ image' = [image EXCEPT ![Img].state = "live"]
    <2> DEFINE r == [image[Img] EXCEPT !.state = "live"]
    <2>1. Img \in Image /\ image \in [Image -> ImageSet]
      BY <1>1, AtFacts DEF IInv, Types
    <2>2. /\ r \in ImageSet /\ r.StartImageContext = image[Img].StartImageContext
          /\ r.Started = image[Img].Started
      BY <2>1 DEF ImageSet
    <2>3. image' = [image EXCEPT ![Img] = r]
      BY <1>2, <2>1
    <2> HIDE DEF r
    <2> QED BY <1>1, <1>2, <2>2, <2>3, ServiceUpdate DEF LoadOpen, rest
  <1>3. CASE Return /\ UNCHANGED image
    BY <1>1, <1>3, ServiceReturns DEF LoadOpen, rest
  <1> QED BY <1>2, <1>3 DEF LoadOpen

\* The image is loaded and listed, or the structure is unloaded again.
LEMMA LoadPeStep ==
    ASSUME IInv, LoadPe
    PROVE  IInv'
  <1>1. At("load", "pe") /\ "load" \in Op /\ "install" \in Pc
    BY DEF LoadPe, Op, Pc
  <1>2. CASE stack' = Goto("install") /\ image' = [image EXCEPT ![Img].linked = Kind[Img] # "app"]
    <2> DEFINE r == [image[Img] EXCEPT !.linked = Kind[Img] # "app"]
    <2>1. Img \in Image /\ image \in [Image -> ImageSet]
      BY <1>1, AtFacts DEF IInv, Types
    <2>2. /\ r \in ImageSet /\ r.StartImageContext = image[Img].StartImageContext
          /\ r.Started = image[Img].Started
      BY <2>1 DEF ImageSet
    <2>3. image' = [image EXCEPT ![Img] = r]
      BY <1>2, <2>1
    <2> HIDE DEF r
    <2> QED BY <1>1, <1>2, <2>2, <2>3, ServiceUpdate DEF LoadPe
  <1>3. CASE stack' = Become("unload", "unlink") /\ UNCHANGED image
    BY <1>1, <1>3, ServiceUnloads DEF LoadPe
  <1> QED BY <1>2, <1>3 DEF LoadPe

\* The protocols are installed, or the structure is unloaded again.
LEMMA LoadInstallStep ==
    ASSUME IInv, LoadInstall
    PROVE  IInv'
  <1>1. At("load", "install") /\ "load" \in Op /\ "debug" \in Pc
    BY DEF LoadInstall, Op, Pc
  <1>2. CASE stack' = Goto("debug") /\ image' = [image EXCEPT ![Img].Handle = TRUE]
    <2> DEFINE r == [image[Img] EXCEPT !.Handle = TRUE]
    <2>1. Img \in Image /\ image \in [Image -> ImageSet]
      BY <1>1, AtFacts DEF IInv, Types
    <2>2. /\ r \in ImageSet /\ r.StartImageContext = image[Img].StartImageContext
          /\ r.Started = image[Img].Started
      BY <2>1 DEF ImageSet
    <2>3. image' = [image EXCEPT ![Img] = r]
      BY <1>2, <2>1
    <2> HIDE DEF r
    <2> QED BY <1>1, <1>2, <2>2, <2>3, ServiceUpdate DEF LoadInstall, rest
  <1>3. CASE stack' = Become("unload", "unlink") /\ UNCHANGED image
    BY <1>1, <1>3, ServiceUnloads DEF LoadInstall, rest
  <1> QED BY <1>2, <1>3 DEF LoadInstall

\* An image of the firmware is set up, or its structure freed.
LEMMA FwLoadInternalStep ==
    ASSUME IInv, NEW i \in Image, FwLoadInternal(i)
    PROVE  IInv'
  <1> DEFINE f == Frame("internal", i, "install")
  <1>1. ~EfiAtRuntime /\ UNCHANGED <<CurrentStartImage, EfiAtRuntime>> /\ Len(stack) = 0
    BY DEF FwLoadInternal, User, Depth, rest
  <1>2. image \in [Image -> ImageSet]
    BY DEF IInv, Types
  <1>3. f \in FrameSet /\ f.op = "internal" /\ f.img = i
    <2>1. "internal" \in Op /\ "install" \in Pc /\ i \in Image \cup {NULL}
      BY DEF Op, Pc
    <2>2. f \in FrameSet
      BY <2>1, FrameTyped
    <2>3. f.op = "internal" /\ f.img = i
      BY DEF Frame
    <2> QED BY <2>2, <2>3
  <1>4. ASSUME NEW st \in {"live", "freed"}, image' = [image EXCEPT ![i].state = st], Quiet
        PROVE  IInv'
    <2> DEFINE r == [image[i] EXCEPT !.state = st]
    <2>1. /\ r \in ImageSet /\ r.StartImageContext = image[i].StartImageContext
          /\ r.Started = image[i].Started
      BY <1>2 DEF ImageSet
    <2>2. image' = [image EXCEPT ![i] = r]
      BY <1>2, <1>4
    <2> HIDE DEF r
    <2>3. /\ image' \in [Image -> ImageSet]
          /\ \A j \in Image :
               /\ image'[j].StartImageContext = image[j].StartImageContext
               /\ image[j].StartImageContext # 0 => image'[j].Started = image[j].Started
      BY <2>1, <2>2, ImageUpdate
    <2> QED BY <1>1, <1>4, <2>3, QuietStep
  <1>5. CASE image' = [image EXCEPT ![i].state = "live"] /\ stack' = Append(stack, f)
    <2> HIDE DEF f
    <2>1. \A d \in 1..Len(stack) : stack[d].img # f.img
      BY <1>1
    <2>2. Quiet
      BY <1>3, <1>5, <2>1, QuietPush DEF IInv
    <2> QED BY <1>4, <1>5, <2>2
  <1>6. CASE image' = [image EXCEPT ![i].state = "freed"] /\ UNCHANGED stack
    <2>1. Quiet
      BY <1>6, StartedFacts DEF Quiet, IInv, Types, OneUser, Started
    <2> QED BY <1>4, <1>6, <2>1
  <1> QED BY <1>5, <1>6 DEF FwLoadInternal

\* Its protocols are installed.
LEMMA InternalInstallStep ==
    ASSUME IInv, InternalInstall
    PROVE  IInv'
  <1>1. At("internal", "install") /\ "internal" \in Op /\ "start" \in Pc
    BY DEF InternalInstall, Op, Pc
  <1> DEFINE r == [image[Img] EXCEPT !.Handle = TRUE]
  <1>2. Img \in Image /\ image \in [Image -> ImageSet]
    BY <1>1, AtFacts DEF IInv, Types
  <1>3. /\ r \in ImageSet /\ r.StartImageContext = image[Img].StartImageContext
        /\ r.Started = image[Img].Started
    BY <1>2 DEF ImageSet
  <1>4. image' = [image EXCEPT ![Img] = r]
    BY <1>2 DEF InternalInstall
  <1> HIDE DEF r
  <1> QED BY <1>1, <1>3, <1>4, ServiceUpdate DEF InternalInstall, rest

-----------------------------------------------------------------------------
(* StartImage and Exit *)

\* StartImage makes its call the innermost.
LEMMA StartImageStep ==
    ASSUME IInv, ~Reckless, NEW i \in Image, StartImage(i)
    PROVE  IInv'
  <1>1. ~EfiAtRuntime /\ ~Busy(i) /\ ~image[i].Started /\ Enter(i, stack)
    BY DEF StartImage, Caller, User, MayTouch, Startable
  <1>2. stack \in Seq(FrameSet) /\ Len(stack) \in Nat
    BY DEF IInv, Types
  <1>3. SubSeq(stack, 1, Len(stack)) = stack
    <2>1. /\ SubSeq(stack, 1, Len(stack)) \in Seq(FrameSet)
          /\ Len(SubSeq(stack, 1, Len(stack))) = Len(stack)
          /\ \A d \in 1..Len(stack) : SubSeq(stack, 1, Len(stack))[d] = stack[d]
      BY <1>2, CutFacts
    <2> QED BY <1>2, <2>1
  <1>4. Len(stack) \in 0..Len(stack) /\ \A d \in Started : d <= Len(stack)
    BY <1>2, StartedFacts DEF IInv
  <1>5. \A d \in 1..Len(stack) : stack[d].img # i
    BY <1>1, BusyFacts DEF IInv
  <1> QED BY <1>1, <1>3, <1>4, <1>5, EnterStep

\* So does the start of an image of the firmware.
LEMMA InternalStartStep ==
    ASSUME IInv, InternalStart
    PROVE  IInv'
  <1>1. At("internal", "start") /\ "internal" \in Op
    BY DEF InternalStart, Op
  <1>2. /\ ~EfiAtRuntime /\ Img \in Image /\ Len(stack) \in Nat \ {0} /\ Top.op = "internal"
        /\ \A d \in 1..Len(stack) - 1 : stack[d].img # Img
    BY <1>1, AtFacts
  <1>3. ~image[Img].Started /\ Enter(Img, SubSeq(stack, 1, Len(stack) - 1))
    BY DEF InternalStart, Startable, Front
  <1>4. \A d \in Started : d <= Len(stack) - 1
    <2>1. ~IsStart(Top)
      BY <1>2 DEF IsStart
    <2> QED BY <1>2, <2>1, StartedFacts DEF IInv, Top
  <1>5. Len(stack) - 1 \in 0..Len(stack)
    BY <1>2
  <1> QED BY <1>2, <1>3, <1>4, <1>5, EnterStep

\* The entry point returns to the innermost call of StartImage.
LEMMA EntryReturnsStep ==
    ASSUME IInv, EntryReturns
    PROVE  IInv'
  <1>1. At("start", "entry") /\ "start" \in Op
    BY DEF EntryReturns, Op
  <1>2. ~EfiAtRuntime /\ Len(stack) \in Nat \ {0} /\ Top.op = "start" /\ Top.pc = "entry"
    BY <1>1, AtFacts
  <1>3. Len(stack) \in Started /\ \A d \in Started : d <= Len(stack)
    BY <1>2, StartedFacts DEF IInv, IsStart, Top
  <1>4. PICK ok \in BOOLEAN : Jump(Len(stack), ok)
    BY DEF EntryReturns, Depth
  <1> QED BY <1>2, <1>3, <1>4, JumpStep

\* Exit cuts the stack back to the innermost call of StartImage.
LEMMA ExitStep ==
    ASSUME IInv, NEW i \in Image, Exit(i)
    PROVE  IInv'
  <1>1. ~EfiAtRuntime /\ CurrentStartImage # 0 /\ image[i].StartImageContext = CurrentStartImage
    BY DEF Exit, User, Exitable
  <1>2. CurrentStartImage \in Started /\ \A d \in Started : d <= CurrentStartImage
    BY <1>1 DEF IInv, Chain, IsInnermost
  <1>3. PICK ok \in BOOLEAN : Jump(CurrentStartImage, ok)
    BY <1>1 DEF Exit
  <1> QED BY <1>1, <1>2, <1>3, JumpStep

\* The innermost call of StartImage leaves the chain, and its image loses the context.
LEMMA StartDoneStep ==
    ASSUME IInv, StartDone
    PROVE  IInv'
  <1> DEFINE n == Len(stack)
             r == [image[Img] EXCEPT !.StartImageContext = 0]
  <1>1. At("start", "done") /\ "start" \in Op /\ "connect" \in Pc
    BY DEF StartDone, Op, Pc
  <1>2. /\ ~EfiAtRuntime /\ n \in Nat \ {0} /\ Top.op = "start" /\ Top.pc = "done"
        /\ Img \in Image /\ Img = Top.img /\ stack # <<>> /\ Top \in FrameSet
    BY <1>1, AtFacts
  <1>3. /\ CurrentStartImage' = Top.LastSi /\ stack' = Goto("connect")
        /\ EfiAtRuntime' = EfiAtRuntime
        /\ image' = [image EXCEPT ![Img].StartImageContext = 0]
    BY DEF StartDone, Last, Top, rest
  <1>4. /\ stack' \in Seq(FrameSet) /\ Len(stack') = n
        /\ \A d \in 1..n - 1 : stack'[d] = stack[d]
        /\ stack'[n] = [Top EXCEPT !.pc = "connect"]
        /\ \A d \in 1..n : stack'[d].img = stack[d].img /\ stack'[d].op = stack[d].op
        /\ OneUser'
    BY <1>1, <1>2, <1>3, GotoStep DEF IInv
  <1>5. /\ image' \in [Image -> ImageSet] /\ image'[Img].StartImageContext = 0
        /\ \A j \in Image : j # Img => image'[j] = image[j]
    <2>1. image \in [Image -> ImageSet]
      BY DEF IInv, Types
    <2>2. r \in ImageSet /\ r.StartImageContext = 0
      BY <1>2, <2>1 DEF ImageSet
    <2>3. image' = [image EXCEPT ![Img] = r]
      BY <1>2, <1>3, <2>1
    <2> HIDE DEF r
    <2> QED BY <1>2, <2>1, <2>2, <2>3
  <1>6. Types'
    <2>1. Top.LastSi \in Nat
      BY <1>2 DEF FrameSet
    <2>2. \A d \in 1..Len(stack') : stack'[d].op # "notify" => stack'[d].img \in Image
      BY <1>4 DEF IInv, Types
    <2> QED BY <1>3, <1>4, <1>5, <2>1, <2>2 DEF IInv, Types
  <1>7. n \in Started /\ \A d \in Started : d \in 1..n
    BY <1>2, StartedFacts DEF IInv, IsStart, Top
  <1>8. Started' = {d \in Started : d < n}
    <2>1. Started' = {d \in 1..n : IsStart(stack'[d])}
      BY <1>4 DEF Started, IsStart
    <2>2. Started = {d \in 1..n : IsStart(stack[d])}
      BY StartedFacts DEF IInv
    <2>3. stack'[n].pc = "connect"
      BY <1>2, <1>4 DEF FrameSet
    <2>4. ~IsStart(stack'[n])
      BY <2>3 DEF IsStart
    <2> QED BY <1>2, <1>4, <2>1, <2>2, <2>4
  <1>9. Chain'
    <2>1. IsInnermost(Started', CurrentStartImage')
      BY <1>2, <1>3, <1>7, <1>8 DEF IInv, Chain, Top
    <2>2. ASSUME NEW d \in Started'
          PROVE  IsInnermost({e \in Started' : e < d}, stack'[d].LastSi)
      <3>1. d \in Started /\ d \in 1..n - 1
        BY <1>2, <1>7, <1>8
      <3>2. {e \in Started' : e < d} = {e \in Started : e < d}
        <4>1. \A e \in Started : e < d => e < n
          BY <1>2, <1>7, <3>1
        <4> QED BY <1>8, <4>1
      <3> QED BY <1>2, <1>4, <3>1, <3>2 DEF IInv, Chain
    <2> QED BY <2>1, <2>2 DEF Chain
  <1>10. Contexts'
    <2>1. ASSUME NEW d \in Started'
          PROVE  image'[stack'[d].img].StartImageContext = d
      <3>1. d \in Started /\ d \in 1..n - 1 /\ d # n /\ stack'[d] = stack[d]
        BY <1>2, <1>4, <1>7, <1>8
      <3>2. image[stack[d].img].StartImageContext = d /\ image[Img].StartImageContext = n
        BY <1>2, <1>7, <3>1 DEF IInv, Contexts, Top
      <3>3. stack[d].img # Img /\ stack[d].img \in Image
        BY <3>1, <3>2, StartedFacts DEF IInv
      <3> QED BY <1>5, <3>1, <3>2, <3>3
    <2>2. ASSUME NEW j \in Image, image'[j].StartImageContext # 0
          PROVE  /\ image'[j].Started
                 /\ image'[j].StartImageContext \in Started'
                 /\ stack'[image'[j].StartImageContext].img = j
      <3>1. j # Img /\ image'[j] = image[j]
        BY <1>5, <2>2
      <3>2. /\ image[j].Started /\ image[j].StartImageContext \in Started
            /\ stack[image[j].StartImageContext].img = j
        BY <1>2, <2>2, <3>1 DEF IInv, Contexts
      <3>3. image[j].StartImageContext # n
        BY <1>2, <3>1, <3>2 DEF Top
      <3>4. image[j].StartImageContext \in 1..n - 1
        BY <1>2, <1>7, <3>2, <3>3
      <3> QED BY <1>2, <1>4, <1>8, <3>1, <3>2, <3>4
    <2> QED BY <2>1, <2>2 DEF Contexts
  <1>11. Ended'
    BY <1>2, <1>3 DEF Ended
  <1> QED BY <1>3, <1>4, <1>6, <1>9, <1>10, <1>11 DEF IInv

\* StartImage returns, or unloads an image that already left the chain.
LEMMA StartConnectedStep ==
    ASSUME IInv, StartConnected
    PROVE  IInv'
  <1>1. At("start", "connect") /\ "start" \in Op
    BY DEF StartConnected, Op
  <1>2. UNCHANGED <<image, CurrentStartImage, EfiAtRuntime>>
    BY DEF StartConnected, rest
  <1>3. CASE stack' = Become("unload", "unlink")
    BY <1>1, <1>2, <1>3, ServiceUnloads
  <1>4. CASE Return
    BY <1>1, <1>2, <1>4, ServiceReturns
  <1> QED BY <1>3, <1>4 DEF StartConnected

-----------------------------------------------------------------------------
(* UnloadImage *)

\* A structure is freed that has no context.
LEMMA UnloadFreeStep ==
    ASSUME IInv, UnloadFree
    PROVE  IInv'
  <1> DEFINE r == [NoImage EXCEPT !.state = "freed"]
  <1>1. At("unload", "free") /\ "unload" \in Op
    BY DEF UnloadFree, Op
  <1>2. /\ stack # <<>> /\ ~EfiAtRuntime /\ Img \in Image /\ Len(stack) \in Nat \ {0}
        /\ Top.op = "unload" /\ Img = Top.img
        /\ \A d \in 1..Len(stack) - 1 : stack[d].img # Img
    BY <1>1, AtFacts
  <1>3. ~IsStart(Top)
    BY <1>2 DEF IsStart
  <1>4. Quiet
    BY <1>2, <1>3, QuietReturn DEF IInv, UnloadFree
  <1>5. image[Img].StartImageContext = 0
    <2> SUFFICES ASSUME image[Img].StartImageContext # 0 PROVE FALSE
      OBVIOUS
    <2>1. image[Img].StartImageContext \in Started /\ stack[image[Img].StartImageContext].img = Img
      BY <1>2 DEF IInv, Contexts
    <2>2. image[Img].StartImageContext \in 1..Len(stack) /\ IsStart(stack[image[Img].StartImageContext])
      BY <2>1, StartedFacts DEF IInv
    <2>3. image[Img].StartImageContext # Len(stack)
      BY <1>3, <2>2 DEF Top
    <2> QED BY <1>2, <2>1, <2>2, <2>3
  <1>6. r \in ImageSet /\ r.StartImageContext = 0
    <2>1. NoImage \in ImageSet /\ NoImage.StartImageContext = 0
      BY DEF NoImage, ImageSet
    <2> QED BY <2>1 DEF ImageSet
  <1>7. image' = [image EXCEPT ![Img] = r] /\ UNCHANGED <<CurrentStartImage, EfiAtRuntime>>
    BY DEF UnloadFree
  <1> HIDE DEF r
  <1>8. /\ image' \in [Image -> ImageSet]
        /\ \A j \in Image :
             /\ image'[j].StartImageContext = image[j].StartImageContext
             /\ image[j].StartImageContext # 0 => image'[j].Started = image[j].Started
    BY <1>2, <1>5, <1>6, <1>7, ImageUpdate
  <1> QED BY <1>2, <1>4, <1>7, <1>8, QuietStep

\* The steps of the loader's own services.
LEMMA ServiceStep ==
    ASSUME IInv, Service
    PROVE  IInv'
  <1>1. CASE LoadOpen \/ LoadPe \/ LoadInstall
    BY <1>1, LoadOpenStep, LoadPeStep, LoadInstallStep
  <1>2. CASE LoadDebug
    <2>1. At("load", "debug") /\ "load" \in Op /\ Return
      BY <1>2 DEF LoadDebug, Op
    <2> QED BY <1>2, <2>1, ServiceReturns DEF LoadDebug, rest
  <1>3. CASE InternalInstall \/ InternalStart
    BY <1>3, InternalInstallStep, InternalStartStep
  <1>4. CASE StartDone
    BY <1>4, StartDoneStep
  <1>5. CASE UnloadUnlink
    <2> DEFINE to == IF image[Img].Handle THEN "close" ELSE "free"
    <2>1. At("unload", "unlink") /\ "unload" \in Op \ {"start"} /\ to \in Pc /\ stack' = Goto(to)
      BY <1>5 DEF UnloadUnlink, Op, Pc
    <2> HIDE DEF to
    <2> QED BY <1>5, <2>1, ServiceGoto DEF UnloadUnlink, rest
  <1>6. CASE UnloadClose
    <2>1. At("unload", "close") /\ "unload" \in Op \ {"start"} /\ "debug" \in Pc /\ stack' = Goto("debug")
      BY <1>6 DEF UnloadClose, Op, Pc
    <2> QED BY <1>6, <2>1, ServiceGoto DEF UnloadClose, rest
  <1>7. CASE UnloadDebug
    <2>1. At("unload", "debug") /\ "unload" \in Op \ {"start"} /\ "uninstall" \in Pc /\ stack' = Goto("uninstall")
      BY <1>7 DEF UnloadDebug, Op, Pc
    <2> QED BY <1>7, <2>1, ServiceGoto DEF UnloadDebug, rest
  <1>8. CASE UnloadUninstall
    <2>1. At("unload", "uninstall") /\ "unload" \in Op \ {"start"} /\ "free" \in Pc /\ stack' = Goto("free")
      BY <1>8 DEF UnloadUninstall, Op, Pc
    <2> QED BY <1>8, <2>1, ServiceGoto DEF UnloadUninstall, rest
  <1>9. CASE UnloadFree
    BY <1>9, UnloadFreeStep
  <1> QED BY <1>1, <1>2, <1>3, <1>4, <1>5, <1>6, <1>7, <1>8, <1>9 DEF Service

\* UnloadImage unloads an image that was not started, or asks it.
LEMMA BSUnloadImageStep ==
    ASSUME IInv, ~Reckless, NEW i \in Image, BSUnloadImage(i)
    PROVE  IInv'
  <1>1. ~EfiAtRuntime /\ UNCHANGED <<image, CurrentStartImage, EfiAtRuntime>>
    BY DEF BSUnloadImage, Caller, User, rest
  <1>2. CASE ~Busy(i) /\ stack' = Append(stack, Frame("unload", i, "unlink"))
    <2> DEFINE f == Frame("unload", i, "unlink")
    <2>1. "unload" \in Op /\ "unlink" \in Pc /\ i \in Image \cup {NULL}
      BY DEF Op, Pc
    <2>2. f \in FrameSet
      BY <2>1, FrameTyped
    <2>3. f.op = "unload" /\ f.img = i
      BY DEF Frame
    <2> HIDE DEF f
    <2>4. stack' = Append(stack, f)
      BY <1>2 DEF f
    <2>5. Quiet
      BY <1>2, <2>2, <2>3, <2>4, BusyFacts, QuietPush DEF IInv
    <2> QED BY <1>1, <2>5, QuietImages
  <1>3. CASE stack' = Append(stack, Frame("ask", i, "Unload"))
    <2> DEFINE f == Frame("ask", i, "Unload")
    <2>1. "ask" \in Op /\ "Unload" \in Pc /\ i \in Image \cup {NULL}
      BY DEF Op, Pc
    <2>2. f \in FrameSet
      BY <2>1, FrameTyped
    <2>3. f.op = "ask" /\ f.img = i
      BY DEF Frame
    <2> HIDE DEF f
    <2>4. stack' = Append(stack, f)
      BY <1>3 DEF f
    <2>5. Quiet
      BY <2>2, <2>3, <2>4, QuietPush DEF IInv
    <2> QED BY <1>1, <2>5, QuietImages
  <1> QED BY <1>2, <1>3 DEF BSUnloadImage, MayTouch

\* An image that was asked is unloaded when no call works on it, or stays.
LEMMA AskedStep ==
    ASSUME IInv, ~Reckless, Asked
    PROVE  IInv'
  <1>1. At("ask", "Unload") /\ "ask" \in Op /\ UNCHANGED <<image, CurrentStartImage, EfiAtRuntime>>
    BY DEF Asked, Op, rest
  <1>2. CASE Unloadable(Img) /\ stack' = Become("unload", "unlink")
    <2>1. \A d \in 1..Len(stack) - 1 : stack[d].img # Img
      BY <1>2 DEF Unloadable, Depth
    <2> QED BY <1>1, <1>2, <2>1, ServiceUnloads
  <1>3. CASE Return
    BY <1>1, <1>3, ServiceReturns
  <1> QED BY <1>2, <1>3 DEF Asked

-----------------------------------------------------------------------------
(* What else runs *)

\* A notification function starts on top of the stack.
LEMMA NotifyStep ==
    ASSUME IInv, Notify
    PROVE  IInv'
  <1> DEFINE f == Frame("notify", NULL, "body")
  <1>1. ~EfiAtRuntime /\ UNCHANGED <<image, CurrentStartImage, EfiAtRuntime>> /\ stack' = Append(stack, f)
    BY DEF Notify, rest
  <1>2. f \in FrameSet
    <2>1. "notify" \in Op /\ "body" \in Pc /\ NULL \in Image \cup {NULL}
      BY DEF Op, Pc
    <2> QED BY <2>1, FrameTyped
  <1>3. f.op = "notify" /\ f.img = NULL
    BY DEF Frame
  <1> HIDE DEF f
  <1>4. Quiet
    BY <1>1, <1>2, <1>3, QuietPush DEF IInv
  <1> QED BY <1>1, <1>4, QuietImages

\* Steps that leave the stack and the structures alone.
LEMMA IdleStep ==
    ASSUME IInv, UNCHANGED <<image, stack, CurrentStartImage, EfiAtRuntime>>
    PROVE  IInv'
  <1>1. Started' = Started
    BY DEF Started
  <1>2. Types' /\ Ended' /\ OneUser'
    BY DEF IInv, Types, Ended, OneUser
  <1>3. (~EfiAtRuntime => Chain /\ Contexts)'
    BY <1>1 DEF IInv, Chain, Contexts
  <1> QED BY <1>2, <1>3 DEF IInv

\* ExitBootServices drops the stack and all that refers to it.
LEMMA ExitBootServicesStep ==
    ASSUME IInv, ExitBootServices
    PROVE  IInv'
  <1>1. /\ EfiAtRuntime' = TRUE /\ stack' = <<>> /\ CurrentStartImage' = 0
        /\ image' = RtLoaderExitBootServices
    BY DEF ExitBootServices
  <1>2. image' \in [Image -> ImageSet]
    <2>1. image \in [Image -> ImageSet]
      BY DEF IInv, Types
    <2> DEFINE z == [NoImage EXCEPT !.state = "zeroed"]
               h(i) == image[i].Handle /\ i \notin Range(RuntimeImageList)
    <2>2. z \in ImageSet
      <3>1. NoImage \in ImageSet
        BY DEF NoImage, ImageSet
      <3> QED BY <3>1 DEF ImageSet
    <2>3. ASSUME NEW i \in Image
          PROVE  [image[i] EXCEPT !.Handle = h(i)] \in ImageSet
      <3>1. h(i) \in BOOLEAN
        OBVIOUS
      <3> HIDE DEF h
      <3> QED BY <2>1, <3>1 DEF ImageSet
    <2>4. image' = [i \in Image |-> IF i \in Range(BootImageList) THEN z
                                    ELSE [image[i] EXCEPT !.Handle = h(i)]]
      BY <1>1 DEF RtLoaderExitBootServices
    <2> HIDE DEF z, h
    <2> QED BY <2>2, <2>3, <2>4
  <1>3. Types' /\ Ended' /\ OneUser'
    BY <1>1, <1>2 DEF Types, Ended, OneUser
  <1> QED BY <1>1, <1>3 DEF IInv

-----------------------------------------------------------------------------
(* Theorems *)

\* The firmware starts with nothing running but itself.
LEMMA InitInv ==
    ASSUME Init
    PROVE  IInv
  <1>1. stack = <<>> /\ CurrentStartImage = 0 /\ EfiAtRuntime = FALSE
    BY DEF Init
  <1> DEFINE c == [NoImage EXCEPT !.state = "live", !.Handle = TRUE, !.Started = TRUE]
  <1>2. NoImage \in ImageSet /\ NoImage.StartImageContext = 0
    BY DEF NoImage, ImageSet
  <1>3. c \in ImageSet /\ c.StartImageContext = 0
    BY <1>2 DEF ImageSet
  <1>4. image = [i \in Image |-> IF i = Core THEN c ELSE NoImage]
    BY DEF Init
  <1> HIDE DEF c
  <1>5. image \in [Image -> ImageSet] /\ \A i \in Image : image[i].StartImageContext = 0
    BY <1>2, <1>3, <1>4
  <1>6. Started = {}
    BY <1>1 DEF Started
  <1>7. Types /\ Ended /\ OneUser
    <2>1. Len(stack) = 0 /\ stack \in Seq(FrameSet)
      BY <1>1
    <2>2. CurrentStartImage \in Nat /\ EfiAtRuntime \in BOOLEAN /\ Ended
      BY <1>1 DEF Ended
    <2>3. OneUser /\ \A d \in 1..Len(stack) : stack[d].op # "notify" => stack[d].img \in Image
      BY <2>1 DEF OneUser
    <2> QED BY <1>5, <2>1, <2>2, <2>3 DEF Types
  <1>8. Chain /\ Contexts
    BY <1>1, <1>5, <1>6 DEF Chain, Contexts, IsInnermost
  <1> QED BY <1>7, <1>8 DEF IInv

\* One step of anything, with callers that leave alone what a call works on.
LEMMA NextStep ==
    ASSUME IInv, ~Reckless, [Next]_vars
    PROVE  IInv'
  <1>1. CASE Service
    BY <1>1, ServiceStep
  <1>2. CASE UserReturns
    <2>1. CASE EntryReturns
      BY <2>1, EntryReturnsStep
    <2>2. CASE StartConnected
      BY <2>2, StartConnectedStep
    <2>3. CASE Asked
      BY <2>3, AskedStep
    <2>4. CASE NotifyReturns
      <3>1. At("notify", "body") /\ "notify" \in Op /\ Return
        BY <2>4 DEF NotifyReturns, Op
      <3> QED BY <2>4, <3>1, ServiceReturns DEF NotifyReturns, rest
    <2> QED BY <1>2, <2>1, <2>2, <2>3, <2>4 DEF UserReturns
  <1>3. CASE UserCalls
    <2>1. ASSUME NEW i \in Image, LoadImage(i) PROVE IInv'
      BY <2>1, LoadImageStep
    <2>2. ASSUME NEW i \in Image, FwLoadInternal(i) PROVE IInv'
      BY <2>2, FwLoadInternalStep
    <2>3. ASSUME NEW i \in Image, StartImage(i) PROVE IInv'
      BY <2>3, StartImageStep
    <2>4. ASSUME NEW i \in Image, Exit(i) PROVE IInv'
      BY <2>4, ExitStep
    <2>5. ASSUME NEW i \in Image, BSUnloadImage(i) PROVE IInv'
      BY <2>5, BSUnloadImageStep
    <2>6. ASSUME NEW i \in Image, OpenProtocol(i) PROVE IInv'
      BY <2>6, IdleStep DEF OpenProtocol, rest
    <2>7. ASSUME NEW i \in Runtime, Assign(i) PROVE IInv'
      BY <2>7, IdleStep DEF Assign, boot
    <2>8. CASE ExitBootServices
      BY <2>8, ExitBootServicesStep
    <2> QED BY <1>3, <2>1, <2>2, <2>3, <2>4, <2>5, <2>6, <2>7, <2>8 DEF UserCalls
  <1>4. CASE Notify
    BY <1>4, NotifyStep
  <1>5. CASE OperatingSystem
    <2>1. UNCHANGED boot
      BY <1>5 DEF OperatingSystem, SetVirtualAddressMap, DriversConvert, RtLoaderVirtualAddressFixup
    <2> QED BY <2>1, IdleStep DEF boot
  <1>6. CASE UNCHANGED vars
    BY <1>6, IdleStep DEF vars, boot
  <1> QED BY <1>1, <1>2, <1>3, <1>4, <1>5, <1>6 DEF Next

\* The innermost call is the one Innermost finds.
LEMMA InnermostFacts ==
    ASSUME NEW S \in SUBSET Nat, NEW n \in Nat, IsInnermost(S, n)
    PROVE  n = Innermost(S)
  <1>1. CASE S = {}
    BY <1>1 DEF IsInnermost, Innermost
  <1>2. CASE S # {}
    <2>1. n \in S /\ \A m \in S : n >= m
      BY <1>2 DEF IsInnermost
    <2>2. Max(S) \in S /\ \A m \in S : Max(S) >= m
      BY <2>1 DEF Max
    <2> DEFINE x == Max(S)
    <2> HIDE DEF x
    <2>3. x \in S /\ x >= n /\ n >= x
      BY <2>1, <2>2 DEF x
    <2>4. x = n
      BY <2>3
    <2> QED BY <1>2, <2>4 DEF Innermost, x
  <1> QED BY <1>1, <1>2

\* The inductive invariant: no two calls of the loader work on the same image, and
\* the chain of StartImage and the contexts of the images match the call stack,
\* whatever services images, callbacks and notification functions call, and
\* whatever fails (load.c).
THEOREM ImageInvariant == ASSUME ~Reckless PROVE Spec => []IInv
<1>1. Init => IInv
  BY InitInv
<1>2. IInv /\ [Next]_vars => IInv'
  BY NextStep
<1> QED BY <1>1, <1>2, PTL DEF Spec

\* Images exit in the order opposite to their start, for every set of images and
\* every depth of the stack, with callbacks that call Exit for the image they
\* interrupted and without (load.c:542-560, 817-824).
THEOREM StartsAreNested == ASSUME ~Reckless PROVE Spec => []StartsNest
<1>1. IInv => StartsNest
  <2> SUFFICES ASSUME IInv, ~EfiAtRuntime
               PROVE  /\ CurrentStartImage = Innermost(Started)
                      /\ \A d \in Started : /\ stack[d].LastSi = Innermost({e \in Started : e < d})
                                            /\ image[stack[d].img].StartImageContext = d
                      /\ \A i \in Image : image[i].StartImageContext # 0 =>
                             image[i].StartImageContext \in Started
    BY DEF StartsNest
  <2>1. Started \in SUBSET Nat /\ CurrentStartImage \in Nat
    BY StartedFacts DEF IInv, Types
  <2>2. CurrentStartImage = Innermost(Started)
    BY <2>1, InnermostFacts DEF IInv, Chain
  <2>3. ASSUME NEW d \in Started
        PROVE  stack[d].LastSi = Innermost({e \in Started : e < d})
    <3>1. stack[d].LastSi \in Nat
      <4>1. d \in 1..Len(stack)
        BY StartedFacts DEF IInv
      <4>2. stack[d] \in FrameSet
        BY <4>1 DEF IInv, Types
      <4> QED BY <4>2 DEF FrameSet
    <3>2. {e \in Started : e < d} \in SUBSET Nat
      BY <2>1
    <3>3. IsInnermost({e \in Started : e < d}, stack[d].LastSi)
      BY DEF IInv, Chain
    <3> QED BY <3>1, <3>2, <3>3, InnermostFacts
  <2> QED BY <2>2, <2>3 DEF IInv, Contexts
<1> QED BY <1>1, ImageInvariant, PTL

-----------------------------------------------------------------------------
(* Least and greatest numbers *)

\* A set of numbers that is not empty has a least member.
LEMMA LeastNat ==
    ASSUME NEW S \in SUBSET Nat, S # {}
    PROVE  \E x \in S : \A y \in S : x <= y
  <1>1. PICK x \in S : \A y \in S : ~ (<<y, x>> \in OpToRel(<, Nat))
    BY NatLessThanWellFounded, WFMin
  <1>2. \A y \in S : <<y, x>> \in OpToRel(<, Nat) <=> y < x
    BY DEF OpToRel
  <1>3. \A y \in S : ~(y < x)
    BY <1>1, <1>2, Zenon
  <1>4. \A y \in S : x <= y
    BY <1>3
  <1> QED BY <1>4

\* Min of a set of numbers.
LEMMA MinFacts ==
    ASSUME NEW S \in SUBSET Nat, S # {}
    PROVE  Min(S) \in S /\ \A y \in S : Min(S) <= y
  BY LeastNat DEF Min

\* The greatest of finitely many numbers.
LEMMA MaxFacts ==
    ASSUME NEW S \in SUBSET Nat, S # {}, NEW n \in Nat, \A x \in S : x <= n
    PROVE  Max(S) \in S /\ \A y \in S : y <= Max(S)
  <1> DEFINE T == {m \in Nat : \A x \in S : x <= m}
  <1>1. T # {} /\ T \in SUBSET Nat
    OBVIOUS
  <1>2. PICK m \in T : \A k \in T : m <= k
    <2> HIDE DEF T
    <2> QED BY <1>1, LeastNat
  <1>3. m \in S
    <2>1. SUFFICES ASSUME m \notin S PROVE FALSE
      OBVIOUS
    <2>2. \A x \in S : x <= m - 1
      BY <1>2, <2>1
    <2>3. PICK x \in S : TRUE
      OBVIOUS
    <2>4. m - 1 \in T
      BY <1>2, <2>2, <2>3
    <2> QED BY <1>2, <2>4
  <1>4. \A y \in S : y <= m
    BY <1>2
  <1>5. \E x \in S : \A y \in S : x >= y
    BY <1>3, <1>4
  <1> QED BY <1>5 DEF Max

-----------------------------------------------------------------------------
(* The inductive invariant for the lists and tables *)

InList(list, i) == \E n \in 1..Len(list) : list[n] = i
Once(list) == \A m, n \in 1..Len(list) : list[m] = list[n] => m = n

\* The lists and tables have images in them, and the lists have none twice.
ListTypes ==
    /\ BootImageList \in Seq(Image) /\ RuntimeImageList \in Seq(Image)
    /\ Once(BootImageList) /\ Once(RuntimeImageList)
    /\ installed \subseteq Image /\ agents \subseteq Image /\ Table \subseteq Image

\* Image i is in no table, and on no list.
Untabled(i) == i \notin installed \cup agents \cup Table
Unlisted(i) == ~InList(BootImageList, i) /\ ~InList(RuntimeImageList, i)

\* A call below another one is one that user code runs on top of, or was interrupted.
UserFrame(f) ==
    \/ f.op = "start" /\ f.pc \in {"entry", "connect"}
    \/ f.op = "ask" /\ f.pc = "Unload"
    \/ f.op = "notify"

Suspended == \A d \in 1..Len(stack) : d + 1 \in 1..Len(stack) /\ stack[d + 1].op # "notify" => UserFrame(stack[d])

\* The image a call works on is nobody's parent further down.
OneParent ==
    \A d, e \in 1..Len(stack) :
        d < e /\ stack[e].img # NULL /\ stack[d].parent = stack[e].img => stack[e].op = "ask"

\* What a call has done so far for its image.
Live(i) == image[i].state = "live"

FrameUses(f) ==
    /\ f.op # "load" => f.parent = NULL
    /\ f.op = "notify" => f.img = NULL
    /\ f.parent # NULL => Live(f.parent)
    /\ f.op # "notify" => IF f.op = "load" /\ f.pc = "open" THEN image[f.img].state = "none" ELSE Live(f.img)

FrameDid(f) ==
    /\ f.op = "load" /\ f.pc = "pe" => ~image[f.img].linked
    /\ f.op = "load" /\ f.pc = "debug" => image[f.img].Handle
    /\ f.op = "start" => image[f.img].Handle

FrameUndid(f) == f.op = "unload" =>
    /\ f.pc # "unlink" => Unlisted(f.img)
    /\ f.pc \in {"debug", "uninstall", "free"} => f.img \notin agents
    /\ f.pc \in {"uninstall", "free"} => f.img \notin Table
    /\ f.pc = "free" => f.img \notin installed

FrameOK(f) == FrameUses(f) /\ FrameDid(f) /\ FrameUndid(f)

Gone(i) == \E d \in 1..Len(stack) : stack[d].op = "unload" /\ stack[d].pc # "unlink" /\ stack[d].img = i

\* A structure that is not in use says so, and what has no handle is in no table.
Fields(i) ==
    /\ image[i].state # "zeroed"
    /\ ~Live(i) => ~image[i].Handle /\ ~image[i].linked
    /\ ~image[i].Handle => Untabled(i)

Settled(i) ==
    /\ InList(BootImageList, i) <=> image[i].linked /\ Kind[i] = "boot"
    /\ InList(RuntimeImageList, i) <=> image[i].linked /\ Kind[i] = "rt"
    /\ image[i].Handle => i \in installed

ImageOK(i) == Fields(i) /\ (Gone(i) \/ Settled(i))

RegInv ==
    /\ ListTypes
    /\ ~EfiAtRuntime => /\ Suspended /\ OneParent
                        /\ \A d \in 1..Len(stack) : FrameOK(stack[d])
                        /\ \A i \in Image : ImageOK(i)
    /\ EfiAtRuntime => \A i \in Image : image[i].state = "freed" => Untabled(i) /\ Unlisted(i)

-----------------------------------------------------------------------------
(* The lists of images *)

\* InsertTailList of an image that is not on the list.
LEMMA AppendOnce ==
    ASSUME NEW S, NEW q \in Seq(S), NEW e \in S, Once(q), ~InList(q, e)
    PROVE  /\ Append(q, e) \in Seq(S) /\ Once(Append(q, e))
           /\ \A x : InList(Append(q, e), x) <=> InList(q, x) \/ x = e
  <1> DEFINE r == Append(q, e)
  <1>1. /\ r \in Seq(S) /\ Len(r) = Len(q) + 1 /\ Len(q) \in Nat
        /\ \A d \in 1..Len(q) : r[d] = q[d]
        /\ r[Len(q) + 1] = e
    OBVIOUS
  <1> HIDE DEF r
  <1>2. \A d \in 1..Len(r) : d \in 1..Len(q) \/ d = Len(q) + 1
    BY <1>1
  <1>3. Once(r)
    BY <1>1, <1>2 DEF Once, InList
  <1>4. ASSUME NEW x PROVE InList(r, x) <=> InList(q, x) \/ x = e
    <2>1. Len(q) + 1 \in 1..Len(r) /\ \A d \in 1..Len(q) : d \in 1..Len(r)
      BY <1>1
    <2> QED BY <1>1, <1>2, <2>1 DEF InList
  <1> QED BY <1>1, <1>3, <1>4 DEF r

\* What RemoveFirst leaves out.
LEMMA RemoveForm ==
    ASSUME NEW S, NEW q \in Seq(S), NEW e
    PROVE  /\ ~InList(q, e) => RemoveFirst(q, e) = q
           /\ InList(q, e) => \E k \in 1..Len(q) :
                 q[k] = e /\ RemoveFirst(q, e) = SubSeq(q, 1, k - 1) \o SubSeq(q, k + 1, Len(q))
  <1>1. ASSUME InList(q, e)
        PROVE  \E k \in 1..Len(q) :
                 q[k] = e /\ RemoveFirst(q, e) = SubSeq(q, 1, k - 1) \o SubSeq(q, k + 1, Len(q))
    <2> DEFINE I == {i \in 1..Len(q) : q[i] = e}
    <2>1. I # {} /\ I \in SUBSET Nat
      BY <1>1 DEF InList
    <2>2. Min(I) \in I
      BY <2>1, MinFacts
    <2>3. RemoveFirst(q, e) = RemoveAt(q, Min(I))
      BY <1>1, <2>1 DEF RemoveFirst, SelectInSeq, InList
    <2> QED BY <2>2, <2>3 DEF RemoveAt
  <1> QED BY <1>1 DEF InList, RemoveFirst

\* RemoveEntryList of an image takes it off the list and no other.
LEMMA RemoveOnce ==
    ASSUME NEW S, NEW q \in Seq(S), NEW e, Once(q)
    PROVE  /\ RemoveFirst(q, e) \in Seq(S) /\ Once(RemoveFirst(q, e))
           /\ \A x : InList(RemoveFirst(q, e), x) <=> InList(q, x) /\ x # e
  <1>1. CASE ~InList(q, e)
    <2>1. RemoveFirst(q, e) = q
      BY <1>1, RemoveForm
    <2> QED BY <1>1, <2>1 DEF InList
  <1>2. CASE InList(q, e)
    <2>1. PICK k \in 1..Len(q) :
            q[k] = e /\ RemoveFirst(q, e) = SubSeq(q, 1, k - 1) \o SubSeq(q, k + 1, Len(q))
      BY <1>2, RemoveForm
    <2> DEFINE a == SubSeq(q, 1, k - 1)
               b == SubSeq(q, k + 1, Len(q))
               r == a \o b
    <2>2. /\ a \in Seq(S) /\ Len(a) = k - 1
          /\ \A d \in 1..k - 1 : a[d] = q[d]
      <3>1. k - 1 \in 0..Len(q)
        OBVIOUS
      <3> QED BY <3>1, CutFacts
    <2>3. /\ b \in Seq(S) /\ Len(b) = Len(q) - k
          /\ \A d \in 1..Len(q) - k : b[d] = q[k + d]
      <3>1. k + 1 \in Int /\ Len(q) \in Int /\ \A d \in k + 1..Len(q) : q[d] \in S
        OBVIOUS
      <3>2. /\ b \in Seq(S)
            /\ Len(b) = IF k + 1 <= Len(q) THEN Len(q) - (k + 1) + 1 ELSE 0
            /\ \A d \in 1..(Len(q) - (k + 1) + 1) : b[d] = q[k + 1 + d - 1]
        BY <3>1, SubSeqProperties
      <3> HIDE DEF b
      <3>3. Len(b) = Len(q) - k
        BY <3>1, <3>2
      <3>4. ASSUME NEW d \in 1..Len(q) - k PROVE b[d] = q[k + d]
        <4>1. d \in 1..(Len(q) - (k + 1) + 1) /\ k + 1 + d - 1 = k + d
          OBVIOUS
        <4> QED BY <3>2, <4>1
      <3> QED BY <3>2, <3>3, <3>4
    <2> HIDE DEF a, b
    <2>4. /\ r \in Seq(S) /\ Len(r) = Len(q) - 1
          /\ \A d \in 1..Len(r) : r[d] = IF d < k THEN q[d] ELSE q[d + 1]
      <3>1. r \in Seq(S) /\ Len(r) = Len(q) - 1
        <4>1. r \in Seq(S) /\ Len(r) = Len(a) + Len(b)
          BY <2>2, <2>3, ConcatProperties
        <4> QED BY <2>2, <2>3, <4>1
      <3>2. ASSUME NEW d \in 1..Len(r) PROVE r[d] = IF d < k THEN q[d] ELSE q[d + 1]
        <4>1. CASE d < k
          BY <2>2, <2>3, <3>1, <4>1
        <4>2. CASE ~(d < k)
          <5>1. r[d] = b[d - (k - 1)] /\ d - (k - 1) \in 1..Len(q) - k
            BY <2>2, <2>3, <3>1, <4>2
          <5>2. b[d - (k - 1)] = q[k + (d - (k - 1))] /\ k + (d - (k - 1)) = d + 1
            BY <2>3, <5>1
          <5> QED BY <4>2, <5>1, <5>2
        <4> QED BY <4>1, <4>2
      <3> QED BY <3>1, <3>2
    <2>5. RemoveFirst(q, e) = r
      BY <2>1 DEF a, b
    <2> HIDE DEF r
    <2>6. ASSUME NEW d \in 1..Len(r)
          PROVE  \E m \in 1..Len(q) : m # k /\ r[d] = q[m] /\ m = IF d < k THEN d ELSE d + 1
      <3>1. CASE d < k
        <4>1. d \in 1..Len(q) /\ d # k /\ r[d] = q[d]
          BY <2>4, <3>1
        <4> QED BY <3>1, <4>1
      <3>2. CASE ~(d < k)
        <4>1. d + 1 \in 1..Len(q) /\ d + 1 # k /\ r[d] = q[d + 1]
          BY <2>4, <3>2
        <4> QED BY <3>2, <4>1
      <3> QED BY <3>1, <3>2
    <2>7. Once(r)
      BY <2>4, <2>6 DEF Once
    <2>8. ASSUME NEW x, InList(r, x) PROVE InList(q, x) /\ x # e
      <3>1. PICK d \in 1..Len(r) : r[d] = x
        BY <2>8 DEF InList
      <3>2. PICK m \in 1..Len(q) : m # k /\ r[d] = q[m]
        BY <2>6
      <3> QED BY <2>1, <3>1, <3>2 DEF InList, Once
    <2>9. ASSUME NEW x, InList(q, x), x # e PROVE InList(r, x)
      <3>1. PICK m \in 1..Len(q) : q[m] = x
        BY <2>9 DEF InList
      <3>2. m # k
        BY <2>1, <2>9, <3>1
      <3>3. CASE m < k
        <4>1. m \in 1..Len(r) /\ r[m] = x
          BY <2>4, <3>1, <3>3
        <4> QED BY <4>1 DEF InList
      <3>4. CASE m > k
        <4>1. m - 1 \in 1..Len(r) /\ r[m - 1] = x
          BY <2>4, <3>1, <3>4
        <4> QED BY <4>1 DEF InList
      <3> QED BY <2>1, <3>1, <3>2, <3>3, <3>4
    <2> QED BY <2>4, <2>5, <2>7, <2>8, <2>9
  <1> QED BY <1>1, <1>2

-----------------------------------------------------------------------------
(* The shapes of a step *)

\* The calls up to n stay, and one more follows them or none.
Kept(n) ==
    /\ \A d \in 1..n : stack'[d] = stack[d]
    /\ Len(stack') \in {n, n + 1}

\* A step that works on image i leaves the others alone.
Elsewhere(i) ==
    \A j \in Image : j # i =>
        /\ image'[j] = image[j]
        /\ (j \in installed' <=> j \in installed) /\ (j \in agents' <=> j \in agents)
        /\ (j \in Table' <=> j \in Table)
        /\ (InList(BootImageList', j) <=> InList(BootImageList, j))
        /\ (InList(RuntimeImageList', j) <=> InList(RuntimeImageList, j))

\* What the new top of the stack needs.
NewTop(n) == Len(stack') = n + 1 =>
    /\ \A g \in FrameSet : g = stack'[n + 1] => FrameOK(g)'
    /\ \/ stack'[n + 1].op = "ask" \/ stack'[n + 1].img = NULL
       \/ \A d \in 1..n : stack[d].parent # stack'[n + 1].img
    /\ stack'[n + 1].op = "notify" \/ n = 0 \/ UserFrame(stack[n])

\* The invariant after a step is a matter of the new top, of the calls that stay
\* and of the images.
LEMMA StepCore ==
    ASSUME IInv, IInv', RegInv, ListTypes', ~EfiAtRuntime, EfiAtRuntime' = EfiAtRuntime,
           NEW n \in 0..Len(stack), Kept(n), NewTop(n),
           \A g \in FrameSet : \A d \in 1..n : g = stack[d] /\ FrameOK(g) => FrameOK(g)',
           \A i \in Image : ImageOK(i)'
    PROVE  RegInv'
  <1>1. /\ stack \in Seq(FrameSet) /\ stack' \in Seq(FrameSet)
        /\ Len(stack) \in Nat /\ n \in Nat
    BY DEF IInv, Types
  <1>2. \A d \in 1..Len(stack') : d \in 1..n \/ (d = n + 1 /\ Len(stack') = n + 1)
    BY <1>1 DEF Kept
  <1>3. \A d \in 1..n : d \in 1..Len(stack) /\ stack'[d] = stack[d] /\ stack[d] \in FrameSet
    BY <1>1 DEF Kept
  <1>4. Suspended'
    <2> SUFFICES ASSUME NEW d \in 1..Len(stack'), d + 1 \in 1..Len(stack'), stack'[d + 1].op # "notify"
                 PROVE  UserFrame(stack'[d])
      BY DEF Suspended, UserFrame
    <2>1. d \in 1..n /\ stack'[d] = stack[d]
      BY <1>1, <1>2, <1>3
    <2>2. CASE d + 1 \in 1..n
      BY <1>3, <2>1, <2>2 DEF RegInv, Suspended
    <2>3. CASE d + 1 = n + 1 /\ Len(stack') = n + 1
      BY <1>1, <2>1, <2>3 DEF NewTop
    <2> QED BY <1>2, <2>2, <2>3
  <1>5. OneParent'
    <2> SUFFICES ASSUME NEW d \in 1..Len(stack'), NEW e \in 1..Len(stack'),
                        d < e, stack'[e].img # NULL, stack'[d].parent = stack'[e].img
                 PROVE  stack'[e].op = "ask"
      BY DEF OneParent
    <2>1. d \in 1..n /\ stack'[d] = stack[d]
      BY <1>1, <1>2, <1>3
    <2>2. CASE e \in 1..n
      BY <1>3, <2>1, <2>2 DEF RegInv, OneParent
    <2>3. CASE e = n + 1 /\ Len(stack') = n + 1
      BY <2>1, <2>3 DEF NewTop
    <2> QED BY <1>2, <2>2, <2>3
  <1>6. \A g \in FrameSet : \A d \in 1..Len(stack') : g = stack'[d] => FrameOK(g)'
    <2> SUFFICES ASSUME NEW g \in FrameSet, NEW d \in 1..Len(stack'), g = stack'[d] PROVE FrameOK(g)'
      OBVIOUS
    <2>1. CASE d \in 1..n
      <3>1. FrameOK(g)
        BY <1>3, <2>1 DEF RegInv
      <3> QED BY <1>3, <2>1, <3>1
    <2>2. CASE d = n + 1 /\ Len(stack') = n + 1
      BY <2>2 DEF NewTop
    <2> QED BY <1>2, <2>1, <2>2
  <1>7. \A d \in 1..Len(stack') : stack'[d] \in FrameSet
    BY <1>1
  <1>8. (\A d \in 1..Len(stack) : FrameOK(stack[d]))'
    BY <1>6, <1>7 DEF FrameOK, FrameUses, FrameDid, FrameUndid, Live, Unlisted
  <1> QED BY <1>4, <1>5, <1>8 DEF RegInv

\* The calls that stay have nothing to do with the image a step works on.
LEMMA KeptFrames ==
    ASSUME IInv, NEW i, Elsewhere(i), NEW n \in 0..Len(stack),
           \A d \in 1..n : stack[d].img # i /\ stack[d].parent # i
    PROVE  \A g \in FrameSet : \A d \in 1..n : g = stack[d] /\ FrameOK(g) => FrameOK(g)'
  <1> SUFFICES ASSUME NEW g \in FrameSet, NEW d \in 1..n, g = stack[d], FrameOK(g)
               PROVE  FrameOK(g)'
    OBVIOUS
  <1>1. d \in 1..Len(stack)
    BY DEF IInv, Types
  <1>2. /\ g.img # i /\ g.parent # i
        /\ g.op # "notify" => g.img \in Image
        /\ g.parent # NULL => g.parent \in Image
    BY <1>1 DEF IInv, Types, FrameSet
  <1>3. FrameUses(g)'
    BY <1>2 DEF FrameOK, FrameUses, Elsewhere, Live
  <1>4. FrameDid(g)'
    BY <1>2 DEF FrameOK, FrameDid, Elsewhere
  <1>5. FrameUndid(g)'
    BY <1>2 DEF FrameOK, FrameUndid, Elsewhere, Unlisted
  <1> QED BY <1>3, <1>4, <1>5 DEF FrameOK

\* The other images are as they were when no call that unloads one of them ends.
LEMMA OtherImages ==
    ASSUME IInv, IInv', RegInv, ~EfiAtRuntime, NEW i, Elsewhere(i), NEW n \in 0..Len(stack), Kept(n),
           \A d \in n + 1..Len(stack) : stack[d].op # "unload" \/ stack[d].img = i
    PROVE  \A j \in Image : j # i => ImageOK(j)'
  <1> SUFFICES ASSUME NEW j \in Image, j # i PROVE ImageOK(j)'
    OBVIOUS
  <1>1. ImageOK(j)
    BY DEF RegInv
  <1>2. Fields(j)'
    BY <1>1 DEF ImageOK, Fields, Elsewhere, Untabled, Live
  <1>3. Settled(j) => Settled(j)'
    BY DEF Settled, Elsewhere
  <1>4. Gone(j) => Gone(j)'
    <2> SUFFICES ASSUME NEW d \in 1..Len(stack), stack[d].op = "unload", stack[d].pc # "unlink", stack[d].img = j
                 PROVE  Gone(j)'
      BY DEF Gone
    <2>1. d \in 1..n
      <3>1. Len(stack) \in Nat /\ n \in Nat
        BY DEF IInv, Types
      <3> QED BY <3>1
    <2>2. d \in 1..Len(stack') /\ stack'[d] = stack[d]
      BY <2>1 DEF Kept, IInv, Types
    <2> QED BY <2>2 DEF Gone
  <1> QED BY <1>1, <1>2, <1>3, <1>4 DEF ImageOK

\* A step that works on image i.
LEMMA WorkStep ==
    ASSUME IInv, IInv', RegInv, ListTypes', ~EfiAtRuntime, EfiAtRuntime' = EfiAtRuntime,
           NEW i \in Image, Elsewhere(i), ImageOK(i)',
           NEW n \in 0..Len(stack), Kept(n), NewTop(n),
           \A d \in 1..n : stack[d].img # i /\ stack[d].parent # i,
           \A d \in n + 1..Len(stack) : stack[d].op # "unload" \/ stack[d].img = i
    PROVE  RegInv'
  <1>1. \A g \in FrameSet : \A d \in 1..n : g = stack[d] /\ FrameOK(g) => FrameOK(g)'
    BY KeptFrames
  <1>2. \A j \in Image : j # i => ImageOK(j)'
    BY OtherImages
  <1>3. \A j \in Image : ImageOK(j)'
    BY <1>2
  <1> QED BY <1>1, <1>3, StepCore

\* A step that only changes the stack, and ends no call that unloads an image.
LEMMA StackStep ==
    ASSUME IInv, IInv', RegInv, ~EfiAtRuntime,
           UNCHANGED <<image, known, BootImageList, RuntimeImageList, EfiAtRuntime>>,
           NEW n \in 0..Len(stack), Kept(n), NewTop(n),
           \A d \in n + 1..Len(stack) : stack[d].op # "unload"
    PROVE  RegInv'
  <1>1. ListTypes'
    BY DEF RegInv, ListTypes, known
  <1>2. Elsewhere(NULL) /\ \A j \in Image : j # NULL
    BY ImagesAssumption DEF Elsewhere, known
  <1>3. \A j \in Image : ImageOK(j)'
    BY <1>2, OtherImages
  <1>4. \A g \in FrameSet : FrameOK(g) => FrameOK(g)'
    BY DEF FrameOK, FrameUses, FrameDid, FrameUndid, Live, Unlisted, known
  <1> QED BY <1>1, <1>3, <1>4, StepCore

-----------------------------------------------------------------------------
(* Steps of the running call *)

\* What is known of the image that the running call works on.
LEMMA TopFacts ==
    ASSUME IInv, RegInv, NEW op \in Op \ {"notify"}, NEW pc, At(op, pc), NEW i, i = Img
    PROVE  /\ i \in Image /\ ImageOK(i) /\ Top.img = i
           /\ op # "load" => Top.parent = NULL
           /\ Top.parent # NULL => Top.parent \in Image /\ Live(Top.parent)
           /\ IF op = "load" /\ pc = "open" THEN image[i].state = "none" ELSE Live(i)
           /\ op = "load" /\ pc = "pe" => ~image[i].linked
           /\ op = "load" /\ pc = "debug" => image[i].Handle
           /\ op = "start" => image[i].Handle
           /\ op = "unload" => /\ pc # "unlink" => Unlisted(i)
                               /\ pc \in {"debug", "uninstall", "free"} => i \notin agents
                               /\ pc \in {"uninstall", "free"} => i \notin Table
                               /\ pc = "free" => i \notin installed
           /\ op # "ask" => \A d \in 1..Len(stack) - 1 : stack[d].img # i /\ stack[d].parent # i
           /\ op # "ask" /\ (op # "unload" \/ pc = "unlink") => Settled(i)
  <1>1. /\ ~EfiAtRuntime /\ Len(stack) \in Nat \ {0} /\ Top \in FrameSet
        /\ Top.op = op /\ Top.pc = pc /\ Top.img = i /\ i \in Image
        /\ op # "ask" => \A d \in 1..Len(stack) - 1 : stack[d].img # i
    BY AtFacts
  <1>2. Len(stack) \in 1..Len(stack)
    BY <1>1
  <1>3. FrameOK(Top) /\ ImageOK(i)
    BY <1>1, <1>2 DEF RegInv, Top
  <1>4. Top.parent # NULL => Top.parent \in Image
    BY <1>1 DEF FrameSet
  <1>5. op # "ask" => \A d \in 1..Len(stack) - 1 : stack[d].parent # i
    BY <1>1, <1>2, ImagesAssumption DEF RegInv, OneParent, Top
  <1>6. op # "ask" /\ (op # "unload" \/ pc = "unlink") => Settled(i)
    <2> SUFFICES ASSUME op # "ask", op # "unload" \/ pc = "unlink" PROVE ~Gone(i)
      BY <1>3 DEF ImageOK
    <2>1. \A d \in 1..Len(stack) : d \in 1..Len(stack) - 1 \/ d = Len(stack)
      BY <1>1
    <2> QED BY <1>1, <2>1 DEF Gone, Top
  <1> QED BY <1>1, <1>3, <1>4, <1>5, <1>6 DEF FrameOK, FrameUses, FrameDid, FrameUndid

\* The running call was called by user code.
LEMMA BelowTop ==
    ASSUME RegInv, ~EfiAtRuntime, Len(stack) \in Nat \ {0}, Top.op # "notify"
    PROVE  Len(stack) - 1 = 0 \/ UserFrame(stack[Len(stack) - 1])
  <1> SUFFICES ASSUME Len(stack) - 1 # 0 PROVE UserFrame(stack[Len(stack) - 1])
    OBVIOUS
  <1>0. \A n \in Nat \ {0} : n - 1 # 0 => n - 1 \in 1..n /\ (n - 1) + 1 = n /\ n \in 1..n
    OBVIOUS
  <1>1. /\ Len(stack) - 1 \in 1..Len(stack) /\ (Len(stack) - 1) + 1 = Len(stack)
        /\ Len(stack) \in 1..Len(stack)
    BY <1>0
  <1>2. (Len(stack) - 1) + 1 \in 1..Len(stack) /\ stack[(Len(stack) - 1) + 1].op # "notify"
    BY <1>1 DEF Top
  <1> QED BY <1>1, <1>2 DEF RegInv, Suspended

\* The call goes on.
LEMMA GotoWork ==
    ASSUME IInv, IInv', RegInv, ListTypes', NEW op \in Op \ {"notify", "ask"}, NEW pc, At(op, pc),
           NEW to \in Pc, stack' = Goto(to), EfiAtRuntime' = EfiAtRuntime,
           NEW i, i = Img, Elsewhere(i), ImageOK(i)',
           \A g \in FrameSet :
              /\ g.op = op /\ g.pc = to /\ g.img = i
              /\ op # "load" => g.parent = NULL
              /\ g.parent # NULL => g.parent \in Image /\ Live(g.parent)
              => FrameOK(g)'
    PROVE  RegInv'
  <1> DEFINE n == Len(stack) - 1
  <1>1. /\ ~EfiAtRuntime /\ Len(stack) \in Nat \ {0} /\ Top \in FrameSet /\ stack # <<>>
        /\ Top.op = op /\ Top.pc = pc
    BY AtFacts
  <1>2. /\ stack' \in Seq(FrameSet) /\ Len(stack') = n + 1 /\ n \in 0..Len(stack)
        /\ \A d \in 1..n : stack'[d] = stack[d]
        /\ stack'[n + 1] = [Top EXCEPT !.pc = to]
    BY <1>1, GotoStep DEF IInv
  <1>3. /\ i \in Image /\ Top.img = i
        /\ op # "load" => Top.parent = NULL
        /\ Top.parent # NULL => Top.parent \in Image /\ Live(Top.parent)
        /\ \A d \in 1..n : stack[d].img # i /\ stack[d].parent # i
    BY TopFacts
  <1>4. Kept(n)
    BY <1>2 DEF Kept
  <1>5. /\ stack'[n + 1].op = op /\ stack'[n + 1].img = i
        /\ stack'[n + 1].pc = to /\ stack'[n + 1].parent = Top.parent
    BY <1>1, <1>2, <1>3 DEF FrameSet
  <1>6. \A g \in FrameSet : g = stack'[n + 1] => FrameOK(g)'
    BY <1>3, <1>5
  <1>7. n = 0 \/ UserFrame(stack[n])
    BY <1>1, BelowTop
  <1>8. NewTop(n)
    BY <1>3, <1>5, <1>6, <1>7 DEF NewTop
  <1>9. \A d \in n + 1..Len(stack) : stack[d].op # "unload" \/ stack[d].img = i
    BY <1>1, <1>3 DEF Top
  <1> HIDE DEF n
  <1> QED BY <1>1, <1>2, <1>3, <1>4, <1>8, <1>9, WorkStep

\* The call returns.
LEMMA ReturnWork ==
    ASSUME IInv, IInv', RegInv, ListTypes', NEW op \in Op \ {"notify", "ask"}, NEW pc, At(op, pc),
           Return, EfiAtRuntime' = EfiAtRuntime, NEW i, i = Img, Elsewhere(i), ImageOK(i)'
    PROVE  RegInv'
  <1> DEFINE n == Len(stack) - 1
  <1>1. /\ ~EfiAtRuntime /\ Len(stack) \in Nat \ {0} /\ n \in 0..Len(stack)
    BY AtFacts
  <1>2. Len(stack') = n /\ \A d \in 1..n : stack'[d] = stack[d]
    BY <1>1, CutFacts DEF Return, Front, IInv, Types
  <1>3. i \in Image /\ Top.img = i /\ \A d \in 1..n : stack[d].img # i /\ stack[d].parent # i
    BY TopFacts
  <1>4. Kept(n) /\ NewTop(n)
    BY <1>1, <1>2 DEF Kept, NewTop
  <1>5. \A d \in n + 1..Len(stack) : stack[d].op # "unload" \/ stack[d].img = i
    BY <1>1, <1>3 DEF Top
  <1> HIDE DEF n
  <1> QED BY <1>1, <1>3, <1>4, <1>5, WorkStep

\* The call returns and nothing else changes.
LEMMA ReturnStack ==
    ASSUME IInv, IInv', RegInv, NEW op \in Op \ {"unload"}, NEW pc, At(op, pc), Return,
           UNCHANGED <<image, known, BootImageList, RuntimeImageList, EfiAtRuntime>>
    PROVE  RegInv'
  <1> DEFINE n == Len(stack) - 1
  <1>1. ~EfiAtRuntime /\ Len(stack) \in Nat \ {0} /\ n \in 0..Len(stack) /\ Top.op = op
    BY AtFacts
  <1>2. Len(stack') = n /\ \A d \in 1..n : stack'[d] = stack[d]
    BY <1>1, CutFacts DEF Return, Front, IInv, Types
  <1>3. Kept(n) /\ NewTop(n)
    BY <1>1, <1>2 DEF Kept, NewTop
  <1>4. \A d \in n + 1..Len(stack) : stack[d].op # "unload"
    BY <1>1 DEF Top
  <1> HIDE DEF n
  <1> QED BY <1>1, <1>3, <1>4, StackStep

\* The call turns into the unloading of its image.
LEMMA BecomeStack ==
    ASSUME IInv, IInv', RegInv, NEW op \in Op \ {"notify", "unload"}, NEW pc, At(op, pc),
           op = "load" => pc # "open",
           op = "ask" => \A d \in 1..Len(stack) - 1 : stack[d].parent # Img,
           stack' = Become("unload", "unlink"),
           UNCHANGED <<image, known, BootImageList, RuntimeImageList, EfiAtRuntime>>
    PROVE  RegInv'
  <1> DEFINE n == Len(stack) - 1
             s == SubSeq(stack, 1, n)
             f == Frame("unload", Top.img, "unlink")
  <1>1. /\ ~EfiAtRuntime /\ Len(stack) \in Nat \ {0} /\ n \in 0..Len(stack)
        /\ Top.op = op /\ Img = Top.img /\ Top.img \in Image
    BY AtFacts
  <1>2. s \in Seq(FrameSet) /\ Len(s) = n /\ \A d \in 1..n : s[d] = stack[d]
    BY <1>1, CutFacts DEF IInv, Types
  <1>3. /\ f \in FrameSet /\ f.op = "unload" /\ f.img = Top.img /\ f.pc = "unlink" /\ f.parent = NULL
    <2>1. f \in FrameSet
      <3>1. Top.img \in Image \cup {NULL} /\ "unload" \in Op /\ "unlink" \in Pc
        BY <1>1 DEF Op, Pc
      <3> QED BY <3>1, FrameTyped
    <2>2. f.op = "unload" /\ f.img = Top.img /\ f.pc = "unlink" /\ f.parent = NULL
      BY DEF Frame
    <2> QED BY <2>1, <2>2
  <1>4. stack' = Append(s, f)
    BY <1>1 DEF Become, Front
  <1> HIDE DEF s, f
  <1>5. /\ Len(stack') = n + 1 /\ stack'[n + 1] = f
        /\ \A d \in 1..n : stack'[d] = stack[d]
    BY <1>1, <1>2, <1>3, <1>4, PushFacts
  <1>6. /\ Live(Top.img)
        /\ \A d \in 1..n : stack[d].parent # Top.img
    BY <1>1, TopFacts
  <1>7. \A g \in FrameSet : g = stack'[n + 1] => FrameOK(g)'
    BY <1>3, <1>5, <1>6 DEF FrameOK, FrameUses, FrameDid, FrameUndid, Live
  <1>8. n = 0 \/ UserFrame(stack[n])
    BY <1>1, BelowTop
  <1>9. Kept(n) /\ NewTop(n)
    BY <1>3, <1>5, <1>6, <1>7, <1>8 DEF Kept, NewTop
  <1>10. \A d \in n + 1..Len(stack) : stack[d].op # "unload"
    BY <1>1 DEF Top
  <1> HIDE DEF n
  <1> QED BY <1>1, <1>9, <1>10, StackStep

\* User code, or a call it interrupts, calls a service.
LEMMA PushStack ==
    ASSUME IInv, IInv', RegInv, ~EfiAtRuntime, NEW f \in FrameSet, stack' = Append(stack, f),
           User \/ f.op = "notify",
           \A g \in FrameSet : g = f => FrameOK(g)',
           f.op = "ask" \/ f.img = NULL \/ \A d \in 1..Len(stack) : stack[d].parent # f.img,
           UNCHANGED <<image, known, BootImageList, RuntimeImageList, EfiAtRuntime>>
    PROVE  RegInv'
  <1> DEFINE n == Len(stack)
  <1>1. n \in 0..Len(stack) /\ n \in Nat
    BY DEF IInv, Types
  <1>2. /\ Len(stack') = n + 1 /\ stack'[n + 1] = f
        /\ \A d \in 1..n : stack'[d] = stack[d]
    BY PushFacts DEF IInv, Types
  <1>3. User => n = 0 \/ UserFrame(stack[n])
    BY <1>1 DEF User, Depth, At, Last, UserFrame
  <1>4. Kept(n) /\ NewTop(n)
    BY <1>2, <1>3 DEF Kept, NewTop
  <1>5. \A d \in n + 1..Len(stack) : stack[d].op # "unload"
    BY <1>1
  <1> HIDE DEF n
  <1> QED BY <1>1, <1>4, <1>5, StackStep

-----------------------------------------------------------------------------
(* LoadImage *)

\* Neither list nor table changes.
LEMMA SameElsewhere ==
    ASSUME IInv, NEW i, \A j \in Image : j # i => image'[j] = image[j],
           UNCHANGED <<known, BootImageList, RuntimeImageList>>
    PROVE  Elsewhere(i)
  BY DEF Elsewhere, known

\* The call is pushed, the parent is an image with a handle.
LEMMA RegLoadImage ==
    ASSUME IInv, IInv', RegInv, NEW i \in Image, LoadImage(i)
    PROVE  RegInv'
  <1> DEFINE g == Frame("load", i, "open")
             f == [g EXCEPT !.parent = Parent]
  <1>1. /\ ~EfiAtRuntime /\ ~Busy(i) /\ User /\ Parent \in installed /\ image[i].state = "none"
        /\ stack' = Append(stack, f)
        /\ UNCHANGED <<image, known, BootImageList, RuntimeImageList, EfiAtRuntime>>
    BY DEF LoadImage, Caller, User, LoadedImageInfo, rest, lists
  <1>2. Parent \in Image /\ Live(Parent)
    <2>1. Parent \in Image
      BY <1>1 DEF RegInv, ListTypes
    <2> QED BY <1>1, <2>1 DEF RegInv, ImageOK, Fields, Untabled
  <1>3. g \in FrameSet /\ g.op = "load" /\ g.img = i /\ g.pc = "open"
    <2>1. "load" \in Op /\ "open" \in Pc /\ i \in Image \cup {NULL}
      BY DEF Op, Pc
    <2>2. g \in FrameSet
      BY <2>1, FrameTyped
    <2>3. g.op = "load" /\ g.img = i /\ g.pc = "open"
      BY DEF Frame
    <2> QED BY <2>2, <2>3
  <1> HIDE DEF g
  <1>4. f \in FrameSet /\ f.op = "load" /\ f.img = i /\ f.pc = "open" /\ f.parent = Parent
    BY <1>2, <1>3 DEF FrameSet
  <1> HIDE DEF f
  <1>5. \A h \in FrameSet : h = f => FrameOK(h)'
    BY <1>1, <1>2, <1>4 DEF FrameOK, FrameUses, FrameDid, FrameUndid, Live
  <1>6. \A d \in 1..Len(stack) : stack[d].parent # i
    BY <1>1 DEF Busy, IInv, Types
  <1> QED BY <1>1, <1>4, <1>5, <1>6, PushStack

\* The structure is filled.
LEMMA RegLoadOpen ==
    ASSUME IInv, IInv', RegInv, LoadOpen
    PROVE  RegInv'
  <1>1. /\ At("load", "open") /\ "load" \in Op /\ "pe" \in Pc
        /\ UNCHANGED <<known, BootImageList, RuntimeImageList, EfiAtRuntime>>
    BY DEF LoadOpen, Op, Pc, rest, lists
  <1>2. CASE stack' = Goto("pe") /\ image' = [image EXCEPT ![Img].state = "live"]
    <2>1. PICK i \in Image : i = Img
      BY <1>1, AtFacts
    <2>2. ImageOK(i) /\ image[i].state = "none" /\ Settled(i) /\ ~EfiAtRuntime
      BY <1>1, <2>1, TopFacts, AtFacts
    <2>3. /\ image'[i].state = "live" /\ image'[i].Handle = image[i].Handle
          /\ image'[i].linked = image[i].linked
          /\ \A j \in Image : j # i => image'[j] = image[j]
      BY <1>2, <2>1 DEF IInv, Types, ImageSet
    <2>4. ListTypes' /\ Elsewhere(i)
      BY <1>1, <2>3, SameElsewhere DEF RegInv, ListTypes, known
    <2>5. ~image[i].Handle /\ ~image[i].linked
      BY <2>2 DEF ImageOK, Fields, Live
    <2>6. ImageOK(i)'
      BY <1>1, <2>2, <2>3 DEF ImageOK, Fields, Settled, Live, Untabled, known
    <2>7. ASSUME NEW g \in FrameSet, g.op = "load", g.pc = "pe", g.img = i,
                 g.parent # NULL => g.parent \in Image /\ Live(g.parent)
          PROVE  FrameOK(g)'
      BY <2>3, <2>5, <2>7 DEF FrameOK, FrameUses, FrameDid, FrameUndid, Live
    <2> QED BY <1>1, <1>2, <2>1, <2>4, <2>6, <2>7, GotoWork
  <1>3. CASE Return /\ UNCHANGED image
    BY <1>1, <1>3, ReturnStack
  <1> QED BY <1>2, <1>3 DEF LoadOpen

\* The image is put on its list.
LEMMA RegLoadPe ==
    ASSUME IInv, IInv', RegInv, LoadPe
    PROVE  RegInv'
  <1>1. /\ At("load", "pe") /\ "load" \in Op /\ "install" \in Pc
        /\ UNCHANGED <<known, EfiAtRuntime>>
    BY DEF LoadPe, Op, Pc
  <1>2. CASE /\ stack' = Goto("install") /\ image' = [image EXCEPT ![Img].linked = Kind[Img] # "app"]
             /\ BootImageList' = Listed(BootImageList, "boot", Img)
             /\ RuntimeImageList' = Listed(RuntimeImageList, "rt", Img)
    <2>1. PICK i \in Image : i = Img
      BY <1>1, AtFacts
    <2>2. ImageOK(i) /\ Live(i) /\ ~image[i].linked /\ Settled(i) /\ ~EfiAtRuntime
      BY <1>1, <2>1, TopFacts, AtFacts
    <2>3. /\ image'[i].state = image[i].state /\ image'[i].Handle = image[i].Handle
          /\ image'[i].linked = (Kind[i] # "app")
          /\ \A j \in Image : j # i => image'[j] = image[j]
      BY <1>2, <2>1 DEF IInv, Types, ImageSet
    <2>4. ASSUME NEW list \in Seq(Image), NEW kind, Once(list), ~InList(list, i)
          PROVE  /\ Listed(list, kind, i) \in Seq(Image) /\ Once(Listed(list, kind, i))
                 /\ \A x : InList(Listed(list, kind, i), x) <=> InList(list, x) \/ (x = i /\ Kind[i] = kind)
      BY <2>4, AppendOnce DEF Listed
    <2>5. ~InList(BootImageList, i) /\ ~InList(RuntimeImageList, i)
      BY <2>2 DEF Settled
    <2>6. /\ BootImageList' \in Seq(Image) /\ Once(BootImageList')
          /\ \A x : InList(BootImageList', x) <=> InList(BootImageList, x) \/ (x = i /\ Kind[i] = "boot")
      BY <1>2, <2>1, <2>4, <2>5 DEF RegInv, ListTypes
    <2>7. /\ RuntimeImageList' \in Seq(Image) /\ Once(RuntimeImageList')
          /\ \A x : InList(RuntimeImageList', x) <=> InList(RuntimeImageList, x) \/ (x = i /\ Kind[i] = "rt")
      BY <1>2, <2>1, <2>4, <2>5 DEF RegInv, ListTypes
    <2>8. ListTypes'
      BY <1>1, <2>6, <2>7 DEF RegInv, ListTypes, known
    <2>9. Elsewhere(i)
      BY <1>1, <2>3, <2>6, <2>7 DEF Elsewhere, known
    <2>10. Fields(i)'
      BY <1>1, <2>2, <2>3 DEF ImageOK, Fields, Live, Untabled, known
    <2>11. Settled(i)'
      <3>1. Kind[i] \in {"app", "boot", "rt"}
        BY ImagesAssumption
      <3>2. InList(BootImageList', i) <=> image'[i].linked /\ Kind[i] = "boot"
        BY <2>3, <2>5, <2>6, <3>1
      <3>3. InList(RuntimeImageList', i) <=> image'[i].linked /\ Kind[i] = "rt"
        BY <2>3, <2>5, <2>7, <3>1
      <3> QED BY <1>1, <2>2, <2>3, <3>2, <3>3 DEF Settled, known
    <2>12. ImageOK(i)'
      BY <2>10, <2>11 DEF ImageOK
    <2>13. ASSUME NEW g \in FrameSet, g.op = "load", g.pc = "install", g.img = i,
                  g.parent # NULL => g.parent \in Image /\ Live(g.parent)
           PROVE  FrameOK(g)'
      BY <2>2, <2>3, <2>13 DEF FrameOK, FrameUses, FrameDid, FrameUndid, Live
    <2> QED BY <1>1, <1>2, <2>1, <2>8, <2>9, <2>12, <2>13, GotoWork
  <1>3. CASE stack' = Become("unload", "unlink") /\ UNCHANGED <<image, BootImageList, RuntimeImageList>>
    BY <1>1, <1>3, BecomeStack
  <1> QED BY <1>2, <1>3 DEF LoadPe

\* The protocols are installed.
LEMMA RegLoadInstall ==
    ASSUME IInv, IInv', RegInv, LoadInstall
    PROVE  RegInv'
  <1>1. /\ At("load", "install") /\ "load" \in Op /\ "debug" \in Pc
        /\ UNCHANGED <<agents, Table, BootImageList, RuntimeImageList, EfiAtRuntime>>
    BY DEF LoadInstall, Op, Pc, rest, lists
  <1>2. CASE stack' = Goto("debug") /\ installed' = installed \cup {Img} /\ image' = [image EXCEPT ![Img].Handle = TRUE]
    <2>1. PICK i \in Image : i = Img
      BY <1>1, AtFacts
    <2>2. ImageOK(i) /\ Live(i) /\ Settled(i) /\ ~EfiAtRuntime
      BY <1>1, <2>1, TopFacts, AtFacts
    <2>3. /\ image'[i].state = image[i].state /\ image'[i].Handle
          /\ image'[i].linked = image[i].linked
          /\ \A j \in Image : j # i => image'[j] = image[j]
      BY <1>2, <2>1 DEF IInv, Types, ImageSet
    <2>4. ListTypes' /\ Elsewhere(i)
      BY <1>1, <1>2, <2>1, <2>3 DEF RegInv, ListTypes, Elsewhere
    <2>5. ImageOK(i)'
      BY <1>1, <1>2, <2>1, <2>2, <2>3 DEF ImageOK, Fields, Settled, Live, Untabled
    <2>6. ASSUME NEW g \in FrameSet, g.op = "load", g.pc = "debug", g.img = i,
                 g.parent # NULL => g.parent \in Image /\ Live(g.parent)
          PROVE  FrameOK(g)'
      BY <2>2, <2>3, <2>6 DEF FrameOK, FrameUses, FrameDid, FrameUndid, Live
    <2> QED BY <1>1, <1>2, <2>1, <2>4, <2>5, <2>6, GotoWork
  <1>3. CASE stack' = Become("unload", "unlink") /\ UNCHANGED <<image, installed>>
    BY <1>1, <1>3, BecomeStack DEF known
  <1> QED BY <1>2, <1>3 DEF LoadInstall

\* The debug table is told.
LEMMA RegLoadDebug ==
    ASSUME IInv, IInv', RegInv, LoadDebug
    PROVE  RegInv'
  <1>1. /\ At("load", "debug") /\ "load" \in Op /\ Return
        /\ UNCHANGED <<image, installed, agents, BootImageList, RuntimeImageList, EfiAtRuntime>>
        /\ Table' = Table \cup {Img} \/ Table' = Table
    BY DEF LoadDebug, Op, rest, lists, NewDebugImageInfoEntry
  <1>2. PICK i \in Image : i = Img
    BY <1>1, AtFacts
  <1>3. ImageOK(i) /\ image[i].Handle /\ Settled(i) /\ ~EfiAtRuntime
    BY <1>1, <1>2, TopFacts, AtFacts
  <1>4. ListTypes' /\ Elsewhere(i)
    BY <1>1, <1>2 DEF RegInv, ListTypes, Elsewhere
  <1>5. ImageOK(i)'
    BY <1>1, <1>3 DEF ImageOK, Fields, Settled, Live, Untabled
  <1> QED BY <1>1, <1>2, <1>4, <1>5, ReturnWork

-----------------------------------------------------------------------------
(* Images of the firmware *)

\* The structure is filled, or freed at once.
LEMMA RegFwLoadInternal ==
    ASSUME IInv, IInv', RegInv, NEW i \in Image, FwLoadInternal(i)
    PROVE  RegInv'
  <1> DEFINE f == Frame("internal", i, "install")
  <1>1. /\ ~EfiAtRuntime /\ stack = <<>> /\ image[i].state = "none"
        /\ UNCHANGED <<known, BootImageList, RuntimeImageList, EfiAtRuntime>>
    BY DEF FwLoadInternal, User, Depth, rest, lists, IInv, Types
  <1>2. /\ f \in FrameSet /\ f.op = "internal" /\ f.img = i /\ f.pc = "install" /\ f.parent = NULL
    <2>1. "internal" \in Op /\ "install" \in Pc /\ i \in Image \cup {NULL}
      BY DEF Op, Pc
    <2>2. f \in FrameSet
      BY <2>1, FrameTyped
    <2>3. f.op = "internal" /\ f.img = i /\ f.pc = "install" /\ f.parent = NULL
      BY DEF Frame
    <2> QED BY <2>2, <2>3
  <1>3. ImageOK(i) /\ Settled(i) /\ ~image[i].Handle /\ ~image[i].linked
    <2>1. ImageOK(i) /\ ~Gone(i)
      BY <1>1 DEF RegInv, Gone
    <2> QED BY <1>1, <2>1 DEF ImageOK, Fields, Live
  <1>4. ASSUME NEW st \in {"live", "freed"}, image' = [image EXCEPT ![i].state = st]
        PROVE  ListTypes' /\ Elsewhere(i) /\ ImageOK(i)' /\ image'[i].state = st
    <2>1. /\ image'[i].state = st /\ image'[i].Handle = image[i].Handle
          /\ image'[i].linked = image[i].linked
          /\ \A j \in Image : j # i => image'[j] = image[j]
      BY <1>4 DEF IInv, Types, ImageSet
    <2>2. ListTypes' /\ Elsewhere(i)
      BY <1>1, <2>1, SameElsewhere DEF RegInv, ListTypes, known
    <2>3. ImageOK(i)'
      BY <1>1, <1>3, <2>1 DEF ImageOK, Fields, Settled, Live, Untabled, known
    <2> QED BY <2>1, <2>2, <2>3
  <1>5. 0 \in 0..Len(stack) /\ Len(stack) = 0
    BY <1>1
  <1>6. CASE image' = [image EXCEPT ![i].state = "live"] /\ stack' = Append(stack, f)
    <2> HIDE DEF f
    <2>1. Len(stack') = 1 /\ stack'[1] = f
      BY <1>1, <1>2, <1>6
    <2>2. \A g \in FrameSet : g = f => FrameOK(g)'
      BY <1>2, <1>4, <1>6 DEF FrameOK, FrameUses, FrameDid, FrameUndid, Live
    <2>3. Kept(0) /\ NewTop(0)
      BY <2>1, <2>2 DEF Kept, NewTop
    <2> QED BY <1>1, <1>4, <1>5, <1>6, <2>3, WorkStep
  <1>7. CASE image' = [image EXCEPT ![i].state = "freed"] /\ UNCHANGED stack
    <2>1. Kept(0) /\ NewTop(0)
      BY <1>5, <1>7 DEF Kept, NewTop
    <2> QED BY <1>1, <1>4, <1>5, <1>7, <2>1, WorkStep
  <1> QED BY <1>6, <1>7 DEF FwLoadInternal

\* Its protocols are installed.
LEMMA RegInternalInstall ==
    ASSUME IInv, IInv', RegInv, InternalInstall
    PROVE  RegInv'
  <1>1. /\ At("internal", "install") /\ "internal" \in Op /\ "start" \in Pc /\ stack' = Goto("start")
        /\ installed' = installed \cup {Img} /\ image' = [image EXCEPT ![Img].Handle = TRUE]
        /\ UNCHANGED <<agents, Table, BootImageList, RuntimeImageList, EfiAtRuntime>>
    BY DEF InternalInstall, Op, Pc, rest, lists
  <1>2. PICK i \in Image : i = Img
    BY <1>1, AtFacts
  <1>3. ImageOK(i) /\ Live(i) /\ Settled(i) /\ ~EfiAtRuntime
    BY <1>1, <1>2, TopFacts, AtFacts
  <1>4. /\ image'[i].state = image[i].state /\ image'[i].Handle
        /\ image'[i].linked = image[i].linked
        /\ \A j \in Image : j # i => image'[j] = image[j]
    BY <1>1, <1>2 DEF IInv, Types, ImageSet
  <1>5. ListTypes' /\ Elsewhere(i)
    BY <1>1, <1>2, <1>4 DEF RegInv, ListTypes, Elsewhere
  <1>6. ImageOK(i)'
    BY <1>1, <1>2, <1>3, <1>4 DEF ImageOK, Fields, Settled, Live, Untabled
  <1>7. ASSUME NEW g \in FrameSet, g.op = "internal", g.pc = "start", g.img = i, g.parent = NULL
        PROVE  FrameOK(g)'
    BY <1>3, <1>4, <1>7 DEF FrameOK, FrameUses, FrameDid, FrameUndid, Live
  <1> QED BY <1>1, <1>2, <1>5, <1>6, <1>7, GotoWork

-----------------------------------------------------------------------------
(* StartImage and Exit *)

\* A call of StartImage follows the first n calls.
LEMMA RegEnter ==
    ASSUME IInv, IInv', RegInv, ~EfiAtRuntime, NEW i \in Image, i \in installed,
           NEW n \in 0..Len(stack), Enter(i, SubSeq(stack, 1, n)),
           n = 0 \/ UserFrame(stack[n]),
           \A d \in 1..n : stack[d].img # i /\ stack[d].parent # i,
           \A d \in n + 1..Len(stack) : stack[d].op # "unload"
    PROVE  RegInv'
  <1> DEFINE s == SubSeq(stack, 1, n)
             g == Frame("start", i, "entry")
             f == [g EXCEPT !.LastSi = CurrentStartImage]
  <1>1. s \in Seq(FrameSet) /\ Len(s) = n /\ \A d \in 1..n : s[d] = stack[d]
    BY CutFacts DEF IInv, Types
  <1>2. /\ stack' = Append(s, f)
        /\ image' = [image EXCEPT ![i].Started = TRUE, ![i].StartImageContext = n + 1,
                                  ![i].Unload = i \in Unloads]
        /\ UNCHANGED <<known, BootImageList, RuntimeImageList, EfiAtRuntime>>
    BY <1>1 DEF Enter, rest, lists
  <1>3. g \in FrameSet /\ g.op = "start" /\ g.img = i /\ g.parent = NULL
    <2>1. "start" \in Op /\ "entry" \in Pc /\ i \in Image \cup {NULL}
      BY DEF Op, Pc
    <2>2. g \in FrameSet
      BY <2>1, FrameTyped
    <2>3. g.op = "start" /\ g.img = i /\ g.parent = NULL
      BY DEF Frame
    <2> QED BY <2>2, <2>3
  <1> HIDE DEF g
  <1>4. f \in FrameSet /\ f.op = "start" /\ f.img = i /\ f.parent = NULL
    BY <1>3 DEF FrameSet, IInv, Types
  <1> HIDE DEF s, f
  <1>5. /\ Len(stack') = n + 1 /\ stack'[n + 1] = f
        /\ \A d \in 1..n : stack'[d] = stack[d]
    BY <1>1, <1>2, <1>4, PushFacts
  <1>6. /\ image'[i].state = image[i].state /\ image'[i].Handle = image[i].Handle
        /\ image'[i].linked = image[i].linked
        /\ \A j \in Image : j # i => image'[j] = image[j]
    BY <1>2 DEF IInv, Types, ImageSet
  <1>7. ImageOK(i) /\ image[i].Handle /\ Live(i)
    BY DEF RegInv, ImageOK, Fields, Untabled
  <1>8. ~Gone(i)
    <2> SUFFICES ASSUME NEW d \in 1..Len(stack), stack[d].op = "unload", stack[d].img = i PROVE FALSE
      BY DEF Gone
    <2>1. d \in 1..n \/ d \in n + 1..Len(stack)
      BY DEF IInv, Types
    <2> QED BY <2>1
  <1>9. ListTypes' /\ Elsewhere(i)
    BY <1>2, <1>6, SameElsewhere DEF RegInv, ListTypes, known
  <1>10. ImageOK(i)'
    BY <1>2, <1>6, <1>7, <1>8 DEF ImageOK, Fields, Settled, Live, Untabled, known
  <1>11. \A h \in FrameSet : h = f => FrameOK(h)'
    BY <1>4, <1>6, <1>7 DEF FrameOK, FrameUses, FrameDid, FrameUndid, Live
  <1>12. Kept(n) /\ NewTop(n)
    BY <1>4, <1>5, <1>11 DEF Kept, NewTop
  <1> QED BY <1>2, <1>9, <1>10, <1>12, WorkStep

\* StartImage of an image that no call works on.
LEMMA RegStartImage ==
    ASSUME IInv, IInv', RegInv, ~Reckless, NEW i \in Image, StartImage(i)
    PROVE  RegInv'
  <1>1. ~EfiAtRuntime /\ User /\ ~Busy(i) /\ i \in installed /\ Enter(i, stack)
    BY DEF StartImage, Caller, User, MayTouch, Startable, LoadedImageInfo
  <1>2. stack \in Seq(FrameSet) /\ Len(stack) \in Nat /\ Len(stack) \in 0..Len(stack)
    BY DEF IInv, Types
  <1>3. SubSeq(stack, 1, Len(stack)) = stack
    <2>1. /\ SubSeq(stack, 1, Len(stack)) \in Seq(FrameSet)
          /\ Len(SubSeq(stack, 1, Len(stack))) = Len(stack)
          /\ \A d \in 1..Len(stack) : SubSeq(stack, 1, Len(stack))[d] = stack[d]
      BY <1>2, CutFacts
    <2> QED BY <1>2, <2>1
  <1>4. \A d \in 1..Len(stack) : stack[d].img # i /\ stack[d].parent # i
    BY <1>1, <1>2 DEF Busy
  <1>5. Len(stack) = 0 \/ UserFrame(stack[Len(stack)])
    BY <1>1 DEF User, Depth, At, Last, UserFrame
  <1>6. \A d \in Len(stack) + 1..Len(stack) : stack[d].op # "unload"
    BY <1>2
  <1> QED BY <1>1, <1>2, <1>3, <1>4, <1>5, <1>6, RegEnter

\* The start of an image of the firmware.
LEMMA RegInternalStart ==
    ASSUME IInv, IInv', RegInv, InternalStart
    PROVE  RegInv'
  <1>1. At("internal", "start") /\ "internal" \in Op
    BY DEF InternalStart, Op
  <1>2. PICK i \in Image : i = Img
    BY <1>1, AtFacts
  <1>3. ~EfiAtRuntime /\ Len(stack) \in Nat \ {0} /\ Top.op = "internal"
    BY <1>1, AtFacts
  <1>4. \A d \in 1..Len(stack) - 1 : stack[d].img # i /\ stack[d].parent # i
    BY <1>1, <1>2, TopFacts
  <1>5. i \in installed /\ Enter(i, SubSeq(stack, 1, Len(stack) - 1))
    BY <1>2 DEF InternalStart, Startable, LoadedImageInfo, Front
  <1>6. Len(stack) - 1 = 0 \/ UserFrame(stack[Len(stack) - 1])
    BY <1>3, BelowTop
  <1>7. /\ Len(stack) - 1 \in 0..Len(stack)
        /\ \A d \in (Len(stack) - 1) + 1..Len(stack) : stack[d].op # "unload"
    BY <1>3 DEF Top
  <1> QED BY <1>3, <1>4, <1>5, <1>6, <1>7, RegEnter

\* The stack is cut back to a call of StartImage.
LEMMA RegJump ==
    ASSUME IInv, IInv', RegInv, ~EfiAtRuntime, NEW m \in 1..Len(stack), stack[m].op = "start",
           NEW ok \in BOOLEAN, Jump(m, ok),
           \A d \in m..Len(stack) : stack[d].op # "unload"
    PROVE  RegInv'
  <1> DEFINE s == SubSeq(stack, 1, m)
             f == [stack[m] EXCEPT !.pc = "done", !.ok = ok]
             n == m - 1
  <1>1. /\ stack \in Seq(FrameSet) /\ Len(stack) \in Nat /\ m \in 0..Len(stack) /\ stack[m] \in FrameSet
        /\ n \in 0..Len(stack) /\ n + 1 = m /\ n \in Nat
    BY DEF IInv, Types
  <1>2. s \in Seq(FrameSet) /\ Len(s) = m /\ \A d \in 1..m : s[d] = stack[d]
    BY <1>1, CutFacts
  <1>3. /\ f \in FrameSet /\ f.op = stack[m].op /\ f.img = stack[m].img
        /\ f.parent = stack[m].parent /\ f.pc = "done"
    BY <1>1 DEF FrameSet, Pc
  <1>4. stack' = [s EXCEPT ![m] = f]
    <2>1. stack' = [s EXCEPT ![m].pc = "done", ![m].ok = ok]
      BY DEF Jump
    <2>2. s[m] = stack[m] /\ stack[m] \in FrameSet
      BY <1>1, <1>2
    <2> HIDE DEF s
    <2> QED BY <1>1, <1>2, <2>1, <2>2 DEF FrameSet
  <1> HIDE DEF s, f
  <1>5. /\ Len(stack') = m /\ stack'[m] = f
        /\ \A d \in 1..m - 1 : stack'[d] = stack[d]
    BY <1>1, <1>2, <1>3, <1>4
  <1>6. FrameOK(stack[m]) /\ stack[m].img \in Image
    BY DEF RegInv, IInv, Types
  <1>7. UNCHANGED <<image, known, BootImageList, RuntimeImageList, EfiAtRuntime>>
    BY DEF Jump, rest, lists
  <1>8. \A g \in FrameSet : g = f => FrameOK(g)'
    BY <1>3, <1>6, <1>7 DEF FrameOK, FrameUses, FrameDid, FrameUndid, Live
  <1>9. ASSUME NEW d \in 1..n PROVE stack[d].parent # f.img
    <2>1. d \in 1..Len(stack) /\ d < m
      BY <1>1
    <2>2. f.img # NULL /\ f.img = stack[m].img /\ stack[m].op # "ask"
      BY <1>3, <1>6, ImagesAssumption
    <2> QED BY <2>1, <2>2 DEF RegInv, OneParent
  <1>10. n = 0 \/ UserFrame(stack[n])
    <2>1. n # 0 => n \in 1..Len(stack) /\ n + 1 \in 1..Len(stack) /\ stack[n + 1].op # "notify"
      BY <1>1
    <2> HIDE DEF n
    <2> QED BY <2>1 DEF RegInv, Suspended
  <1>11. Kept(n) /\ NewTop(n)
    BY <1>1, <1>3, <1>5, <1>8, <1>9, <1>10 DEF Kept, NewTop
  <1>12. \A d \in n + 1..Len(stack) : stack[d].op # "unload"
    BY <1>1
  <1> HIDE DEF n
  <1> QED BY <1>1, <1>7, <1>11, <1>12, StackStep

\* The entry point returns.
LEMMA RegEntryReturns ==
    ASSUME IInv, IInv', RegInv, EntryReturns
    PROVE  RegInv'
  <1>1. At("start", "entry") /\ "start" \in Op
    BY DEF EntryReturns, Op
  <1>2. ~EfiAtRuntime /\ Len(stack) \in Nat \ {0} /\ Top.op = "start"
    BY <1>1, AtFacts
  <1>3. PICK ok \in BOOLEAN : Jump(Len(stack), ok)
    BY DEF EntryReturns, Depth
  <1>4. /\ Len(stack) \in 1..Len(stack) /\ stack[Len(stack)].op = "start"
        /\ \A d \in Len(stack)..Len(stack) : stack[d].op # "unload"
    BY <1>2 DEF Top
  <1> QED BY <1>2, <1>3, <1>4, RegJump

\* Exit drops the calls above the one of the current image.  They run user code.
LEMMA RegExit ==
    ASSUME IInv, IInv', RegInv, NEW i \in Image, Exit(i)
    PROVE  RegInv'
  <1> DEFINE m == CurrentStartImage
  <1>1. /\ ~EfiAtRuntime /\ m # 0 /\ image[i].StartImageContext = m /\ User
        /\ \A d \in m..Len(stack) : stack[d].op # "notify"
    BY DEF Exit, User, Exitable, Depth
  <1>2. m \in 1..Len(stack) /\ stack[m].op = "start"
    <2>1. m \in Started
      BY <1>1 DEF IInv, Chain, IsInnermost
    <2> QED BY <2>1, StartedFacts DEF IInv, IsStart
  <1>3. PICK ok \in BOOLEAN : Jump(m, ok)
    BY <1>1 DEF Exit
  <1>4. ASSUME NEW d \in m..Len(stack) PROVE stack[d].op # "unload"
    <2>1. CASE d = Len(stack)
      BY <1>1, <1>2, <2>1 DEF User, At, Last, Depth
    <2>2. CASE d # Len(stack)
      <3>1. d \in 1..Len(stack) /\ d + 1 \in 1..Len(stack) /\ d + 1 \in m..Len(stack)
        BY <1>2, <2>2 DEF IInv, Types
      <3>2. UserFrame(stack[d])
        BY <1>1, <3>1 DEF RegInv, Suspended
      <3> QED BY <3>2 DEF UserFrame
    <2> QED BY <2>1, <2>2
  <1> HIDE DEF m
  <1> QED BY <1>1, <1>2, <1>3, <1>4, RegJump

\* The context is popped.
LEMMA RegStartDone ==
    ASSUME IInv, IInv', RegInv, StartDone
    PROVE  RegInv'
  <1>1. /\ At("start", "done") /\ "start" \in Op /\ "connect" \in Pc /\ stack' = Goto("connect")
        /\ image' = [image EXCEPT ![Img].StartImageContext = 0]
        /\ UNCHANGED <<known, BootImageList, RuntimeImageList, EfiAtRuntime>>
    BY DEF StartDone, Op, Pc, rest, lists
  <1>2. PICK i \in Image : i = Img
    BY <1>1, AtFacts
  <1>3. ImageOK(i) /\ Live(i) /\ Settled(i) /\ image[i].Handle /\ ~EfiAtRuntime
    BY <1>1, <1>2, TopFacts, AtFacts
  <1>4. /\ image'[i].state = image[i].state /\ image'[i].Handle = image[i].Handle
        /\ image'[i].linked = image[i].linked
        /\ \A j \in Image : j # i => image'[j] = image[j]
    BY <1>1, <1>2 DEF IInv, Types, ImageSet
  <1>5. ListTypes' /\ Elsewhere(i)
    BY <1>1, <1>4, SameElsewhere DEF RegInv, ListTypes, known
  <1>6. ImageOK(i)'
    BY <1>1, <1>3, <1>4 DEF ImageOK, Fields, Settled, Live, Untabled, known
  <1>7. ASSUME NEW g \in FrameSet, g.op = "start", g.pc = "connect", g.img = i, g.parent = NULL
        PROVE  FrameOK(g)'
    BY <1>3, <1>4, <1>7 DEF FrameOK, FrameUses, FrameDid, FrameUndid, Live
  <1> QED BY <1>1, <1>2, <1>5, <1>6, <1>7, GotoWork

\* StartImage returns, or unloads its image.
LEMMA RegStartConnected ==
    ASSUME IInv, IInv', RegInv, StartConnected
    PROVE  RegInv'
  <1>1. /\ At("start", "connect") /\ "start" \in Op
        /\ UNCHANGED <<image, known, BootImageList, RuntimeImageList, EfiAtRuntime>>
    BY DEF StartConnected, Op, rest, lists
  <1>2. CASE stack' = Become("unload", "unlink")
    BY <1>1, <1>2, BecomeStack
  <1>3. CASE Return
    BY <1>1, <1>3, ReturnStack
  <1> QED BY <1>2, <1>3 DEF StartConnected

-----------------------------------------------------------------------------
(* UnloadImage *)

\* The image is taken off its list.
LEMMA RegUnloadUnlink ==
    ASSUME IInv, IInv', RegInv, UnloadUnlink
    PROVE  RegInv'
  <1> DEFINE to == IF image[Img].Handle THEN "close" ELSE "free"
  <1>1. /\ At("unload", "unlink") /\ "unload" \in Op /\ to \in Pc /\ stack' = Goto(to) /\ to # "unlink"
        /\ UNCHANGED <<image, known, EfiAtRuntime>>
        /\ BootImageList' = Unlinked(BootImageList)
        /\ RuntimeImageList' = Unlinked(RuntimeImageList)
    BY DEF UnloadUnlink, Op, Pc, rest
  <1>2. PICK i \in Image : i = Img
    BY <1>1, AtFacts
  <1>3. ImageOK(i) /\ Live(i) /\ Settled(i) /\ ~EfiAtRuntime
    BY <1>1, <1>2, TopFacts, AtFacts
  <1>4. ASSUME NEW list \in Seq(Image), Once(list), InList(list, i) => image[i].linked
        PROVE  /\ Unlinked(list) \in Seq(Image) /\ Once(Unlinked(list))
               /\ \A x : InList(Unlinked(list), x) <=> InList(list, x) /\ x # i
    BY <1>2, <1>4, RemoveOnce DEF Unlinked
  <1>5. /\ BootImageList' \in Seq(Image) /\ Once(BootImageList')
        /\ \A x : InList(BootImageList', x) <=> InList(BootImageList, x) /\ x # i
    BY <1>1, <1>3, <1>4 DEF RegInv, ListTypes, Settled
  <1>6. /\ RuntimeImageList' \in Seq(Image) /\ Once(RuntimeImageList')
        /\ \A x : InList(RuntimeImageList', x) <=> InList(RuntimeImageList, x) /\ x # i
    BY <1>1, <1>3, <1>4 DEF RegInv, ListTypes, Settled
  <1>7. ListTypes'
    BY <1>1, <1>5, <1>6 DEF RegInv, ListTypes, known
  <1>8. Elsewhere(i)
    BY <1>1, <1>5, <1>6 DEF Elsewhere, known
  <1>9. Gone(i)'
    <2>1. stack # <<>> /\ Len(stack) \in Nat \ {0} /\ Top.op = "unload" /\ Top.img = i /\ Top \in FrameSet
      BY <1>1, <1>2, AtFacts
    <2>2. Len(stack') = Len(stack) /\ stack'[Len(stack)] = [Top EXCEPT !.pc = to]
      BY <1>1, <2>1, GotoStep DEF IInv
    <2>3. /\ stack'[Len(stack)].op = "unload" /\ stack'[Len(stack)].pc = to
          /\ stack'[Len(stack)].img = i /\ Len(stack) \in 1..Len(stack')
      BY <2>1, <2>2 DEF FrameSet
    <2> QED BY <1>1, <2>3 DEF Gone
  <1>10. Fields(i)'
    BY <1>1, <1>3 DEF ImageOK, Fields, Live, Untabled, known
  <1>11. ImageOK(i)'
    BY <1>9, <1>10 DEF ImageOK
  <1>12. Unlisted(i)'
    BY <1>5, <1>6 DEF Unlisted
  <1>13. to = "close" \/ (to = "free" /\ Untabled(i))
    BY <1>2, <1>3 DEF ImageOK, Fields
  <1> HIDE DEF to
  <1>14. ASSUME NEW g \in FrameSet, g.op = "unload", g.pc = to, g.img = i, g.parent = NULL
         PROVE  FrameOK(g)'
    <2>1. FrameUses(g)' /\ FrameDid(g)'
      BY <1>1, <1>3, <1>14 DEF FrameUses, FrameDid, Live
    <2>2. FrameUndid(g)'
      BY <1>1, <1>12, <1>13, <1>14 DEF FrameUndid, Unlisted, Untabled, known
    <2> QED BY <2>1, <2>2 DEF FrameOK
  <1> QED BY <1>1, <1>2, <1>7, <1>8, <1>11, <1>14, GotoWork

\* A step of the unloading that takes the image out of one table.
LEMMA RegUnloadTable ==
    ASSUME IInv, IInv', RegInv, NEW pc, At("unload", pc), pc # "unlink", NEW to \in Pc, stack' = Goto(to),
           UNCHANGED <<image, BootImageList, RuntimeImageList, EfiAtRuntime>>,
           installed' = installed \ (IF to = "free" THEN {Img} ELSE {}),
           agents' = agents \ (IF to = "debug" THEN {Img} ELSE {}),
           Table' = Table \ (IF to = "uninstall" THEN {Img} ELSE {}),
           <<pc, to>> \in {<<"close", "debug">>, <<"debug", "uninstall">>, <<"uninstall", "free">>}
    PROVE  RegInv'
  <1>1. "unload" \in Op
    BY DEF Op
  <1>2. PICK i \in Image : i = Img
    BY <1>1, AtFacts
  <1>3. /\ ImageOK(i) /\ Live(i) /\ Unlisted(i) /\ ~EfiAtRuntime
        /\ pc \in {"debug", "uninstall"} => i \notin agents
        /\ pc = "uninstall" => i \notin Table
    BY <1>1, <1>2, TopFacts, AtFacts
  <1>4. ListTypes' /\ Elsewhere(i)
    BY <1>2 DEF RegInv, ListTypes, Elsewhere
  <1>5. Gone(i)'
    <2>1. stack # <<>> /\ Len(stack) \in Nat \ {0} /\ Top.op = "unload" /\ Top.img = i /\ Top \in FrameSet
      BY <1>1, <1>2, AtFacts
    <2>2. Len(stack') = Len(stack) /\ stack'[Len(stack)] = [Top EXCEPT !.pc = to]
      BY <1>1, <2>1, GotoStep DEF IInv
    <2>3. /\ stack'[Len(stack)].op = "unload" /\ stack'[Len(stack)].pc = to
          /\ stack'[Len(stack)].img = i /\ Len(stack) \in 1..Len(stack')
      BY <2>1, <2>2 DEF FrameSet
    <2> QED BY <1>1, <2>3 DEF Gone
  <1>6. ImageOK(i)'
    BY <1>3, <1>5 DEF ImageOK, Fields, Live, Untabled
  <1>7. ASSUME NEW g \in FrameSet, g.op = "unload", g.pc = to, g.img = i, g.parent = NULL
        PROVE  FrameOK(g)'
    <2>1. FrameUses(g)' /\ FrameDid(g)'
      BY <1>1, <1>3, <1>7 DEF FrameUses, FrameDid, Live
    <2>2. Unlisted(i)'
      BY <1>3 DEF Unlisted
    <2>3. FrameUndid(g)'
      BY <1>2, <1>3, <1>7, <2>2 DEF FrameUndid, Unlisted
    <2> QED BY <2>1, <2>3 DEF FrameOK
  <1>8. "unload" \in Op \ {"notify", "ask"}
    BY DEF Op
  <1> QED BY <1>2, <1>4, <1>6, <1>7, <1>8, GotoWork

\* The structure is freed.  Nothing refers to it any more.
LEMMA RegUnloadFree ==
    ASSUME IInv, IInv', RegInv, UnloadFree
    PROVE  RegInv'
  <1> DEFINE r == [NoImage EXCEPT !.state = "freed"]
  <1>1. /\ At("unload", "free") /\ "unload" \in Op /\ Return /\ image' = [image EXCEPT ![Img] = r]
        /\ UNCHANGED <<known, BootImageList, RuntimeImageList, EfiAtRuntime>>
    BY DEF UnloadFree, Op, lists
  <1>2. r.state = "freed" /\ ~r.Handle /\ ~r.linked
    BY DEF NoImage
  <1> HIDE DEF r
  <1>3. PICK i \in Image : i = Img
    BY <1>1, AtFacts
  <1>4. Unlisted(i) /\ Untabled(i)
    BY <1>1, <1>3, TopFacts DEF Untabled
  <1>5. image'[i] = r /\ \A j \in Image : j # i => image'[j] = image[j]
    BY <1>1, <1>3 DEF IInv, Types
  <1>6. ListTypes' /\ Elsewhere(i)
    BY <1>1, <1>5, SameElsewhere DEF RegInv, ListTypes, known
  <1>7. ImageOK(i)'
    BY <1>1, <1>2, <1>4, <1>5 DEF ImageOK, Fields, Settled, Live, Untabled, Unlisted, known
  <1> QED BY <1>1, <1>3, <1>6, <1>7, ReturnWork

\* The boot service unloads an image that was not started, or asks it.
LEMMA RegBSUnloadImage ==
    ASSUME IInv, IInv', RegInv, ~Reckless, NEW i \in Image, BSUnloadImage(i)
    PROVE  RegInv'
  <1>1. /\ ~EfiAtRuntime /\ User /\ i \in installed
        /\ UNCHANGED <<image, known, BootImageList, RuntimeImageList, EfiAtRuntime>>
    BY DEF BSUnloadImage, Caller, User, LoadedImageInfo, rest, lists
  <1>2. Live(i)
    BY <1>1 DEF RegInv, ImageOK, Fields, Untabled
  <1>3. ASSUME NEW op \in {"unload", "ask"}, NEW pc \in {"unlink", "Unload"},
               op = "unload" => pc = "unlink" /\ ~Busy(i),
               stack' = Append(stack, Frame(op, i, pc))
        PROVE  RegInv'
    <2> DEFINE f == Frame(op, i, pc)
    <2>1. op \in Op /\ pc \in Pc /\ i \in Image \cup {NULL}
      BY DEF Op, Pc
    <2>2. f \in FrameSet
      BY <2>1, FrameTyped
    <2>3. f.op = op /\ f.img = i /\ f.pc = pc /\ f.parent = NULL
      BY DEF Frame
    <2> HIDE DEF f
    <2>4. \A g \in FrameSet : g = f => FrameOK(g)'
      BY <1>1, <1>2, <1>3, <2>3 DEF FrameOK, FrameUses, FrameDid, FrameUndid, Live
    <2>5. f.op = "ask" \/ \A d \in 1..Len(stack) : stack[d].parent # f.img
      BY <1>3, <2>3 DEF Busy, IInv, Types
    <2>6. stack' = Append(stack, f)
      BY <1>3 DEF f
    <2> QED BY <1>1, <2>2, <2>4, <2>5, <2>6, PushStack
  <1> QED BY <1>3 DEF BSUnloadImage, MayTouch

\* An image that was asked is unloaded when no call works on it, or stays.
LEMMA RegAsked ==
    ASSUME IInv, IInv', RegInv, ~Reckless, Asked
    PROVE  RegInv'
  <1>1. /\ At("ask", "Unload") /\ "ask" \in Op
        /\ UNCHANGED <<image, known, BootImageList, RuntimeImageList, EfiAtRuntime>>
    BY DEF Asked, Op, rest, lists
  <1>2. CASE Unloadable(Img) /\ stack' = Become("unload", "unlink")
    <2>1. \A d \in 1..Len(stack) - 1 : stack[d].parent # Img
      BY <1>2 DEF Unloadable, Depth
    <2> QED BY <1>1, <1>2, <2>1, BecomeStack
  <1>3. CASE Return
    BY <1>1, <1>3, ReturnStack
  <1> QED BY <1>2, <1>3 DEF Asked

-----------------------------------------------------------------------------
(* What else runs *)

\* A running image opens a protocol.
LEMMA RegOpenProtocol ==
    ASSUME IInv, IInv', RegInv, NEW i \in Image, OpenProtocol(i)
    PROVE  RegInv'
  <1> DEFINE n == Len(stack) - 1
  <1>1. /\ At("start", "entry") /\ "start" \in Op /\ Img = i /\ agents' = agents \cup {i}
        /\ UNCHANGED <<image, stack, installed, Table, BootImageList, RuntimeImageList, EfiAtRuntime>>
    BY DEF OpenProtocol, Op, rest, lists
  <1>2. /\ ~EfiAtRuntime /\ Len(stack) \in Nat \ {0} /\ Top \in FrameSet
        /\ Top.op = "start" /\ Top.pc = "entry" /\ n \in 0..Len(stack)
    BY <1>1, AtFacts
  <1>3. /\ ImageOK(i) /\ Live(i) /\ Settled(i) /\ image[i].Handle
        /\ Top.img = i /\ Top.parent = NULL
        /\ \A d \in 1..n : stack[d].img # i /\ stack[d].parent # i
    BY <1>1, TopFacts
  <1>4. ListTypes' /\ Elsewhere(i)
    BY <1>1 DEF RegInv, ListTypes, Elsewhere
  <1>5. ImageOK(i)'
    BY <1>1, <1>3 DEF ImageOK, Fields, Settled, Live, Untabled
  <1>6. \A g \in FrameSet : g = Top => FrameOK(g)'
    BY <1>1, <1>2, <1>3 DEF FrameOK, FrameUses, FrameDid, FrameUndid, Live
  <1>7. n = 0 \/ UserFrame(stack[n])
    BY <1>2, BelowTop
  <1>8. stack'[n + 1] = Top /\ Len(stack') = n + 1
    BY <1>1, <1>2 DEF Top
  <1>9. Kept(n) /\ NewTop(n)
    BY <1>1, <1>3, <1>6, <1>7, <1>8 DEF Kept, NewTop
  <1>10. \A d \in n + 1..Len(stack) : stack[d].op # "unload"
    BY <1>2 DEF Top
  <1> HIDE DEF n
  <1> QED BY <1>1, <1>2, <1>3, <1>4, <1>5, <1>9, <1>10, WorkStep

\* A notification function starts on top of the stack.
LEMMA RegNotify ==
    ASSUME IInv, IInv', RegInv, Notify
    PROVE  RegInv'
  <1> DEFINE f == Frame("notify", NULL, "body")
  <1>1. /\ ~EfiAtRuntime /\ stack' = Append(stack, f)
        /\ UNCHANGED <<image, known, BootImageList, RuntimeImageList, EfiAtRuntime>>
    BY DEF Notify, rest, lists
  <1>2. f \in FrameSet
    <2>1. "notify" \in Op /\ "body" \in Pc /\ NULL \in Image \cup {NULL}
      BY DEF Op, Pc
    <2> QED BY <2>1, FrameTyped
  <1>3. f.op = "notify" /\ f.img = NULL /\ f.parent = NULL
    BY DEF Frame
  <1> HIDE DEF f
  <1>4. \A g \in FrameSet : g = f => FrameOK(g)'
    BY <1>3 DEF FrameOK, FrameUses, FrameDid, FrameUndid
  <1> QED BY <1>1, <1>2, <1>3, <1>4, PushStack

\* Steps that leave all of it alone.
LEMMA RegIdle ==
    ASSUME RegInv, UNCHANGED <<image, known, BootImageList, RuntimeImageList, stack, EfiAtRuntime>>
    PROVE  RegInv'
  <1>1. ListTypes' /\ (Suspended /\ OneParent <=> (Suspended /\ OneParent)')
    BY DEF RegInv, ListTypes, known, Suspended, OneParent
  <1>2. (\A d \in 1..Len(stack) : FrameOK(stack[d])) => (\A d \in 1..Len(stack) : FrameOK(stack[d]))'
    BY DEF FrameOK, FrameUses, FrameDid, FrameUndid, Live, Unlisted, known
  <1>3. (\A i \in Image : ImageOK(i)) => (\A i \in Image : ImageOK(i))'
    BY DEF ImageOK, Fields, Gone, Settled, Live, Untabled, known
  <1> QED BY <1>1, <1>2, <1>3 DEF RegInv, Untabled, Unlisted, known

\* ExitBootServices drops the tables and the stack, and keeps the lists.
LEMMA RegExitBootServices ==
    ASSUME IInv, RegInv, ExitBootServices
    PROVE  RegInv'
  <1>1. /\ EfiAtRuntime' = TRUE /\ ~EfiAtRuntime /\ image' = RtLoaderExitBootServices
        /\ installed' = {} /\ agents' = {} /\ Table' = {}
        /\ UNCHANGED <<BootImageList, RuntimeImageList>>
    BY DEF ExitBootServices, User, lists
  <1>2. ListTypes'
    BY <1>1 DEF RegInv, ListTypes
  <1>3. ASSUME NEW i \in Image, image'[i].state = "freed" PROVE Untabled(i)' /\ Unlisted(i)'
    <2>1. i \notin Range(BootImageList) /\ image[i].state = "freed"
      <3> DEFINE z == [NoImage EXCEPT !.state = "zeroed"]
                 h(j) == image[j].Handle /\ j \notin Range(RuntimeImageList)
      <3>1. z.state = "zeroed"
        BY DEF NoImage
      <3>2. image' = [j \in Image |-> IF j \in Range(BootImageList) THEN z
                                      ELSE [image[j] EXCEPT !.Handle = h(j)]]
        BY <1>1 DEF RtLoaderExitBootServices
      <3> HIDE DEF z, h
      <3>3. image \in [Image -> ImageSet]
        BY DEF IInv, Types
      <3> QED BY <1>3, <3>1, <3>2, <3>3 DEF ImageSet
    <2>2. ImageOK(i) /\ ~image[i].linked
      BY <1>1, <2>1 DEF RegInv, ImageOK, Fields, Live
    <2>3. Unlisted(i)
      <3>1. CASE Settled(i)
        BY <2>2, <3>1 DEF Settled, Unlisted
      <3>2. CASE Gone(i)
        <4>1. PICK d \in 1..Len(stack) : stack[d].op = "unload" /\ stack[d].pc # "unlink" /\ stack[d].img = i
          BY <3>2 DEF Gone
        <4> QED BY <1>1, <4>1 DEF RegInv, FrameOK, FrameUndid
      <3> QED BY <2>2, <3>1, <3>2 DEF ImageOK
    <2> QED BY <1>1, <2>3 DEF Untabled, Unlisted
  <1> QED BY <1>1, <1>2, <1>3 DEF RegInv

-----------------------------------------------------------------------------
(* Theorems *)

\* The firmware starts with its own image alone (load.c:108-149).
LEMMA RegInit ==
    ASSUME Init
    PROVE  RegInv
  <1>1. /\ stack = <<>> /\ ~EfiAtRuntime /\ installed = {Core} /\ agents = {} /\ Table = {Core}
        /\ BootImageList = <<>> /\ RuntimeImageList = <<>>
    BY DEF Init
  <1> DEFINE c == [NoImage EXCEPT !.state = "live", !.Handle = TRUE, !.Started = TRUE]
  <1>2. /\ NoImage.state = "none" /\ ~NoImage.Handle /\ ~NoImage.linked
        /\ c.state = "live" /\ c.Handle /\ ~c.linked
    BY DEF NoImage
  <1>3. image = [i \in Image |-> IF i = Core THEN c ELSE NoImage]
    BY DEF Init
  <1> HIDE DEF c
  <1>4. Len(stack) = 0 /\ Len(BootImageList) = 0 /\ Len(RuntimeImageList) = 0
    BY <1>1
  <1>5. ListTypes
    BY <1>1, <1>4, ImagesAssumption DEF ListTypes, Once
  <1>6. ASSUME NEW i \in Image PROVE ImageOK(i)
    <2>1. Fields(i)
      BY <1>1, <1>2, <1>3 DEF Fields, Live, Untabled
    <2>2. Settled(i)
      BY <1>1, <1>2, <1>3, <1>4 DEF Settled, InList
    <2> QED BY <2>1, <2>2 DEF ImageOK
  <1> QED BY <1>1, <1>4, <1>5, <1>6 DEF RegInv, Suspended, OneParent

\* No step spoils the invariant.
LEMMA RegNext ==
    ASSUME IInv, RegInv, ~Reckless, [Next]_vars
    PROVE  RegInv'
  <1>1. IInv'
    BY NextStep
  <1>2. CASE Service
    <2>1. CASE LoadOpen \/ LoadPe \/ LoadInstall \/ LoadDebug
      BY <1>1, <2>1, RegLoadOpen, RegLoadPe, RegLoadInstall, RegLoadDebug
    <2>2. CASE InternalInstall \/ InternalStart \/ StartDone
      BY <1>1, <2>2, RegInternalInstall, RegInternalStart, RegStartDone
    <2>3. CASE UnloadUnlink \/ UnloadFree
      BY <1>1, <2>3, RegUnloadUnlink, RegUnloadFree
    <2>4. "debug" \in Pc /\ "uninstall" \in Pc /\ "free" \in Pc
      BY DEF Pc
    <2>5. CASE UnloadClose
      <3>1. /\ At("unload", "close") /\ stack' = Goto("debug")
            /\ UNCHANGED <<image, BootImageList, RuntimeImageList, EfiAtRuntime>>
            /\ installed' = installed \ {} /\ agents' = agents \ {Img} /\ Table' = Table \ {}
        BY <2>5 DEF UnloadClose, rest, lists
      <3> QED BY <1>1, <2>4, <3>1, RegUnloadTable
    <2>6. CASE UnloadDebug
      <3>1. /\ At("unload", "debug") /\ stack' = Goto("uninstall")
            /\ UNCHANGED <<image, BootImageList, RuntimeImageList, EfiAtRuntime>>
            /\ installed' = installed \ {} /\ agents' = agents \ {} /\ Table' = Table \ {Img}
        BY <2>6 DEF UnloadDebug, DeleteDebugImageInfoEntry, rest, lists
      <3> QED BY <1>1, <2>4, <3>1, RegUnloadTable
    <2>7. CASE UnloadUninstall
      <3>1. /\ At("unload", "uninstall") /\ stack' = Goto("free")
            /\ UNCHANGED <<image, BootImageList, RuntimeImageList, EfiAtRuntime>>
            /\ installed' = installed \ {Img} /\ agents' = agents \ {} /\ Table' = Table \ {}
        BY <2>7 DEF UnloadUninstall, rest, lists
      <3> QED BY <1>1, <2>4, <3>1, RegUnloadTable
    <2> QED BY <1>2, <2>1, <2>2, <2>3, <2>5, <2>6, <2>7 DEF Service
  <1>3. CASE UserReturns
    <2>1. CASE EntryReturns \/ StartConnected \/ Asked
      BY <1>1, <2>1, RegEntryReturns, RegStartConnected, RegAsked
    <2>2. CASE NotifyReturns
      <3>1. /\ At("notify", "body") /\ "notify" \in Op \ {"unload"} /\ Return
            /\ UNCHANGED <<image, known, BootImageList, RuntimeImageList, EfiAtRuntime>>
        BY <2>2 DEF NotifyReturns, Op, rest, lists
      <3> QED BY <1>1, <3>1, ReturnStack
    <2> QED BY <1>3, <2>1, <2>2 DEF UserReturns
  <1>4. CASE UserCalls
    <2>1. ASSUME NEW i \in Image,
                 LoadImage(i) \/ FwLoadInternal(i) \/ StartImage(i) \/ Exit(i) \/ BSUnloadImage(i) \/ OpenProtocol(i)
          PROVE  RegInv'
      BY <1>1, <2>1, RegLoadImage, RegFwLoadInternal, RegStartImage, RegExit, RegBSUnloadImage, RegOpenProtocol
    <2>2. ASSUME NEW i \in Runtime, Assign(i) PROVE RegInv'
      BY <2>2, RegIdle DEF Assign, boot, lists
    <2>3. CASE ExitBootServices
      BY <2>3, RegExitBootServices
    <2> QED BY <1>4, <2>1, <2>2, <2>3 DEF UserCalls
  <1>5. CASE Notify
    BY <1>1, <1>5, RegNotify
  <1>6. CASE OperatingSystem
    <2>1. UNCHANGED boot
      BY <1>6 DEF OperatingSystem, SetVirtualAddressMap, DriversConvert, RtLoaderVirtualAddressFixup
    <2> QED BY <2>1, RegIdle DEF boot, lists
  <1>7. CASE UNCHANGED vars
    BY <1>7, RegIdle DEF vars, boot, lists
  <1> QED BY <1>2, <1>3, <1>4, <1>5, <1>6, <1>7 DEF Next

\* On a list without repetitions an image has one place or none.
LEMMA CountOnce ==
    ASSUME NEW S, NEW list \in Seq(S), Once(list), NEW i
    PROVE  Cardinality({n \in DOMAIN list : list[n] = i}) = IF InList(list, i) THEN 1 ELSE 0
  <1> DEFINE P == {n \in DOMAIN list : list[n] = i}
  <1>1. DOMAIN list = 1..Len(list)
    OBVIOUS
  <1>2. CASE InList(list, i)
    <2>1. PICK k \in 1..Len(list) : list[k] = i
      BY <1>2 DEF InList
    <2>2. P = {k}
      BY <1>1, <2>1 DEF Once
    <2> QED BY <1>2, <2>2, FS_Singleton
  <1>3. CASE ~InList(list, i)
    <2>1. P = {}
      BY <1>1, <1>3 DEF InList
    <2> QED BY <1>3, <2>1, FS_EmptySet
  <1> QED BY <1>2, <1>3

\* Registry: a freed image is in no table, on no list and in no call, and an image
\* that is loaded is once on the list of its kind and has its protocols installed,
\* whatever LoadImage, StartImage, Exit and UnloadImage did and in whatever order
\* they failed (load.c:433-483, 668-795).
THEOREM RegistryKept == ASSUME ~Reckless PROVE Spec => []Registry
<1>1. Init => IInv /\ RegInv
  BY InitInv, RegInit
<1>2. IInv /\ RegInv /\ [Next]_vars => (IInv /\ RegInv)'
  BY NextStep, RegNext
<1>3. IInv /\ RegInv => NothingStale
  <2> SUFFICES ASSUME IInv, RegInv, NEW i \in Image, image[i].state = "freed"
               PROVE  /\ i \notin installed \cup agents \cup Table
                      /\ i \notin Range(BootImageList) \cup Range(RuntimeImageList)
                      /\ ~Busy(i)
    BY DEF NothingStale
  <2>1. /\ i \in Range(BootImageList) <=> InList(BootImageList, i)
        /\ i \in Range(RuntimeImageList) <=> InList(RuntimeImageList, i)
    BY DEF Range, InList, RegInv, ListTypes
  <2>2. CASE EfiAtRuntime
    <3>1. stack = <<>>
      BY <2>2 DEF IInv, Ended
    <3>2. ~Busy(i)
      BY <3>1 DEF Busy
    <3> QED BY <2>1, <2>2, <3>2 DEF RegInv, Untabled, Unlisted
  <2>3. CASE ~EfiAtRuntime
    <3>1. ImageOK(i) /\ ~image[i].linked /\ Untabled(i)
      BY <2>3 DEF RegInv, ImageOK, Fields, Live
    <3>2. ASSUME NEW d \in 1..Len(stack) PROVE i \notin {stack[d].img, stack[d].parent}
      <4>1. FrameOK(stack[d]) /\ (stack[d].op # "notify" => stack[d].img \in Image)
        BY <2>3 DEF RegInv, IInv, Types
      <4>2. i # NULL
        BY ImagesAssumption
      <4> QED BY <4>1, <4>2 DEF FrameOK, FrameUses, Live
    <3>3. ~Gone(i)
      BY <3>2 DEF Gone
    <3>4. Unlisted(i)
      BY <3>1, <3>3 DEF ImageOK, Settled, Unlisted
    <3>5. ~Busy(i)
      BY <3>2 DEF Busy, IInv, Types
    <3> QED BY <2>1, <3>1, <3>4, <3>5 DEF Untabled, Unlisted
  <2> QED BY <2>2, <2>3
<1>4. IInv /\ RegInv => Registered
  <2> SUFFICES ASSUME IInv, RegInv, ~EfiAtRuntime, NEW i \in Image, image[i].state = "live", ~InTransit(i)
               PROVE  /\ Cardinality({n \in DOMAIN BootImageList : BootImageList[n] = i})
                           = IF image[i].linked /\ Kind[i] = "boot" THEN 1 ELSE 0
                      /\ Cardinality({n \in DOMAIN RuntimeImageList : RuntimeImageList[n] = i})
                           = IF image[i].linked /\ Kind[i] = "rt" THEN 1 ELSE 0
                      /\ i \in Table => image[i].Handle
                      /\ image[i].Handle => i \in installed
    BY DEF Registered
  <2>1. ImageOK(i) /\ ~Gone(i)
    BY DEF RegInv, InTransit, Gone, IInv, Types
  <2>2. Settled(i) /\ Fields(i)
    BY <2>1 DEF ImageOK
  <2>3. /\ Cardinality({n \in DOMAIN BootImageList : BootImageList[n] = i}) = IF InList(BootImageList, i) THEN 1 ELSE 0
        /\ Cardinality({n \in DOMAIN RuntimeImageList : RuntimeImageList[n] = i}) = IF InList(RuntimeImageList, i) THEN 1 ELSE 0
    BY CountOnce DEF RegInv, ListTypes
  <2> QED BY <2>2, <2>3 DEF Settled, Fields, Untabled
<1>5. IInv /\ RegInv => Registry
  BY <1>3, <1>4 DEF Registry
<1> QED BY <1>1, <1>2, <1>5, PTL DEF Spec

-----------------------------------------------------------------------------
(* The inductive invariant for the pointers of runtime images *)

Pointer == [base : Int, word : Int, FixupData : Int, means : Nat]

\* What the relocation left, and the driver may have changed.
AsLoaded(p, i) == p.base = Base[i] /\ p.FixupData = Base[i] + 1 /\ p.means \in {Base[i] + 1, Heap}

PointerInv ==
    /\ \A i \in Image : InList(RuntimeImageList, i) => i \in Runtime
    /\ stage \in {"physical", "notified", "converted", "virtual"}
    /\ stage # "physical" =>
         /\ EfiAtRuntime
         /\ \E map \in VirtualMaps : Accepted(map) /\ VirtualStart = Applied(map)
    /\ pointer \in [Runtime -> Pointer]
    /\ stage \in {"physical", "notified"} => \A i \in Runtime : AsLoaded(pointer[i], i) /\ pointer[i].word = pointer[i].means
    /\ stage = "converted" => \A i \in Runtime : InList(RuntimeImageList, i) =>
         /\ AsLoaded(pointer[i], i)
         /\ \/ pointer[i].word = RtConvertPointer(VirtualStart, pointer[i].means)
            \/ pointer[i].word = pointer[i].FixupData /\ pointer[i].means = pointer[i].FixupData
    /\ stage = "virtual" => \A i \in Runtime : InList(RuntimeImageList, i) =>
        /\ pointer[i].base = RtConvertPointer(VirtualStart, Base[i])
        /\ pointer[i].word = RtConvertPointer(VirtualStart, pointer[i].means)

\* The memory map and the maps of the operating system are tables of numbers.
LEMMA MapTypes ==
    /\ DOMAIN MemoryMap = 1..Len(MemoryMap) /\ DOMAIN MemoryMap \subseteq Nat
    /\ \A k \in DOMAIN MemoryMap : MemoryMap[k].Start \in Nat /\ MemoryMap[k].End \in Nat
    /\ \A map \in VirtualMaps : \A j \in DOMAIN map : map[j].PhysicalStart \in Nat /\ map[j].VirtualStart \in Nat
  <1> DEFINE D == [Start : Nat, End : Nat, runtime : BOOLEAN]
             E == [PhysicalStart : Nat, NumberOfPages : Nat, VirtualStart : Nat]
  <1>1. \A e \in D : e.Start \in Nat /\ e.End \in Nat
    OBVIOUS
  <1>2. \A e \in E : e.PhysicalStart \in Nat /\ e.VirtualStart \in Nat
    OBVIOUS
  <1>3. MemoryMap \in Seq(D) /\ \A map \in VirtualMaps : map \in Seq(E)
    BY MapAssumption
  <1> HIDE DEF D, E
  <1>4. \A k \in DOMAIN MemoryMap : MemoryMap[k] \in D
    BY <1>3
  <1>5. \A map \in VirtualMaps : \A j \in DOMAIN map : map[j] \in E
    BY <1>3
  <1>6. DOMAIN MemoryMap = 1..Len(MemoryMap) /\ DOMAIN MemoryMap \subseteq Nat
    BY <1>3
  <1> QED BY <1>1, <1>2, <1>4, <1>5, <1>6

\* An address is in one descriptor at most.
LEMMA OneDescriptor ==
    ASSUME NEW k \in DOMAIN MemoryMap, NEW l \in DOMAIN MemoryMap, NEW a \in Addresses(k), a \in Addresses(l)
    PROVE  k = l
  <1>1. k \in Nat /\ l \in Nat
    BY MapTypes
  <1>2. /\ MemoryMap[k].Start \in Nat /\ MemoryMap[k].End \in Nat
        /\ MemoryMap[l].Start \in Nat /\ MemoryMap[l].End \in Nat
    BY MapTypes
  <1>3. k < l => MemoryMap[k].End < MemoryMap[l].Start
    BY MapAssumption
  <1>4. l < k => MemoryMap[l].End < MemoryMap[k].Start
    BY MapAssumption
  <1> QED BY <1>1, <1>2, <1>3, <1>4 DEF Addresses

\* The virtual addresses are numbers.
LEMMA AppliedType ==
    ASSUME NEW map \in VirtualMaps
    PROVE  Applied(map) \in [DOMAIN MemoryMap -> Nat]
  <1> SUFFICES ASSUME NEW k \in DOMAIN MemoryMap
               PROVE  Applied(map)[k] \in Nat
    BY DEF Applied
  <1> DEFINE entries == {j \in DOMAIN map : Captures(map[j], k)}
             j == Max(entries)
  <1>1. CASE entries = {}
    BY <1>1 DEF Applied
  <1>2. CASE entries # {}
    <2>1. DOMAIN map = 1..Len(map) /\ Len(map) \in Nat
      BY MapAssumption
    <2>2. entries \in SUBSET Nat /\ \A x \in entries : x <= Len(map)
      BY <2>1
    <2>3. j \in entries
      <3> HIDE DEF entries
      <3> QED BY <1>2, <2>1, <2>2, MaxFacts
    <2>4. Captures(map[j], k) /\ j \in DOMAIN map
      BY <2>3
    <2>5. Applied(map)[k] = map[j].VirtualStart + MemoryMap[k].Start - map[j].PhysicalStart
      BY <1>2 DEF Applied
    <2> HIDE DEF j
    <2>6. map[j].PhysicalStart \in Nat /\ map[j].VirtualStart \in Nat
      BY <2>4, MapTypes
    <2>7. Covered(map[j]) # {} /\ k = Min(Covered(map[j]))
      BY <2>4 DEF Captures
    <2>8. Covered(map[j]) \subseteq Nat
      <3>1. DOMAIN MemoryMap \subseteq Nat
        BY MapTypes
      <3> QED BY <3>1 DEF Covered
    <2>9. k \in Covered(map[j])
      BY <2>7, <2>8, MinFacts
    <2>10. MemoryMap[k].Start >= map[j].PhysicalStart
      BY <2>9 DEF Covered
    <2>11. MemoryMap[k].Start \in Nat
      BY MapTypes
    <2> QED BY <2>5, <2>6, <2>10, <2>11
  <1> QED BY <1>1, <1>2

\* A pointer moves with the descriptor it is in.
LEMMA Converted ==
    ASSUME NEW map \in VirtualMaps, NEW k \in DOMAIN MemoryMap, NEW a \in Addresses(k)
    PROVE  /\ RtConvertPointer(Applied(map), a) = a - MemoryMap[k].Start + Applied(map)[k]
           /\ RtConvertPointer(Applied(map), a) \in Int
  <1>1. k = CHOOSE l \in DOMAIN MemoryMap : a \in Addresses(l)
    BY OneDescriptor
  <1>2. RtConvertPointer(Applied(map), a) = a - MemoryMap[k].Start + Applied(map)[k]
    BY <1>1 DEF RtConvertPointer
  <1>3. MemoryMap[k].Start \in Nat /\ a \in Int
    BY MapTypes DEF Addresses
  <1>4. Applied(map)[k] \in Nat
    BY AppliedType
  <1> QED BY <1>2, <1>3, <1>4

\* An image and the word behind its base move together.
LEMMA ImageMoves ==
    ASSUME NEW map \in VirtualMaps, NEW i \in Runtime
    PROVE  /\ Base[i] \in Nat
           /\ RtConvertPointer(Applied(map), Base[i]) \in Int
           /\ RtConvertPointer(Applied(map), Base[i] + 1) = RtConvertPointer(Applied(map), Base[i]) + 1
           /\ RtConvertPointer(Applied(map), Heap) \in Int
  <1>1. PICK k \in DOMAIN MemoryMap : Base[i] \in Addresses(k) /\ Base[i] + 1 \in Addresses(k)
    BY RuntimeAssumption
  <1>2. Base[i] \in Nat
    BY RuntimeAssumption
  <1>3. /\ RtConvertPointer(Applied(map), Base[i]) = Base[i] - MemoryMap[k].Start + Applied(map)[k]
        /\ RtConvertPointer(Applied(map), Base[i] + 1) = (Base[i] + 1) - MemoryMap[k].Start + Applied(map)[k]
        /\ RtConvertPointer(Applied(map), Base[i]) \in Int
    <2>1. \A a \in Addresses(k) :
            /\ RtConvertPointer(Applied(map), a) = a - MemoryMap[k].Start + Applied(map)[k]
            /\ RtConvertPointer(Applied(map), a) \in Int
      BY Converted
    <2> QED BY <1>1, <2>1
  <1>4. MemoryMap[k].Start \in Nat /\ Applied(map)[k] \in Nat
    BY MapTypes, AppliedType
  <1>5. RtConvertPointer(Applied(map), Heap) \in Int
    BY RuntimeAssumption, Converted
  <1> QED BY <1>2, <1>3, <1>4, <1>5

-----------------------------------------------------------------------------
(* The steps *)

\* The switch has not begun, or the pointers are as they were.
LEMMA PointersIdle ==
    ASSUME PointerInv, UNCHANGED virtual, EfiAtRuntime => EfiAtRuntime',
           \A i \in Image : InList(RuntimeImageList', i) => InList(RuntimeImageList, i)
    PROVE  PointerInv'
  <1>1. stage' = stage /\ VirtualStart' = VirtualStart /\ pointer' = pointer
    BY DEF virtual
  <1>2. \A i \in Runtime : i \in Image
    BY DEF Runtime
  <1> QED BY <1>1, <1>2 DEF PointerInv, AsLoaded, InList

\* Before the switch a runtime image's record is the loader's or its driver's.
LEMMA PointersWritten ==
    ASSUME PointerInv, stage = "physical", stage' = stage, pointer' \in [Runtime -> Pointer],
           \A i \in Runtime : AsLoaded(pointer'[i], i) /\ pointer'[i].word = pointer'[i].means,
           \A i \in Image : InList(RuntimeImageList', i) => i \in Runtime
    PROVE  PointerInv'
  BY DEF PointerInv, AsLoaded, InList

\* What the loader writes.
LEMMA PlacedFacts ==
    ASSUME NEW i \in Runtime
    PROVE  Placed(i) \in Pointer /\ AsLoaded(Placed(i), i) /\ Placed(i).word = Placed(i).means
  BY RuntimeAssumption DEF Placed, AsLoaded, Pointer

\* At first nothing is listed.
LEMMA PointersInit ==
    ASSUME Init
    PROVE  PointerInv
  <1>1. /\ Len(RuntimeImageList) = 0 /\ stage = "physical"
        /\ pointer = [i \in Runtime |-> Placed(i)]
    BY DEF Init
  <1>2. \A i \in Image : ~InList(RuntimeImageList, i)
    BY <1>1 DEF InList
  <1>3. pointer \in [Runtime -> Pointer]
    BY <1>1, PlacedFacts
  <1>4. \A i \in Runtime : AsLoaded(pointer[i], i) /\ pointer[i].word = pointer[i].means
    BY <1>1, PlacedFacts
  <1> QED BY <1>1, <1>2, <1>3, <1>4 DEF PointerInv

\* LoadImage puts runtime images on their list, relocated.
LEMMA PointersLoadPe ==
    ASSUME IInv, RegInv, PointerInv, LoadPe
    PROVE  PointerInv'
  <1>1. At("load", "pe") /\ "load" \in Op
    BY DEF LoadPe, Op
  <1>2. ~EfiAtRuntime /\ Img \in Image /\ EfiAtRuntime' = EfiAtRuntime /\ stage' = stage /\ VirtualStart' = VirtualStart
    BY <1>1, AtFacts DEF LoadPe
  <1>3. stage = "physical"
    BY <1>2 DEF PointerInv
  <1>4. CASE UNCHANGED <<RuntimeImageList, pointer>>
    BY <1>2, <1>4, PointersIdle DEF virtual
  <1>5. CASE RuntimeImageList' = Listed(RuntimeImageList, "rt", Img)
             /\ pointer' = (IF Kind[Img] = "rt" THEN [pointer EXCEPT ![Img] = Placed(Img)] ELSE pointer)
    <2>1. CASE Kind[Img] # "rt"
      BY <1>2, <1>5, <2>1, PointersIdle DEF Listed, virtual
    <2>2. CASE Kind[Img] = "rt"
      <3>1. Img \in Runtime
        BY <1>2, <2>2 DEF Runtime
      <3>2. PICK i \in Runtime : i = Img
        BY <3>1
      <3>3. pointer' = [pointer EXCEPT ![i] = Placed(i)] /\ RuntimeImageList' = Append(RuntimeImageList, i)
        BY <1>5, <2>2, <3>2 DEF Listed
      <3>4. pointer \in [Runtime -> Pointer]
        BY DEF PointerInv
      <3>5. pointer' \in [Runtime -> Pointer]
        BY <3>3, <3>4, PlacedFacts
      <3>6. \A j \in Runtime : pointer'[j] = IF j = i THEN Placed(i) ELSE pointer[j]
        BY <3>3, <3>4
      <3>7. \A j \in Runtime : AsLoaded(pointer'[j], j) /\ pointer'[j].word = pointer'[j].means
        <4>1. \A j \in Runtime : AsLoaded(pointer[j], j) /\ pointer[j].word = pointer[j].means
          BY <1>3 DEF PointerInv
        <4> QED BY <3>6, <4>1, PlacedFacts
      <3>8. \A j \in Image : InList(RuntimeImageList', j) => j \in Runtime
        <4>1. RuntimeImageList \in Seq(Image)
          BY DEF RegInv, ListTypes
        <4>2. ASSUME NEW j, InList(Append(RuntimeImageList, i), j) PROVE InList(RuntimeImageList, j) \/ j = i
          <5>1. PICK n \in 1..Len(Append(RuntimeImageList, i)) : Append(RuntimeImageList, i)[n] = j
            BY <4>2 DEF InList
          <5> QED BY <4>1, <5>1 DEF InList
        <4> QED BY <3>3, <4>2 DEF PointerInv
      <3> QED BY <1>2, <1>3, <3>5, <3>7, <3>8, PointersWritten
    <2> QED BY <2>1, <2>2
  <1> QED BY <1>4, <1>5 DEF LoadPe

\* UnloadImage takes images off their list.
LEMMA PointersUnloadUnlink ==
    ASSUME IInv, RegInv, PointerInv, UnloadUnlink
    PROVE  PointerInv'
  <1>1. RuntimeImageList \in Seq(Image) /\ Once(RuntimeImageList)
    BY DEF RegInv, ListTypes
  <1>2. \A i \in Image : InList(Unlinked(RuntimeImageList), i) => InList(RuntimeImageList, i)
    BY <1>1, RemoveOnce DEF Unlinked
  <1>3. RuntimeImageList' = Unlinked(RuntimeImageList)
    BY DEF UnloadUnlink
  <1> QED BY <1>2, <1>3, PointersIdle DEF UnloadUnlink, rest

\* The memory of a freed image is what the loader will make of it again.
LEMMA PointersUnloadFree ==
    ASSUME IInv, PointerInv, UnloadFree
    PROVE  PointerInv'
  <1>1. At("unload", "free") /\ "unload" \in Op
    BY DEF UnloadFree, Op
  <1>2. ~EfiAtRuntime /\ stage' = stage /\ RuntimeImageList' = RuntimeImageList
        /\ pointer' = [i \in Runtime |-> IF i = Img THEN Placed(i) ELSE pointer[i]]
    BY <1>1, AtFacts DEF UnloadFree, lists
  <1>3. stage = "physical" /\ pointer \in [Runtime -> Pointer]
    BY <1>2 DEF PointerInv
  <1>4. \A i \in Runtime : pointer'[i] = IF i = Img THEN Placed(i) ELSE pointer[i]
    BY <1>2
  <1>5. \A i \in Runtime : pointer'[i] \in Pointer
    BY <1>3, <1>4, PlacedFacts
  <1>6. \A i \in Runtime : AsLoaded(pointer'[i], i) /\ pointer'[i].word = pointer'[i].means
    <2>1. \A i \in Runtime : AsLoaded(pointer[i], i) /\ pointer[i].word = pointer[i].means
      BY <1>3 DEF PointerInv
    <2> QED BY <1>4, <2>1, PlacedFacts
  <1>7. pointer' \in [Runtime -> Pointer]
    BY <1>2, <1>5
  <1> QED BY <1>2, <1>3, <1>6, <1>7, PointersWritten DEF PointerInv

\* A driver stores another pointer in its word.
LEMMA PointersAssign ==
    ASSUME IInv, PointerInv, NEW i \in Runtime, Assign(i)
    PROVE  PointerInv'
  <1>1. ~EfiAtRuntime /\ stage' = stage /\ RuntimeImageList' = RuntimeImageList
        /\ pointer' = [pointer EXCEPT ![i].word = Heap, ![i].means = Heap]
    BY DEF Assign, User, boot, lists
  <1>2. stage = "physical" /\ pointer \in [Runtime -> Pointer]
    BY <1>1 DEF PointerInv
  <1> DEFINE r == [pointer[i] EXCEPT !.word = Heap, !.means = Heap]
  <1>3. \A j \in Runtime : AsLoaded(pointer[j], j) /\ pointer[j].word = pointer[j].means
    BY <1>2 DEF PointerInv
  <1>4. r \in Pointer /\ AsLoaded(r, i) /\ r.word = r.means
    <2>1. pointer[i] \in Pointer /\ AsLoaded(pointer[i], i)
      BY <1>2, <1>3
    <2>2. Heap \in Nat
      BY RuntimeAssumption
    <2>3. /\ r \in Pointer /\ r.word = Heap /\ r.means = Heap
          /\ r.base = pointer[i].base /\ r.FixupData = pointer[i].FixupData
      <3>1. ASSUME NEW p \in Pointer, NEW q, q = [p EXCEPT !.word = Heap, !.means = Heap]
            PROVE  /\ q \in Pointer /\ q.word = Heap /\ q.means = Heap
                   /\ q.base = p.base /\ q.FixupData = p.FixupData
        <4>1. q = [base |-> p.base, word |-> Heap, FixupData |-> p.FixupData, means |-> Heap]
          BY <3>1 DEF Pointer
        <4> QED BY <2>2, <4>1 DEF Pointer
      <3> QED BY <2>1, <3>1
    <2> QED BY <2>1, <2>3 DEF AsLoaded
  <1>5. pointer' = [pointer EXCEPT ![i] = r]
    BY <1>1, <1>2
  <1> HIDE DEF r
  <1>6. pointer' \in [Runtime -> Pointer] /\ \A j \in Runtime : pointer'[j] = IF j = i THEN r ELSE pointer[j]
    BY <1>2, <1>4, <1>5
  <1>7. \A j \in Runtime : AsLoaded(pointer'[j], j) /\ pointer'[j].word = pointer'[j].means
    BY <1>3, <1>4, <1>6
  <1> QED BY <1>1, <1>2, <1>6, <1>7, PointersWritten DEF PointerInv

\* The map is applied, and no pointer is converted yet.
LEMMA PointersSetMap ==
    ASSUME PointerInv, NEW map \in VirtualMaps, SetVirtualAddressMap(map)
    PROVE  PointerInv'
  <1>1. /\ EfiAtRuntime /\ EfiAtRuntime' /\ stage = "physical" /\ stage' = "notified" /\ Accepted(map)
        /\ VirtualStart' = Applied(map) /\ pointer' = pointer /\ RuntimeImageList' = RuntimeImageList
    BY DEF SetVirtualAddressMap, boot, lists
  <1> QED BY <1>1 DEF PointerInv, AsLoaded, InList

\* The drivers convert what they assigned, and any of the words that are relocated.
LEMMA PointersDrivers ==
    ASSUME PointerInv, RegInv, DriversConvert
    PROVE  PointerInv'
  <1> DEFINE L == Range(RuntimeImageList)
  <1>1. /\ stage = "notified" /\ stage' = "converted" /\ VirtualStart' = VirtualStart
        /\ EfiAtRuntime' = EfiAtRuntime /\ RuntimeImageList' = RuntimeImageList
    BY DEF DriversConvert, boot, lists
  <1>2. PICK all \in SUBSET L :
            pointer' = [i \in Runtime |->
                IF i \in L /\ (i \in all \/ pointer[i].word # pointer[i].FixupData)
                THEN Converts(pointer[i]) ELSE pointer[i]]
    BY DEF DriversConvert
  <1>3. PICK map \in VirtualMaps : Accepted(map) /\ VirtualStart = Applied(map)
    BY <1>1 DEF PointerInv
  <1>4. /\ EfiAtRuntime /\ pointer \in [Runtime -> Pointer]
        /\ \A i \in Runtime : AsLoaded(pointer[i], i) /\ pointer[i].word = pointer[i].means
    BY <1>1 DEF PointerInv
  <1>5. \A i : i \in L <=> InList(RuntimeImageList, i)
    BY DEF Range, InList, RegInv, ListTypes
  <1> HIDE DEF L
  <1>6. ASSUME NEW i \in Runtime
        PROVE  /\ pointer'[i] \in Pointer /\ AsLoaded(pointer'[i], i) /\ pointer'[i].means = pointer[i].means
               /\ InList(RuntimeImageList, i) =>
                    \/ pointer'[i].word = RtConvertPointer(VirtualStart, pointer'[i].means)
                    \/ pointer'[i].word = pointer'[i].FixupData /\ pointer'[i].means = pointer'[i].FixupData
    <2> DEFINE p == pointer[i]
               q == Converts(p)
    <2>1. p \in Pointer /\ AsLoaded(p, i) /\ p.word = p.means
      BY <1>4
    <2>2. RtConvertPointer(VirtualStart, p.word) \in Int
      <3>1. p.word = Base[i] + 1 \/ p.word = Heap
        BY <2>1 DEF AsLoaded
      <3>2. RtConvertPointer(VirtualStart, Base[i] + 1) \in Int /\ RtConvertPointer(VirtualStart, Heap) \in Int
        BY <1>3, ImageMoves
      <3> QED BY <3>1, <3>2
    <2>3. /\ q \in Pointer /\ q.word = RtConvertPointer(VirtualStart, p.word)
          /\ q.base = p.base /\ q.FixupData = p.FixupData /\ q.means = p.means
      <3> DEFINE w == RtConvertPointer(VirtualStart, p.word)
      <3>1. q = [p EXCEPT !.word = w]
        BY DEF Converts
      <3>2. w \in Int
        BY <2>2
      <3> HIDE DEF w, p, q
      <3>3. /\ q \in Pointer /\ q.word = w
            /\ q.base = p.base /\ q.FixupData = p.FixupData /\ q.means = p.means
        BY <2>1, <3>1, <3>2 DEF Pointer
      <3> QED BY <3>3 DEF w
    <2>4. pointer'[i] = IF i \in L /\ (i \in all \/ p.word # p.FixupData) THEN q ELSE p
      BY <1>2
    <2> HIDE DEF p, q
    <2>5. pointer[i] = p
      BY DEF p
    <2>6. CASE i \in L /\ (i \in all \/ p.word # p.FixupData)
      BY <2>1, <2>3, <2>4, <2>5, <2>6 DEF AsLoaded
    <2>7. CASE ~(i \in L /\ (i \in all \/ p.word # p.FixupData))
      BY <1>5, <2>1, <2>4, <2>5, <2>7
    <2> QED BY <2>6, <2>7
  <1>7. pointer' \in [Runtime -> Pointer]
    <2>1. \A i \in Runtime : pointer'[i] \in Pointer
      BY <1>6
    <2> QED BY <1>2, <2>1
  <1>8. \A i : InList(RuntimeImageList', i) <=> InList(RuntimeImageList, i)
    BY <1>1 DEF InList
  <1> QED BY <1>1, <1>3, <1>4, <1>6, <1>7, <1>8 DEF PointerInv, AsLoaded

\* The fixup converts the words that nobody has converted, and every base.
LEMMA PointersFixup ==
    ASSUME MapsApart, PointerInv, RegInv, RtLoaderVirtualAddressFixup
    PROVE  PointerInv'
  <1> DEFINE L == Range(RuntimeImageList)
  <1>1. /\ stage = "converted" /\ stage' = "virtual" /\ VirtualStart' = VirtualStart
        /\ EfiAtRuntime' = EfiAtRuntime /\ RuntimeImageList' = RuntimeImageList
        /\ pointer' = [i \in Runtime |->
                IF i \in L
                THEN [ConvertPeImage(pointer[i]) EXCEPT !.base = RtConvertPointer(VirtualStart, @)]
                ELSE pointer[i]]
    BY DEF RtLoaderVirtualAddressFixup, boot, lists
  <1>2. PICK map \in VirtualMaps : Accepted(map) /\ VirtualStart = Applied(map)
    BY <1>1 DEF PointerInv
  <1>3. EfiAtRuntime /\ pointer \in [Runtime -> Pointer]
    BY <1>1 DEF PointerInv
  <1>4. \A i : i \in L <=> InList(RuntimeImageList, i)
    BY DEF Range, InList, RegInv, ListTypes
  <1> HIDE DEF L
  <1>5. ASSUME NEW i \in Runtime, i \in L
        PROVE  /\ pointer'[i] \in Pointer
               /\ pointer'[i].base = RtConvertPointer(VirtualStart, Base[i])
               /\ pointer'[i].word = RtConvertPointer(VirtualStart, pointer'[i].means)
    <2> DEFINE p == pointer[i]
               q == ConvertPeImage(p)
               moved == RtConvertPointer(VirtualStart, Base[i])
               conv == RtConvertPointer(VirtualStart, p.means)
    <2>1. p \in Pointer /\ AsLoaded(p, i) /\ (p.word = conv \/ (p.word = p.FixupData /\ p.means = p.FixupData))
      BY <1>1, <1>3, <1>4, <1>5 DEF PointerInv
    <2>2. Base[i] \in Nat /\ moved \in Int /\ RtConvertPointer(VirtualStart, Base[i] + 1) = moved + 1
          /\ RtConvertPointer(VirtualStart, Heap) \in Int
      BY <1>2, ImageMoves
    <2>3. p.base = Base[i] /\ p.FixupData = Base[i] + 1 /\ p.means \in {Base[i] + 1, Heap}
      BY <2>1 DEF AsLoaded
    <2>4. conv = Base[i] + 1 => moved = Base[i]
      <3>1. CASE p.means = Base[i] + 1
        BY <2>2, <3>1
      <3>2. CASE p.means = Heap
        BY <1>2, <3>2 DEF MapsApart, Placed
      <3> QED BY <2>3, <3>1, <3>2
    <2>5. conv \in Int /\ (p.means = Base[i] + 1 => conv = moved + 1)
      BY <2>2, <2>3
    <2>6. q = IF p.word = p.FixupData THEN [p EXCEPT !.word = @ + moved - Base[i]] ELSE p
      BY <2>3 DEF ConvertPeImage
    <2>7. pointer'[i] = [q EXCEPT !.base = RtConvertPointer(VirtualStart, @)]
      BY <1>1, <1>5
    <2> HIDE DEF p, q, moved, conv
    <2>8. q \in Pointer /\ q.base = Base[i] /\ q.means = p.means /\ q.word = conv
      <3>1. CASE p.word = p.FixupData
        <4> DEFINE w == p.word + moved - Base[i]
        <4>1. w \in Int /\ w = conv
          <5>1. p.word = Base[i] + 1
            BY <2>3, <3>1
          <5>2. CASE p.word = conv
            BY <2>2, <2>4, <5>1, <5>2
          <5>3. CASE p.means = p.FixupData
            BY <2>2, <2>3, <2>5, <5>1, <5>3
          <5>4. w \in Int
            BY <2>2, <5>1
          <5> QED BY <2>1, <5>2, <5>3, <5>4
        <4>2. q = [p EXCEPT !.word = w]
          BY <2>6, <3>1
        <4> HIDE DEF w
        <4>3. q \in Pointer /\ q.word = w /\ q.base = p.base /\ q.means = p.means
          BY <2>1, <4>1, <4>2 DEF Pointer
        <4> QED BY <2>3, <4>1, <4>3
      <3>2. CASE p.word # p.FixupData
        BY <2>1, <2>3, <2>6, <3>2
      <3> QED BY <3>1, <3>2
    <2>9. pointer'[i] = [q EXCEPT !.base = moved]
      BY <2>7, <2>8 DEF moved
    <2>10. /\ pointer'[i] \in Pointer /\ pointer'[i].base = moved
           /\ pointer'[i].word = q.word /\ pointer'[i].means = q.means
      <3>1. moved \in Int
        BY <2>2
      <3> QED BY <2>8, <2>9, <3>1 DEF Pointer
    <2> QED BY <2>8, <2>10 DEF moved, conv
  <1>6. \A i \in Runtime : i \notin L => pointer'[i] = pointer[i]
    BY <1>1
  <1>7. pointer' \in [Runtime -> Pointer]
    <2>1. \A i \in Runtime : pointer'[i] \in Pointer
      BY <1>3, <1>5, <1>6
    <2> QED BY <1>1, <2>1
  <1>8. \A i : InList(RuntimeImageList', i) <=> InList(RuntimeImageList, i)
    BY <1>1 DEF InList
  <1> QED BY <1>1, <1>2, <1>3, <1>4, <1>5, <1>7, <1>8 DEF PointerInv

\* No step spoils the invariant.
LEMMA PointersNext ==
    ASSUME MapsApart, IInv, RegInv, PointerInv, [Next]_vars
    PROVE  PointerInv'
  <1>1. CASE Service
    <2>1. CASE LoadPe \/ UnloadUnlink \/ UnloadFree
      BY <2>1, PointersLoadPe, PointersUnloadUnlink, PointersUnloadFree
    <2>2. CASE LoadOpen \/ LoadInstall \/ LoadDebug \/ InternalInstall \/ InternalStart \/ StartDone
      BY <2>2, PointersIdle DEF LoadOpen, LoadInstall, LoadDebug, InternalInstall, InternalStart, Enter, StartDone, rest, lists
    <2>3. CASE UnloadClose \/ UnloadDebug \/ UnloadUninstall
      BY <2>3, PointersIdle DEF UnloadClose, UnloadDebug, UnloadUninstall, rest, lists
    <2> QED BY <1>1, <2>1, <2>2, <2>3 DEF Service
  <1>2. CASE UserReturns
    BY <1>2, PointersIdle DEF UserReturns, EntryReturns, Jump, StartConnected, Asked, NotifyReturns, rest, lists
  <1>3. CASE UserCalls
    <2>1. ASSUME NEW i \in Image, LoadImage(i) \/ FwLoadInternal(i) \/ StartImage(i)
          PROVE  PointerInv'
      BY <2>1, PointersIdle DEF LoadImage, FwLoadInternal, StartImage, Enter, rest, lists
    <2>2. ASSUME NEW i \in Image, Exit(i) \/ BSUnloadImage(i) \/ OpenProtocol(i)
          PROVE  PointerInv'
      <3>1. UNCHANGED <<lists, rest>>
        BY <2>2 DEF Exit, Jump, BSUnloadImage, OpenProtocol
      <3> QED BY <3>1, PointersIdle DEF rest, lists
    <2>3. ASSUME NEW i \in Runtime, Assign(i) PROVE PointerInv'
      BY <2>3, PointersAssign
    <2>4. CASE ExitBootServices
      BY <2>4, PointersIdle DEF ExitBootServices, lists
    <2> QED BY <1>3, <2>1, <2>2, <2>3, <2>4 DEF UserCalls
  <1>4. CASE Notify
    BY <1>4, PointersIdle DEF Notify, rest, lists
  <1>5. CASE OperatingSystem
    BY <1>5, PointersSetMap, PointersDrivers, PointersFixup DEF OperatingSystem
  <1>6. CASE UNCHANGED vars
    BY <1>6, PointersIdle DEF vars, boot, lists
  <1> QED BY <1>1, <1>2, <1>3, <1>4, <1>5, <1>6 DEF Next

\* After SetVirtualAddressMap every pointer of a runtime image was converted
\* exactly once, whichever of the driver, the relocation or both could have done
\* it (pe.c:705-735, load.c:908-928), if the map keeps the pointers apart.
THEOREM PointersKept == ASSUME ~Reckless, MapsApart PROVE Spec => []PointersConverted
<1>1. Init => IInv /\ RegInv /\ PointerInv
  BY InitInv, RegInit, PointersInit
<1>2. IInv /\ RegInv /\ PointerInv /\ [Next]_vars => (IInv /\ RegInv /\ PointerInv)'
  BY NextStep, RegNext, PointersNext
<1>3. RegInv /\ PointerInv => PointersConverted
  <2> SUFFICES ASSUME RegInv, PointerInv, stage = "virtual", NEW i \in Range(RuntimeImageList)
               PROVE  /\ pointer[i].base = RtConvertPointer(VirtualStart, Base[i])
                      /\ pointer[i].word = RtConvertPointer(VirtualStart, pointer[i].means)
    BY DEF PointersConverted
  <2>1. InList(RuntimeImageList, i) /\ i \in Image
    BY DEF Range, InList, RegInv, ListTypes
  <2> QED BY <2>1 DEF PointerInv
<1> QED BY <1>1, <1>2, <1>3, PTL DEF Spec
====
