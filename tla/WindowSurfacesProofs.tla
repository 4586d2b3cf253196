------------------------- MODULE WindowSurfacesProofs -------------------------
(***************************************************************************)
(* Proofs about WindowSurfaces, for any apps, configurations and frames:    *)
(* the types, that a window shows exactly what the last set drew on it      *)
(* (ShowsTheFrame), and that the cursor is shown once (OneCursor).          *)
(*                                                                         *)
(* With composing surfaces the argument is about one set: get_next_layer    *)
(* counts what was committed, so post_processing knows what is left over.   *)
(* Without, the cursor's surface of the full-ui window is emptied in a      *)
(* later set than it was committed in, and as the last one of the window:   *)
(* FullUiInv says how many surfaces there are and that windowKey tells      *)
(* whether the second one shows something.                                  *)
(***************************************************************************)
EXTENDS WindowSurfaces, FiniteSetTheorems, TLAPS

(* What a surface shows.                                                    *)
Contents == {None, "app", Cursor}

(* The windows a frame of mode m leaves open or opens.                      *)
Staying(m) ==
  CASE m = "closed" -> {}
    [] m = "fullUi" -> {FullUi}
    [] m = "single" -> Tasks
    [] m = "multi"  -> Tasks

(* The types, and what a frame may be while the set runs.                   *)
SurfTypes ==
  /\ config \in Configs
  /\ surfaces \in [Keys -> Seq(Contents)]
  /\ lastLayer \in [Keys -> Nat]
  /\ lastBuffer \in [Keys -> Contents]
  /\ committed \in [Keys -> Seq({"app", Cursor})]
  /\ windowKey \in Keys \cup {None}
  /\ under \in Keys \cup {None}
  /\ image \in {None, Cursor}
  /\ next \in Nat
  /\ failures \in Nat
  /\ entered \in BOOLEAN
  /\ reborn \in BOOLEAN
  /\ setPc \in {"idle", "layers", "done"}

FrameFits ==
  /\ snapped \subseteq Open
  /\ under # None => under \in Open
  /\ setPc = "idle" => frame = NoContents /\ next = 1 /\ committed = [k \in Keys |-> << >>]
  /\ setPc # "idle" =>
       /\ frame \in Frames(config)
       /\ 1 <= next /\ next <= Len(frame.layers) + 1
       /\ Open \subseteq Staying(frame.mode)
  /\ setPc = "done" => next = Len(frame.layers) + 1
  /\ \A k \in Keys : lastLayer[k] <= config.apps + 1

(* A window was committed as often as get_next_layer counts.                *)
Counted ==
  setPc # "idle" => \A k \in Keys :
    /\ lastLayer[k] = Len(committed[k])
    /\ lastLayer[k] <= Len(surfaces[k])
    /\ lastLayer[k] < next

(* With composing surfaces, the bottom ones show what was committed, and    *)
(* those left over are emptied.                                             *)
ComposedInv ==
  setPc # "idle" /\ config.composing => \A k \in Keys :
    /\ \A i \in DOMAIN committed[k] : surfaces[k][i] = committed[k][i]
    /\ setPc = "done" /\ frame.geometry /\ committed[k] # << >> =>
         \A i \in DOMAIN surfaces[k] : i > Len(committed[k]) => surfaces[k][i] = None

(* How far a set in full-ui mode without composing is.                      *)
Progress(ls, n, c, w) ==
  \/ n = 1 /\ c = << >>
  \/ ls = <<FullUi>> /\ n = 2 /\ c = <<"app">>
  \/ ls = <<FullUi, Cursor>> /\ n = 2 /\ c = <<"app">>
  \/ ls = <<FullUi, Cursor>> /\ n = 3 /\ c = <<"app">> /\ w = None
  \/ ls = <<FullUi, Cursor>> /\ n = 3 /\ c = <<"app", Cursor>> /\ w = FullUi
  \/ ls = <<Cursor, FullUi>> /\ n = 2 /\ c = << >> /\ w = None
  \/ ls = <<Cursor, FullUi>> /\ n = 2 /\ c = <<Cursor>> /\ w = FullUi
  \/ ls = <<Cursor, FullUi>> /\ n = 3 /\ c = <<"app">> /\ w = None
  \/ ls = <<Cursor, FullUi>> /\ n = 3 /\ c = <<Cursor, "app">> /\ w = FullUi

(* Its window has one surface more than the app needs, once a cursor was    *)
(* committed on it; windowKey tells whether that one still shows something. *)
TwoSurfaces(s, c, w) ==
  /\ Len(s) <= 2
  /\ w = FullUi => s # << >> /\ (c # <<Cursor>> => Len(s) = 2)
  /\ w # FullUi /\ Len(s) = 2 => s[2] = None
  /\ \A i \in DOMAIN c : s[i] = c[i]

FullUiInv ==
  ~config.composing /\ failures = 0 /\ ~reborn =>
    /\ windowKey \in Open \cup {None}
    /\ ~config.subsurface => windowKey = None
    /\ TwoSurfaces(surfaces[FullUi], committed[FullUi], windowKey)
    /\ setPc # "idle" /\ frame.mode = "fullUi" =>
         /\ Progress(frame.layers, next, committed[FullUi], windowKey)
         /\ setPc = "done" /\ committed[FullUi] = <<"app">> => windowKey = None

(* The cursor is committed on one window at most, and only when its layer   *)
(* was handled.                                                             *)
CursorHandled == \E j \in DOMAIN frame.layers : j < next /\ frame.layers[j] = Cursor

CursorInv ==
  /\ config.subsurface => image = None
  /\ \A k \in Keys : \A i \in DOMAIN committed[k] : committed[k][i] = Cursor =>
       /\ config.subsurface
       /\ CursorHandled
  /\ \A k, l \in Keys : \A i \in DOMAIN committed[k], j \in DOMAIN committed[l] :
       committed[k][i] = Cursor /\ committed[l][j] = Cursor => k = l /\ i = j
  /\ setPc = "done" /\ image = Cursor /\ ~entered => Cursor \in ToSet(frame.layers)

SurfacesInv == SurfTypes /\ FrameFits /\ Counted /\ ComposedInv /\ FullUiInv /\ CursorInv

-----------------------------------------------------------------------------
(* The names of windows, of the cursor and of nothing differ.               *)
LEMMA Names ==
  /\ None \notin Keys /\ Cursor \notin Keys /\ FullUi \in Keys
  /\ None # Cursor /\ None # "app" /\ Cursor # "app" /\ FullUi \notin Tasks
BY SurfacesAssumption DEF Keys, None, Cursor, FullUi

(* What Append gives, place by place.                                       *)
LEMMA AppendFacts ==
  ASSUME NEW S, NEW s \in Seq(S), NEW e \in S
  PROVE  /\ Append(s, e) \in Seq(S) /\ Len(s) \in Nat /\ DOMAIN s = 1..Len(s)
         /\ DOMAIN Append(s, e) = DOMAIN s \cup {Len(s) + 1} /\ Len(s) + 1 \notin DOMAIN s
         /\ \A k \in DOMAIN s : Append(s, e)[k] = s[k]
         /\ Append(s, e)[Len(s) + 1] = e
         /\ Len(Append(s, e)) = Len(s) + 1
OBVIOUS

(* A sequence of which one element changes.                                 *)
LEMMA UpdateFacts ==
  ASSUME NEW S, NEW s \in Seq(S), NEW i \in DOMAIN s, NEW e \in S
  PROVE  /\ [s EXCEPT ![i] = e] \in Seq(S)
         /\ Len([s EXCEPT ![i] = e]) = Len(s)
         /\ DOMAIN [s EXCEPT ![i] = e] = DOMAIN s
         /\ [s EXCEPT ![i] = e][i] = e
         /\ \A k \in DOMAIN s : k # i => [s EXCEPT ![i] = e][k] = s[k]
OBVIOUS

(* The layers of a frame.                                                   *)
LEMMA LayerFacts ==
  ASSUME NEW c \in Configs, NEW m, NEW t, NEW ls \in FrameLayers(c, m, t)
  PROVE  /\ ls \in Seq(Drawable(m, t) \cup {Cursor})
         /\ Len(ls) \in Nat /\ Len(ls) <= c.apps + 1 /\ c.apps \in Nat
         /\ \A i, j \in DOMAIN ls : ls[i] = Cursor /\ ls[j] = Cursor => i = j
<1>1. c.apps \in Nat
  BY SurfacesAssumption
<1>2. PICK n \in 0..(c.apps + 1) : ls \in [1..n -> Drawable(m, t) \cup {Cursor}]
  BY DEF FrameLayers
<1>3. n \in Nat /\ ls \in Seq(Drawable(m, t) \cup {Cursor}) /\ Len(ls) = n /\ n <= c.apps + 1
  BY <1>1, <1>2
<1>4. \A i, j \in DOMAIN ls \ AppsIn(ls) : i = j
  BY DEF FrameLayers
<1>5. ASSUME NEW i \in DOMAIN ls, NEW j \in DOMAIN ls, ls[i] = Cursor, ls[j] = Cursor
      PROVE  i = j
  <2>1. i \notin AppsIn(ls) /\ j \notin AppsIn(ls)
    BY <1>5 DEF AppsIn
  <2>. QED BY <2>1, <1>4
<1>. QED BY <1>1, <1>3, <1>5

(* A frame is one of a mode and a target.                                   *)
LEMMA FrameParts ==
  ASSUME NEW c \in Configs, NEW f \in Frames(c)
  PROVE  \E m \in ModesOf(c.multi), t \in Tasks \cup {None} :
           f \in [mode : {m}, target : {t}, geometry : BOOLEAN, layers : FrameLayers(c, m, t)]
<1>. DEFINE F(m, t) == [mode : {m}, target : {t}, geometry : BOOLEAN,
                        layers : FrameLayers(c, m, t)]
<1>1. f \in UNION {F(m, t) : m \in ModesOf(c.multi), t \in Tasks \cup {None}}
  BY DEF Frames
<1>. HIDE DEF F
<1>2. \E m \in ModesOf(c.multi), t \in Tasks \cup {None} : f \in F(m, t)
  BY <1>1
<1>. QED BY <1>2 DEF F

(* What a frame may draw on stays open.                                     *)
LEMMA FrameFacts ==
  ASSUME NEW c \in Configs, NEW f \in Frames(c)
  PROVE  /\ f.mode \in WindowModes /\ f.target \in Tasks \cup {None} /\ f.geometry \in BOOLEAN
         /\ f.layers \in FrameLayers(c, f.mode, f.target)
         /\ Drawable(f.mode, f.target) \subseteq Staying(f.mode)
         /\ Staying(f.mode) \subseteq Keys
<1>1. PICK m \in ModesOf(c.multi), t \in Tasks \cup {None} :
        f \in [mode : {m}, target : {t}, geometry : BOOLEAN, layers : FrameLayers(c, m, t)]
  BY FrameParts
<1>2. f.mode = m /\ f.target = t /\ f.geometry \in BOOLEAN /\ f.layers \in FrameLayers(c, m, t)
  BY <1>1
<1>3. m \in WindowModes
  BY DEF ModesOf
<1>4. Drawable(m, t) \subseteq Staying(m) /\ Staying(m) \subseteq Keys
  BY <1>3 DEF Drawable, Staying, Keys, WindowModes
<1>. QED BY <1>2, <1>3, <1>4

(* Without composing, a set in full-ui mode has the framebuffer target and  *)
(* perhaps the cursor, above or below it.                                   *)
LEMMA FullUiLayers ==
  ASSUME NEW c \in Configs, ~c.composing, NEW t, NEW ls \in FrameLayers(c, "fullUi", t)
  PROVE  ls \in {<<FullUi>>, <<FullUi, Cursor>>, <<Cursor, FullUi>>}
<1>0. Drawable("fullUi", t) = {FullUi} /\ FullUi # Cursor
  BY Names DEF Drawable
<1>1. ls \in Seq({FullUi, Cursor}) /\ Len(ls) \in Nat
  BY <1>0, LayerFacts
<1>2. \A i, j \in DOMAIN ls : ls[i] = Cursor /\ ls[j] = Cursor => i = j
  BY LayerFacts
<1>3. Cardinality(AppsIn(ls)) = 1
  BY <1>0 DEF FrameLayers
<1>4. IsFiniteSet(AppsIn(ls))
  <2>1. AppsIn(ls) \subseteq 1..Len(ls)
    BY <1>1 DEF AppsIn
  <2>2. IsFiniteSet(1..Len(ls))
    BY <1>1, FS_Interval
  <2>. QED BY <2>1, <2>2, FS_Subset
<1>5. PICK a : AppsIn(ls) = {a}
  BY <1>3, <1>4, FS_Singleton
<1>6. a \in DOMAIN ls /\ DOMAIN ls = 1..Len(ls) /\ \A i \in DOMAIN ls : ls[i] \in {FullUi, Cursor}
  BY <1>1, <1>5 DEF AppsIn
<1>7. \A i \in DOMAIN ls : ls[i] = (IF i = a THEN FullUi ELSE Cursor)
  BY <1>5, <1>6 DEF AppsIn
<1>8. Len(ls) \in {1, 2}
  <2>1. Len(ls) >= 1
    BY <1>1, <1>6
  <2>2. Len(ls) <= 2
    <3>1. SUFFICES ASSUME Len(ls) >= 3 PROVE FALSE
      BY <1>1
    <3>2. 1 \in DOMAIN ls /\ 2 \in DOMAIN ls /\ 3 \in DOMAIN ls
      BY <3>1, <1>1, <1>6
    <3>. QED BY <3>2, <1>2, <1>7
  <2>3. \A n \in Nat : n >= 1 /\ n <= 2 => n \in {1, 2}
    OBVIOUS
  <2>. QED BY <2>1, <2>2, <2>3, <1>1
<1>9. CASE Len(ls) = 1
  <2>1. ls[1] = FullUi
    BY <1>9, <1>6, <1>7
  <2>2. ls = <<FullUi>>
    BY <2>1, <1>9, <1>1
  <2>. QED BY <2>2
<1>10. CASE Len(ls) = 2
  <2>1. a \in {1, 2} /\ 1 \in DOMAIN ls /\ 2 \in DOMAIN ls
    BY <1>10, <1>6
  <2>2. CASE a = 1
    <3>1. ls[1] = FullUi /\ ls[2] = Cursor
      BY <2>1, <2>2, <1>7
    <3>2. ls = <<FullUi, Cursor>>
      BY <3>1, <1>10, <1>1
    <3>. QED BY <3>2
  <2>3. CASE a = 2
    <3>1. ls[1] = Cursor /\ ls[2] = FullUi
      BY <2>1, <2>3, <1>7
    <3>2. ls = <<Cursor, FullUi>>
      BY <3>1, <1>10, <1>1
    <3>. QED BY <3>2
  <2>. QED BY <2>1, <2>2, <2>3
<1>. QED BY <1>8, <1>9, <1>10

(* What Commit does to its window, and that it leaves the others alone.     *)
LEMMA CommitFacts ==
  ASSUME SurfTypes, NEW k \in Keys, NEW what \in {"app", Cursor}, Commit(k, what),
         lastLayer[k] = Len(committed[k]), lastLayer[k] <= Len(surfaces[k])
  PROVE  /\ surfaces' \in [Keys -> Seq(Contents)] /\ lastLayer' \in [Keys -> Nat]
         /\ committed' \in [Keys -> Seq({"app", Cursor})]
         /\ \A l \in Keys \ {k} : /\ surfaces'[l] = surfaces[l]
                                  /\ lastLayer'[l] = lastLayer[l]
                                  /\ committed'[l] = committed[l]
         /\ lastLayer'[k] = lastLayer[k] + 1
         /\ committed'[k] = Append(committed[k], what)
         /\ Len(committed'[k]) = lastLayer[k] + 1
         /\ DOMAIN committed'[k] = DOMAIN committed[k] \cup {lastLayer[k] + 1}
         /\ \A i \in DOMAIN committed[k] : committed'[k][i] = committed[k][i]
         /\ committed'[k][lastLayer[k] + 1] = what
         /\ Len(surfaces'[k]) = IF lastLayer[k] + 1 > Len(surfaces[k]) THEN lastLayer[k] + 1
                                ELSE Len(surfaces[k])
         /\ surfaces'[k][lastLayer[k] + 1] = what
         /\ \A i \in DOMAIN surfaces[k] : i # lastLayer[k] + 1 =>
              surfaces'[k][i] = surfaces[k][i]
<1>. DEFINE n == lastLayer[k] + 1
            s == Opened(k)
            t == IF n > Len(s) THEN Append(s, what) ELSE [s EXCEPT ![n] = what]
<1>1. /\ surfaces[k] \in Seq(Contents) /\ committed[k] \in Seq({"app", Cursor})
      /\ Len(surfaces[k]) \in Nat /\ lastLayer[k] \in Nat /\ what \in Contents
      /\ DOMAIN surfaces[k] = 1..Len(surfaces[k])
  BY DEF SurfTypes, Contents
<1>2. /\ s \in Seq(Contents) /\ Len(s) \in Nat /\ DOMAIN s = 1..Len(s)
      /\ \A i \in DOMAIN surfaces[k] : s[i] = surfaces[k][i]
      /\ Len(s) = IF surfaces[k] = << >> THEN 1 ELSE Len(surfaces[k])
  <2>1. CASE surfaces[k] = << >>
    <3>1. s = <<None>>
      BY <2>1 DEF Opened, Open
    <3>2. <<None>> \in Seq(Contents) /\ Len(<<None>>) = 1 /\ DOMAIN <<None>> = 1..1
      BY DEF Contents
    <3>. QED BY <2>1, <3>1, <3>2, <1>1
  <2>2. CASE surfaces[k] # << >>
    BY <1>1, <2>2 DEF Opened, Open
  <2>. QED BY <2>1, <2>2
<1>3. surfaces[k] # << >> => Len(surfaces[k]) >= 1
  BY <1>1
<1>4. /\ t \in Seq(Contents) /\ t[n] = what
      /\ \A i \in DOMAIN s : i # n => t[i] = s[i]
      /\ Len(t) = IF n > Len(s) THEN n ELSE Len(s)
  <2>1. CASE n > Len(s)
    <3>1. t = Append(s, what) /\ n = Len(s) + 1
      BY <2>1, <1>1, <1>2, <1>3
    <3>. QED BY <3>1, <2>1, <1>1, <1>2, AppendFacts
  <2>2. CASE ~(n > Len(s))
    <3>1. t = [s EXCEPT ![n] = what] /\ n \in DOMAIN s
      BY <2>2, <1>1, <1>2
    <3>. QED BY <3>1, <2>2, <1>1, <1>2, UpdateFacts
  <2>. QED BY <2>1, <2>2
<1>5. /\ surfaces' = [surfaces EXCEPT ![k] = t]
      /\ lastLayer' = [lastLayer EXCEPT ![k] = n]
      /\ committed' = [committed EXCEPT ![k] = Append(committed[k], what)]
  BY DEF Commit
<1>6. /\ Append(committed[k], what) \in Seq({"app", Cursor})
      /\ DOMAIN Append(committed[k], what) = DOMAIN committed[k] \cup {n}
      /\ \A i \in DOMAIN committed[k] : Append(committed[k], what)[i] = committed[k][i]
      /\ Append(committed[k], what)[n] = what
      /\ Len(Append(committed[k], what)) = n
  BY <1>1, AppendFacts
<1>7. /\ surfaces'[k] = t /\ lastLayer'[k] = n /\ committed'[k] = Append(committed[k], what)
      /\ \A l \in Keys \ {k} : /\ surfaces'[l] = surfaces[l]
                                  /\ lastLayer'[l] = lastLayer[l]
                                  /\ committed'[l] = committed[l]
  BY <1>5 DEF SurfTypes
<1>8. /\ surfaces' \in [Keys -> Seq(Contents)] /\ lastLayer' \in [Keys -> Nat]
      /\ committed' \in [Keys -> Seq({"app", Cursor})]
  BY <1>1, <1>4, <1>5, <1>6 DEF SurfTypes
<1>9. /\ Len(t) = IF n > Len(surfaces[k]) THEN n ELSE Len(surfaces[k])
      /\ \A i \in DOMAIN surfaces[k] : i # n => t[i] = surfaces[k][i]
  <2>1. \A i \in DOMAIN surfaces[k] : i \in DOMAIN s
    BY <1>1, <1>2, <1>3
  <2>2. Len(t) = IF n > Len(surfaces[k]) THEN n ELSE Len(surfaces[k])
    <3>. HIDE DEF t, s
    <3>. QED BY <1>1, <1>2, <1>3, <1>4
  <2>. QED BY <2>1, <2>2, <1>2, <1>4
<1>. HIDE DEF t, s
<1>. QED BY <1>4, <1>6, <1>7, <1>8, <1>9

-----------------------------------------------------------------------------
(* Before the first frame nothing is shown.                                 *)
LEMMA SurfacesInitInv ==
  ASSUME SurfacesInit
  PROVE  SurfacesInv
<1>1. Open = {} /\ << >> \in Seq(Contents) /\ << >> \in Seq({"app", Cursor})
  BY DEF SurfacesInit, Open
<1>2. SurfTypes
  BY <1>1 DEF SurfacesInit, SurfTypes, Contents
<1>3. config.apps \in Nat
  BY SurfacesAssumption DEF SurfacesInit
<1>4. FrameFits
  BY <1>1, <1>3 DEF SurfacesInit, FrameFits
<1>5. Counted /\ ComposedInv
  BY DEF SurfacesInit, Counted, ComposedInv
<1>6. FullUiInv
  BY Names DEF SurfacesInit, FullUiInv, TwoSurfaces
<1>7. CursorInv
  BY Names DEF SurfacesInit, CursorInv
<1>. QED BY <1>2, <1>4, <1>5, <1>6, <1>7 DEF SurfacesInv

(* hwc_set begins: windows the mode does not keep are closed, inactive ones *)
(* show the copy of their last buffer.                                      *)
LEMMA StartInv ==
  ASSUME SurfacesInv, NEW f \in Frames(config), StartSet(f)
  PROVE  SurfacesInv'
<1>1. SurfTypes /\ FrameFits /\ config \in Configs /\ setPc = "idle"
  BY DEF SurfacesInv, SurfTypes, StartSet
<1>2. /\ f.mode \in WindowModes
      /\ f.layers \in Seq(Drawable(f.mode, f.target) \cup {Cursor})
      /\ Drawable(f.mode, f.target) \subseteq Staying(f.mode) /\ Staying(f.mode) \subseteq Keys
      /\ Len(f.layers) \in Nat
  BY <1>1, FrameFacts, LayerFacts
<1>3. Kept(f) \cap Keys \subseteq Staying(f.mode)
  <2>1. ToSet(f.layers) \subseteq Drawable(f.mode, f.target) \cup {Cursor}
    BY <1>2 DEF ToSet
  <2>2. CASE f.mode = "multi"
    BY <2>1, <2>2, <1>2, Names DEF Kept
  <2>3. CASE f.mode # "multi"
    BY <2>3, <1>2, Names DEF Kept, Staying, WindowModes
  <2>. QED BY <2>2, <2>3
<1>4. Snapshots(f) \subseteq Open \cap Kept(f) /\ FullUi \notin Snapshots(f)
  BY Names DEF Snapshots, Kept
<1>5. \A k \in Keys : /\ surfaces'[k] \in Seq(Contents)
                      /\ k \notin Kept(f) => surfaces'[k] = << >>
                      /\ k \in Kept(f) => (surfaces'[k] = << >> <=> surfaces[k] = << >>)
                      /\ k \in Kept(f) /\ k \notin Snapshots(f) => surfaces'[k] = surfaces[k]
  <2>. TAKE k \in Keys
  <2>1. surfaces'[k] = IF k \notin Kept(f) THEN << >>
                       ELSE IF k \in Snapshots(f) THEN [surfaces[k] EXCEPT ![1] = lastBuffer[k]]
                       ELSE surfaces[k]
    BY DEF StartSet
  <2>2. surfaces[k] \in Seq(Contents) /\ lastBuffer[k] \in Contents
    BY <1>1 DEF SurfTypes
  <2>3. CASE k \in Snapshots(f)
    <3>1. surfaces[k] # << >> /\ k \in Kept(f)
      BY <1>4, <2>3 DEF Open
    <3>2. 1 \in DOMAIN surfaces[k]
      BY <3>1, <2>2
    <3>3. /\ [surfaces[k] EXCEPT ![1] = lastBuffer[k]] \in Seq(Contents)
          /\ DOMAIN [surfaces[k] EXCEPT ![1] = lastBuffer[k]] = DOMAIN surfaces[k]
      BY <2>2, <3>2, UpdateFacts
    <3>. QED BY <2>1, <2>3, <3>1, <3>2, <3>3
  <2>4. CASE k \notin Snapshots(f)
    BY <2>1, <2>2, <2>4
  <2>. QED BY <2>3, <2>4
<1>6. Open' = Open \cap Kept(f)
  BY <1>5 DEF Open
<1>7. /\ surfaces' \in [Keys -> Seq(Contents)] /\ lastLayer' = [k \in Keys |-> 0]
      /\ lastBuffer' = [k \in Keys |-> None]
      /\ frame' = f /\ next' = 1 /\ setPc' = "layers" /\ entered' = FALSE
      /\ config' = config /\ windowKey' = windowKey /\ image' = image
      /\ committed' = committed /\ failures' = failures
  <2>1. surfaces' = [k \in Keys |-> surfaces'[k]]
    BY DEF StartSet
  <2>2. surfaces' \in [Keys -> Seq(Contents)]
    BY <2>1, <1>5
  <2>. QED BY <2>2 DEF StartSet
<1>8. committed = [k \in Keys |-> << >>]
  BY <1>1 DEF FrameFits
<1>9. SurfTypes'
  <2>1. under' \in Keys \cup {None} /\ reborn' \in BOOLEAN
    BY <1>1 DEF StartSet, SurfTypes
  <2>. QED BY <1>1, <1>7, <2>1 DEF SurfTypes, Contents
<1>10. FrameFits'
  <2>1. snapped' \subseteq Open' /\ (under' # None => under' \in Open')
    BY <1>1, <1>4, <1>6 DEF StartSet, FrameFits
  <2>2. Open' \subseteq Staying(f.mode)
    BY <1>3, <1>6 DEF Open
  <2>3. config.apps \in Nat
    BY <1>1, SurfacesAssumption
  <2>. QED BY <1>2, <1>7, <2>1, <2>2, <2>3 DEF FrameFits
<1>11. Counted' /\ ComposedInv'
  <2>1. \A k \in Keys : Len(surfaces'[k]) \in Nat
    BY <1>5
  <2>. QED BY <1>7, <1>8, <2>1 DEF Counted, ComposedInv
<1>12. FullUiInv'
  <2>1. SUFFICES ASSUME ~config.composing, failures = 0, ~reborn'
                 PROVE  FullUiInv'
    BY <1>7 DEF FullUiInv
  <2>2. ~reborn /\ windowKey \notin Open \ Kept(f)
    BY <2>1, <1>1 DEF StartSet, SurfTypes
  <2>3. /\ windowKey \in Open \cup {None} /\ (~config.subsurface => windowKey = None)
        /\ TwoSurfaces(surfaces[FullUi], committed[FullUi], windowKey)
    BY <2>1, <2>2 DEF SurfacesInv, FullUiInv
  <2>4. windowKey \in Open' \cup {None}
    BY <2>2, <2>3, <1>6
  <2>5. TwoSurfaces(surfaces'[FullUi], << >>, windowKey)
    <3>1. committed[FullUi] = << >>
      BY <1>8, Names
    <3>2. CASE FullUi \in Kept(f)
      BY <3>1, <3>2, <2>3, <1>4, <1>5, Names
    <3>3. CASE FullUi \notin Kept(f)
      <4>1. surfaces'[FullUi] = << >>
        BY <3>3, <1>5, Names
      <4>2. windowKey # FullUi
        BY <3>3, <2>2, <2>3, Names
      <4>. QED BY <4>1, <4>2 DEF TwoSurfaces
    <3>. QED BY <3>2, <3>3
  <2>6. committed'[FullUi] = << >>
    BY <1>7, <1>8, Names
  <2>. QED BY <2>3, <2>4, <2>5, <2>6, <1>7 DEF FullUiInv, Progress
<1>13. CursorInv'
  BY <1>7, <1>8 DEF SurfacesInv, CursorInv
<1>. QED BY <1>9, <1>10, <1>11, <1>12, <1>13 DEF SurfacesInv

(* hwc_set returns.                                                         *)
LEMMA EndInv ==
  ASSUME SurfacesInv, EndSet
  PROVE  SurfacesInv'
<1>1. /\ UNCHANGED <<config, surfaces, lastLayer, lastBuffer, snapped, windowKey, under, image,
                     failures, entered, reborn>>
      /\ frame' = NoContents /\ next' = 1 /\ setPc' = "idle"
      /\ committed' = [k \in Keys |-> << >>]
  BY DEF EndSet, windowVars
<1>2. Open' = Open
  BY <1>1 DEF Open
<1>3. SurfTypes'
  <2>1. << >> \in Seq({"app", Cursor})
    OBVIOUS
  <2>. QED BY <1>1, <2>1 DEF SurfacesInv, SurfTypes
<1>4. FrameFits' /\ Counted' /\ ComposedInv'
  BY <1>1, <1>2 DEF SurfacesInv, FrameFits, Counted, ComposedInv
<1>5. FullUiInv'
  <2>1. SUFFICES ASSUME ~config.composing, failures = 0, ~reborn
                 PROVE  FullUiInv'
    BY <1>1 DEF FullUiInv
  <2>2. /\ windowKey \in Open \cup {None} /\ (~config.subsurface => windowKey = None)
        /\ TwoSurfaces(surfaces[FullUi], committed[FullUi], windowKey)
        /\ frame.mode = "fullUi" =>
             Progress(frame.layers, next, committed[FullUi], windowKey)
    BY <2>1 DEF SurfacesInv, FullUiInv, EndSet
  <2>3. windowKey = FullUi => committed[FullUi] # <<Cursor>>
    <3>1. SUFFICES ASSUME windowKey = FullUi, committed[FullUi] = <<Cursor>> PROVE FALSE
      OBVIOUS
    <3>2. FullUi \in Open
      BY <3>1, <2>2, Names
    <3>3. frame \in Frames(config) /\ config \in Configs /\ next = Len(frame.layers) + 1
          /\ FullUi \in Staying(frame.mode)
      BY <3>2 DEF SurfacesInv, FrameFits, EndSet, SurfTypes
    <3>4. frame.mode = "fullUi"
      BY <3>3, FrameFacts, Names DEF Staying, WindowModes
    <3>5. Progress(frame.layers, next, committed[FullUi], windowKey)
      BY <3>4, <2>2
    <3>6. frame.layers = <<Cursor, FullUi>> /\ next = 2
      BY <3>5, <3>1, Names DEF Progress
    <3>. QED BY <3>3, <3>6
  <2>4. TwoSurfaces(surfaces[FullUi], << >>, windowKey)
    BY <2>2, <2>3 DEF TwoSurfaces
  <2>5. committed'[FullUi] = << >>
    BY <1>1, Names
  <2>. QED BY <1>1, <1>2, <2>2, <2>4, <2>5 DEF FullUiInv
<1>6. CursorInv'
  BY <1>1, Names DEF SurfacesInv, CursorInv
<1>. QED BY <1>3, <1>4, <1>5, <1>6 DEF SurfacesInv

(* The pointer enters and leaves windows while hwc_set runs.                *)
LEMMA PointerMovesInv ==
  ASSUME SurfacesInv, PointerLeave \/ \E k \in Keys : PointerEnter(k)
  PROVE  SurfacesInv'
<1>1. /\ UNCHANGED <<config, surfaces, lastLayer, lastBuffer, snapped, windowKey, frame, next,
                     setPc, committed, failures, reborn>>
      /\ under' \in Open \cup {None} /\ under' \in Keys \cup {None}
      /\ image' \in {None, Cursor} /\ (config.subsurface => image' = None)
      /\ \/ entered' = entered /\ image' = None
         \/ setPc = "done" => entered'
      /\ entered' \in BOOLEAN
  BY DEF PointerLeave, PointerEnter, windowVars, historyVars, SurfacesInv, SurfTypes
<1>2. Open' = Open
  BY <1>1 DEF Open
<1>3. SurfTypes'
  BY <1>1 DEF SurfacesInv, SurfTypes
<1>4. FrameFits'
  BY <1>1, <1>2 DEF SurfacesInv, FrameFits
<1>5. Counted' /\ ComposedInv'
  BY <1>1 DEF SurfacesInv, Counted, ComposedInv
<1>6. FullUiInv'
  BY <1>1, <1>2 DEF SurfacesInv, FullUiInv
<1>7. CursorInv'
  <2>1. CursorHandled' <=> CursorHandled
    BY <1>1 DEF CursorHandled
  <2>2. setPc' = "done" /\ image' = Cursor => entered'
    BY <1>1, Names
  <2>. QED BY <1>1, <2>1, <2>2 DEF SurfacesInv, CursorInv
<1>. QED BY <1>3, <1>4, <1>5, <1>6, <1>7 DEF SurfacesInv

(* The user closes a window between two sets.                               *)
LEMMA CloseInv ==
  ASSUME SurfacesInv, NEW k \in Keys, CloseWindow(k)
  PROVE  SurfacesInv'
<1>1. /\ UNCHANGED <<config, windowKey, frame, next, setPc, committed, failures, entered>>
      /\ surfaces' = [surfaces EXCEPT ![k] = << >>]
      /\ lastLayer' = [lastLayer EXCEPT ![k] = 0]
      /\ lastBuffer' = [lastBuffer EXCEPT ![k] = None]
      /\ snapped' = snapped \ {k}
      /\ under' = (IF under = k THEN None ELSE under)
      /\ image' \in {image, None}
      /\ setPc = "idle"
      /\ committed = [l \in Keys |-> << >>]
  BY DEF CloseWindow, SurfacesInv, FrameFits
<1>2. Open' = Open \ {k}
  BY <1>1 DEF Open, SurfacesInv, SurfTypes
<1>3. SurfTypes'
  <2>1. << >> \in Seq(Contents) /\ None \in Contents /\ reborn' \in BOOLEAN
    BY DEF Contents, CloseWindow, SurfacesInv, SurfTypes
  <2>2. surfaces' \in [Keys -> Seq(Contents)] /\ lastLayer' \in [Keys -> Nat]
        /\ lastBuffer' \in [Keys -> Contents]
    BY <1>1, <2>1 DEF SurfacesInv, SurfTypes
  <2>. QED BY <1>1, <2>1, <2>2 DEF SurfacesInv, SurfTypes
<1>4. FrameFits'
  <2>1. config.apps \in Nat
    BY SurfacesAssumption DEF SurfacesInv, SurfTypes
  <2>2. \A l \in Keys : lastLayer'[l] <= config.apps + 1
    BY <1>1, <2>1 DEF SurfacesInv, FrameFits, SurfTypes
  <2>. QED BY <1>1, <1>2, <2>2 DEF SurfacesInv, FrameFits
<1>5. Counted' /\ ComposedInv'
  BY <1>1 DEF Counted, ComposedInv
<1>6. FullUiInv'
  <2>1. SUFFICES ASSUME ~config.composing, failures = 0, ~reborn'
                 PROVE  FullUiInv'
    BY <1>1 DEF FullUiInv
  <2>2. ~reborn /\ windowKey # k
    BY <2>1 DEF CloseWindow, SurfacesInv, SurfTypes
  <2>3. /\ windowKey \in Open \cup {None} /\ (~config.subsurface => windowKey = None)
        /\ TwoSurfaces(surfaces[FullUi], committed[FullUi], windowKey)
    BY <2>1, <2>2 DEF SurfacesInv, FullUiInv
  <2>4. TwoSurfaces(surfaces'[FullUi], committed[FullUi], windowKey)
    <3>1. CASE k = FullUi
      <4>1. surfaces'[FullUi] = << >> /\ committed[FullUi] = << >>
        BY <1>1, <3>1, Names DEF SurfacesInv, SurfTypes
      <4>. QED BY <4>1, <3>1, <2>2 DEF TwoSurfaces
    <3>2. CASE k # FullUi
      <4>1. surfaces'[FullUi] = surfaces[FullUi]
        BY <1>1, <3>2, Names DEF SurfacesInv, SurfTypes
      <4>. QED BY <4>1, <2>3
    <3>. QED BY <3>1, <3>2
  <2>. QED BY <1>1, <1>2, <2>2, <2>3, <2>4 DEF FullUiInv
<1>7. CursorInv'
  BY <1>1, Names DEF SurfacesInv, CursorInv
<1>. QED BY <1>3, <1>4, <1>5, <1>6, <1>7 DEF SurfacesInv

-----------------------------------------------------------------------------
(* The layer handled now, and what handling it leaves alone.                *)
LEMMA HandleFacts ==
  ASSUME SurfacesInv, HandleNext
  PROVE  /\ config \in Configs /\ config.apps \in Nat /\ frame \in Frames(config)
         /\ frame.mode \in WindowModes /\ Staying(frame.mode) \subseteq Keys
         /\ Drawable(frame.mode, frame.target) \subseteq Staying(frame.mode)
         /\ frame.layers \in FrameLayers(config, frame.mode, frame.target)
         /\ frame.layers \in Seq(Drawable(frame.mode, frame.target) \cup {Cursor})
         /\ Len(frame.layers) \in Nat /\ Len(frame.layers) <= config.apps + 1
         /\ next \in Nat /\ 1 <= next /\ next <= Len(frame.layers) /\ next \in DOMAIN frame.layers
         /\ frame.layers[next] \in Drawable(frame.mode, frame.target) \cup {Cursor}
         /\ \A i, j \in DOMAIN frame.layers :
              frame.layers[i] = Cursor /\ frame.layers[j] = Cursor => i = j
         /\ setPc = "layers" /\ next' = next + 1
         /\ UNCHANGED <<config, under, frame, setPc, entered, reborn>>
<1>1. /\ config \in Configs /\ frame \in Frames(config) /\ next \in Nat /\ 1 <= next
      /\ next <= Len(frame.layers) /\ setPc = "layers" /\ next' = next + 1
      /\ UNCHANGED <<config, under, frame, setPc, entered, reborn>>
  BY DEF SurfacesInv, HandleNext, SurfTypes, FrameFits
<1>2. /\ frame.mode \in WindowModes /\ Staying(frame.mode) \subseteq Keys
      /\ Drawable(frame.mode, frame.target) \subseteq Staying(frame.mode)
      /\ frame.layers \in FrameLayers(config, frame.mode, frame.target)
  BY <1>1, FrameFacts
<1>3. /\ frame.layers \in Seq(Drawable(frame.mode, frame.target) \cup {Cursor})
      /\ Len(frame.layers) \in Nat /\ Len(frame.layers) <= config.apps + 1
      /\ config.apps \in Nat
      /\ \A i, j \in DOMAIN frame.layers :
           frame.layers[i] = Cursor /\ frame.layers[j] = Cursor => i = j
  BY <1>1, <1>2, LayerFacts
<1>4. next \in DOMAIN frame.layers
  BY <1>1, <1>3
<1>5. frame.layers[next] \in Drawable(frame.mode, frame.target) \cup {Cursor}
  BY <1>3, <1>4
<1>. QED BY <1>1, <1>2, <1>3, <1>4, <1>5

(* Whatever happens to the layer, its window is open afterwards and the     *)
(* others are as they were.                                                 *)
LEMMA DrawKeeps ==
  ASSUME SurfacesInv, HandleNext, NEW k \in Staying(frame.mode), NEW what \in {"app", Cursor},
         ApplyLayer(k, what) \/ ApplyFails(k, what),
         what = Cursor => frame.layers[next] = Cursor /\ config.subsurface,
         image' = image, windowKey' \in Keys \cup {None}
  PROVE  /\ SurfTypes' /\ FrameFits' /\ Counted' /\ ComposedInv' /\ CursorInv'
         /\ Open' = Open \cup {k} /\ k \in Keys
         /\ \A l \in Keys \ {k} : surfaces'[l] = surfaces[l] /\ committed'[l] = committed[l]
<1>1. k \in Keys
  BY HandleFacts
<1>2. /\ lastLayer[k] = Len(committed[k]) /\ lastLayer[k] <= Len(surfaces[k]) /\ SurfTypes
      /\ lastLayer[k] < next /\ surfaces[k] \in Seq(Contents) /\ lastLayer[k] \in Nat
      /\ Len(surfaces[k]) \in Nat /\ Counted /\ FrameFits /\ ComposedInv /\ CursorInv
  <2>1. SurfTypes /\ Counted /\ FrameFits /\ ComposedInv /\ CursorInv
    BY DEF SurfacesInv
  <2>2. setPc # "idle"
    BY HandleFacts
  <2>3. lastLayer[k] = Len(committed[k]) /\ lastLayer[k] <= Len(surfaces[k])
        /\ lastLayer[k] < next
    BY <1>1, <2>1, <2>2 DEF Counted
  <2>4. surfaces[k] \in Seq(Contents) /\ lastLayer[k] \in Nat
    BY <1>1, <2>1 DEF SurfTypes
  <2>. QED BY <2>1, <2>3, <2>4
<1>3. /\ failures' \in Nat /\ lastBuffer' \in [Keys -> Contents] /\ snapped' \subseteq snapped
      /\ Commit(k, what) \/ (/\ surfaces' = [surfaces EXCEPT ![k] = Opened(k)]
                             /\ lastLayer' = lastLayer /\ committed' = committed)
  <2>1. what \in Contents /\ failures \in Nat /\ lastBuffer \in [Keys -> Contents]
    BY <1>2 DEF SurfTypes, Contents
  <2>2. CASE ApplyLayer(k, what)
    BY <2>1, <2>2, <1>1 DEF ApplyLayer
  <2>3. CASE ApplyFails(k, what)
    BY <2>1, <2>3 DEF ApplyFails
  <2>. QED BY <2>2, <2>3
<1>4. /\ surfaces' \in [Keys -> Seq(Contents)] /\ lastLayer' \in [Keys -> Nat]
      /\ committed' \in [Keys -> Seq({"app", Cursor})]
      /\ \A l \in Keys \ {k} : /\ surfaces'[l] = surfaces[l]
                               /\ lastLayer'[l] = lastLayer[l]
                               /\ committed'[l] = committed[l]
      /\ surfaces'[k] # << >>
      /\ lastLayer'[k] = Len(committed'[k]) /\ lastLayer'[k] <= Len(surfaces'[k])
      /\ lastLayer'[k] <= next
      /\ (\A i \in DOMAIN committed[k] : surfaces[k][i] = committed[k][i]) =>
           \A i \in DOMAIN committed'[k] : surfaces'[k][i] = committed'[k][i]
      /\ \A i \in DOMAIN committed'[k] :
           \/ i \in DOMAIN committed[k] /\ committed'[k][i] = committed[k][i]
           \/ i = lastLayer[k] + 1 /\ committed'[k][i] = what
  <2>0. committed[k] \in Seq({"app", Cursor}) /\ DOMAIN committed[k] = 1..Len(committed[k])
        /\ DOMAIN surfaces[k] = 1..Len(surfaces[k])
    BY <1>1, <1>2 DEF SurfTypes
  <2>1. CASE Commit(k, what)
    <3>. DEFINE n == lastLayer[k] + 1
    <3>1. /\ surfaces' \in [Keys -> Seq(Contents)] /\ lastLayer' \in [Keys -> Nat]
          /\ committed' \in [Keys -> Seq({"app", Cursor})]
          /\ \A l \in Keys \ {k} : /\ surfaces'[l] = surfaces[l]
                                   /\ lastLayer'[l] = lastLayer[l]
                                   /\ committed'[l] = committed[l]
          /\ lastLayer'[k] = n /\ Len(committed'[k]) = n
          /\ DOMAIN committed'[k] = DOMAIN committed[k] \cup {n}
          /\ \A i \in DOMAIN committed[k] : committed'[k][i] = committed[k][i]
          /\ committed'[k][n] = what
          /\ Len(surfaces'[k]) = IF n > Len(surfaces[k]) THEN n ELSE Len(surfaces[k])
          /\ surfaces'[k][n] = what
          /\ \A i \in DOMAIN surfaces[k] : i # n => surfaces'[k][i] = surfaces[k][i]
      BY <2>1, <1>1, <1>2, CommitFacts
    <3>2. n \in Nat /\ n >= 1 /\ n <= next /\ n <= Len(surfaces'[k])
      BY SMTT(30), <1>2, <3>1, HandleFacts
    <3>3. surfaces'[k] # << >>
      BY <3>2
    <3>4. ASSUME \A i \in DOMAIN committed[k] : surfaces[k][i] = committed[k][i]
          PROVE  \A i \in DOMAIN committed'[k] : surfaces'[k][i] = committed'[k][i]
      <4>. SUFFICES ASSUME NEW i \in DOMAIN committed'[k]
                    PROVE  surfaces'[k][i] = committed'[k][i]
        OBVIOUS
      <4>1. CASE i = n
        BY <4>1, <3>1
      <4>2. CASE i # n
        <5>1. i \in DOMAIN committed[k]
          BY <4>2, <3>1
        <5>2. i \in DOMAIN surfaces[k]
          BY <5>1, <2>0, <1>2
        <5>. QED BY <4>2, <5>1, <5>2, <3>1, <3>4
      <4>. QED BY <4>1, <4>2
    <3>. QED BY <3>1, <3>2, <3>3, <3>4
  <2>2. CASE /\ surfaces' = [surfaces EXCEPT ![k] = Opened(k)]
             /\ lastLayer' = lastLayer /\ committed' = committed
    <3>1. Opened(k) \in Seq(Contents) /\ Opened(k) # << >>
          /\ Len(surfaces[k]) <= Len(Opened(k))
          /\ \A i \in DOMAIN surfaces[k] : Opened(k)[i] = surfaces[k][i]
      <4>1. CASE surfaces[k] = << >>
        <5>1. Opened(k) = <<None>>
          BY <4>1 DEF Opened, Open
        <5>2. <<None>> \in Seq(Contents) /\ Len(<<None>>) = 1 /\ <<None>> # << >>
          BY DEF Contents
        <5>3. Len(surfaces[k]) = 0 /\ DOMAIN surfaces[k] = {}
          BY <4>1
        <5>. QED BY <5>1, <5>2, <5>3
      <4>2. CASE surfaces[k] # << >>
        BY <4>2, <1>1, <1>2 DEF Opened, Open
      <4>. QED BY <4>1, <4>2
    <3>2. surfaces'[k] = Opened(k) /\ \A l \in Keys \ {k} : surfaces'[l] = surfaces[l]
      BY <2>2, <1>1, <1>2 DEF SurfTypes
    <3>3. surfaces' \in [Keys -> Seq(Contents)]
      BY <2>2, <3>1, <1>2 DEF SurfTypes
    <3>4. \A i \in DOMAIN committed[k] : i \in DOMAIN surfaces[k]
      BY <2>0, <1>2
    <3>5. Len(Opened(k)) \in Nat
      BY <3>1
    <3>6. lastLayer[k] <= Len(surfaces'[k]) /\ lastLayer[k] <= next
      BY <1>2, <3>1, <3>2, <3>5, HandleFacts
    <3>7. lastLayer' \in [Keys -> Nat] /\ committed' \in [Keys -> Seq({"app", Cursor})]
      BY <1>2, <2>2 DEF SurfTypes
    <3>. QED BY <2>2, <1>2, <3>1, <3>2, <3>3, <3>4, <3>6, <3>7
  <2>. QED BY <1>3, <2>1, <2>2
<1>5. Open' = Open \cup {k}
  BY <1>1, <1>4 DEF Open
<1>6. SurfTypes'
  <2>1. next' \in Nat /\ UNCHANGED <<config, under, setPc, entered, reborn>>
    BY HandleFacts
  <2>. QED BY <2>1, <1>2, <1>3, <1>4 DEF SurfTypes
<1>7. FrameFits'
  <2>1. snapped' \subseteq Open' /\ (under' # None => under' \in Open')
    BY <1>2, <1>3, <1>5, HandleFacts DEF FrameFits
  <2>2. Open' \subseteq Staying(frame.mode)
    BY <1>2, <1>5, HandleFacts DEF FrameFits
  <2>3. \A l \in Keys : lastLayer'[l] <= config.apps + 1
    <3>1. lastLayer'[k] <= config.apps + 1
      BY <1>1, <1>4, HandleFacts
    <3>2. \A l \in Keys \ {k} : lastLayer'[l] <= config.apps + 1
      BY <1>2, <1>4 DEF FrameFits
    <3>. QED BY <3>1, <3>2
  <2>. QED BY <2>1, <2>2, <2>3, HandleFacts DEF FrameFits
<1>8. Counted'
  <2>1. \A l \in Keys \ {k} : lastLayer[l] = Len(committed[l])
                              /\ lastLayer[l] <= Len(surfaces[l]) /\ lastLayer[l] < next
    BY <1>2, HandleFacts DEF Counted
  <2>2. \A l \in Keys \ {k} : lastLayer'[l] = Len(committed'[l])
                              /\ lastLayer'[l] <= Len(surfaces'[l]) /\ lastLayer'[l] < next'
    BY <2>1, <1>2, <1>4, HandleFacts DEF SurfTypes
  <2>3. lastLayer'[k] < next'
    BY <1>1, <1>4, HandleFacts
  <2>. QED BY <2>2, <2>3, <1>4 DEF Counted
<1>9. ComposedInv'
  <2>1. setPc = "layers" /\ setPc' = "layers" /\ config' = config
    BY HandleFacts
  <2>2. SUFFICES ASSUME config.composing, NEW l \in Keys
                 PROVE  \A i \in DOMAIN committed'[l] : surfaces'[l][i] = committed'[l][i]
    BY <2>1 DEF ComposedInv
  <2>3. \A i \in DOMAIN committed[l] : surfaces[l][i] = committed[l][i]
    BY <1>2, <2>1, <2>2 DEF ComposedInv
  <2>4. CASE l = k
    BY <2>3, <2>4, <1>4
  <2>5. CASE l # k
    BY <2>3, <2>5, <1>4
  <2>. QED BY <2>4, <2>5
<1>10. CursorInv'
  <2>1. config.subsurface' => image' = None
    BY <1>2, HandleFacts DEF CursorInv
  <2>2. CursorHandled => CursorHandled'
    BY HandleFacts DEF CursorHandled
  <2>3. frame.layers[next] = Cursor => CursorHandled' /\ ~CursorHandled
    BY HandleFacts DEF CursorHandled
  <2>4. \A l \in Keys : \A i \in DOMAIN committed'[l] : committed'[l][i] = Cursor =>
          \/ i \in DOMAIN committed[l] /\ committed[l][i] = Cursor
          \/ l = k /\ i = lastLayer[k] + 1 /\ what = Cursor
    BY <1>4
  <2>5. \A l \in Keys : \A i \in DOMAIN committed[l] : committed[l][i] = Cursor =>
          config.subsurface /\ CursorHandled
    BY <1>2 DEF CursorInv
  <2>6. \A l \in Keys : \A i \in DOMAIN committed'[l] : committed'[l][i] = Cursor =>
          config.subsurface' /\ CursorHandled'
    BY <2>2, <2>3, <2>4, <2>5, HandleFacts
  <2>7. \A l, m \in Keys : \A i \in DOMAIN committed'[l], j \in DOMAIN committed'[m] :
          committed'[l][i] = Cursor /\ committed'[m][j] = Cursor => l = m /\ i = j
    <3>. SUFFICES ASSUME NEW l \in Keys, NEW m \in Keys, NEW i \in DOMAIN committed'[l],
                         NEW j \in DOMAIN committed'[m],
                         committed'[l][i] = Cursor, committed'[m][j] = Cursor
                  PROVE  l = m /\ i = j
      OBVIOUS
    <3>1. CASE what = Cursor
      BY <3>1, <2>3, <2>4, <2>5
    <3>2. CASE what # Cursor
      BY <3>2, <2>4, <1>2 DEF CursorInv
    <3>. QED BY <3>1, <3>2
  <2>. QED BY <2>1, <2>6, <2>7, HandleFacts DEF CursorInv
<1>. QED BY <1>1, <1>4, <1>5, <1>6, <1>7, <1>8, <1>9, <1>10

(* In another mode the full-ui window is closed: nothing can go wrong.      *)
LEMMA OtherModes ==
  ASSUME SurfacesInv, setPc # "idle", frame.mode # "fullUi"
  PROVE  /\ FullUi \notin Staying(frame.mode) /\ FullUi \notin Open
         /\ surfaces[FullUi] = << >> /\ committed[FullUi] = << >>
<1>1. frame \in Frames(config) /\ config \in Configs /\ Open \subseteq Staying(frame.mode)
  BY DEF SurfacesInv, SurfTypes, FrameFits
<1>2. FullUi \notin Staying(frame.mode)
  BY <1>1, FrameFacts, Names DEF Staying, WindowModes
<1>3. surfaces[FullUi] = << >>
  BY <1>1, <1>2, Names DEF Open
<1>4. Len(committed[FullUi]) <= 0 /\ committed[FullUi] \in Seq({"app", Cursor})
  BY <1>3, Names DEF SurfacesInv, SurfTypes, Counted
<1>5. committed[FullUi] = << >>
  BY <1>4
<1>. QED BY <1>1, <1>2, <1>3, <1>5

(* Two layers, the second appended to the first.                            *)
LEMMA AppendSecond ==
  ASSUME NEW x, NEW y
  PROVE  Append(<<x>>, y) = <<x, y>>
<1>1. <<x>> \in Seq({x, y}) /\ <<x, y>> \in Seq({x, y}) /\ y \in {x, y}
  OBVIOUS
<1>2. /\ Append(<<x>>, y) \in Seq({x, y}) /\ Len(Append(<<x>>, y)) = 2
      /\ Append(<<x>>, y)[1] = x /\ Append(<<x>>, y)[2] = y
  BY <1>1, AppendFacts
<1>3. PICK t \in Seq({x, y}) : t = Append(<<x>>, y)
  BY <1>2
<1>4. Len(t) = 2 /\ t[1] = x /\ t[2] = y
  BY <1>2, <1>3
<1>5. t = <<x, y>>
  BY <1>4
<1>. QED BY <1>3, <1>5

(* The app, then the cursor: what the full-ui window shows after a commit.  *)
LEMMA FullUiCommit ==
  ASSUME SurfacesInv, HandleNext, ~config.composing, failures = 0, ~reborn,
         frame.mode = "fullUi", NEW what \in {"app", Cursor}, Commit(FullUi, what), NEW w,
         what = IF frame.layers[next] = Cursor THEN Cursor ELSE "app",
         w = IF what = Cursor THEN FullUi ELSE windowKey
  PROVE  /\ TwoSurfaces(surfaces'[FullUi], committed'[FullUi], w)
         /\ Progress(frame.layers, next + 1, committed'[FullUi], w)
<1>1. /\ SurfTypes /\ lastLayer[FullUi] = Len(committed[FullUi])
      /\ lastLayer[FullUi] <= Len(surfaces[FullUi])
      /\ TwoSurfaces(surfaces[FullUi], committed[FullUi], windowKey)
      /\ Progress(frame.layers, next, committed[FullUi], windowKey)
  <2>1. setPc # "idle"
    BY HandleFacts
  <2>. QED BY <2>1, Names DEF SurfacesInv, Counted, FullUiInv
<1>2. PICK s \in Seq(Contents), c \in Seq({"app", Cursor}) :
        s = surfaces[FullUi] /\ c = committed[FullUi]
  BY <1>1, Names DEF SurfTypes
<1>3. PICK s2, c2 : s2 = surfaces'[FullUi] /\ c2 = committed'[FullUi]
  OBVIOUS
<1>4. /\ Len(s) \in Nat /\ Len(c) \in Nat /\ Len(c) <= Len(s)
      /\ DOMAIN s = 1..Len(s) /\ DOMAIN c = 1..Len(c)
  BY <1>1, <1>2
<1>5. /\ c2 = Append(c, what) /\ DOMAIN c2 = DOMAIN c \cup {Len(c) + 1}
      /\ \A i \in DOMAIN c : c2[i] = c[i]
      /\ c2[Len(c) + 1] = what
      /\ Len(s2) = IF Len(c) + 1 > Len(s) THEN Len(c) + 1 ELSE Len(s)
      /\ s2[Len(c) + 1] = what
      /\ \A i \in DOMAIN s : i # Len(c) + 1 => s2[i] = s[i]
      /\ s2 \in Seq(Contents)
  BY <1>1, <1>2, <1>3, CommitFacts, Names
<1>6. frame.layers \in {<<FullUi>>, <<FullUi, Cursor>>, <<Cursor, FullUi>>}
      /\ next \in Nat /\ 1 <= next /\ next <= Len(frame.layers)
  BY HandleFacts, FullUiLayers
<1>7. /\ \/ c = << >> /\ what = "app" /\ c2 = <<"app">> /\ w = windowKey
         \/ c = << >> /\ what = Cursor /\ c2 = <<Cursor>> /\ w = FullUi
         \/ c = <<"app">> /\ what = Cursor /\ c2 = <<"app", Cursor>> /\ w = FullUi
         \/ c = <<Cursor>> /\ what = "app" /\ c2 = <<Cursor, "app">> /\ w = FullUi
      /\ Progress(frame.layers, next + 1, c2, w)
  <2>1. Progress(frame.layers, next, c, windowKey)
    BY <1>1, <1>2
  <2>2. CASE frame.layers = <<FullUi>>
    <3>1. next = 1 /\ frame.layers[next] # Cursor /\ <<FullUi>> # <<FullUi, Cursor>>
          /\ <<FullUi>> # <<Cursor, FullUi>>
      BY <2>2, <1>6, Names
    <3>2. c = << >> /\ what = "app" /\ c2 = <<"app">> /\ w = windowKey
      BY <3>1, <2>1, <2>2, <1>5, Names DEF Progress
    <3>3. next + 1 = 2
      BY <3>1
    <3>. QED BY <2>2, <3>2, <3>3 DEF Progress
  <2>3. CASE frame.layers = <<FullUi, Cursor>>
    <3>0. <<FullUi, Cursor>> # <<Cursor, FullUi>> /\ <<FullUi, Cursor>> # <<FullUi>>
      BY Names
    <3>1. CASE next = 1
      <4>1. c = << >> /\ frame.layers[next] # Cursor
        BY <3>1, <2>1, <2>3, Names DEF Progress
      <4>2. what = "app" /\ c2 = <<"app">> /\ w = windowKey
        BY <4>1, <1>5, Names
      <4>3. next + 1 = 2
        BY <3>1
      <4>. QED BY <2>3, <4>1, <4>2, <4>3 DEF Progress
    <3>2. CASE next = 2
      <4>1. c = <<"app">> /\ frame.layers[next] = Cursor
        BY <3>0, <3>2, <2>1, <2>3 DEF Progress
      <4>2. what = Cursor /\ c2 = <<"app", Cursor>> /\ w = FullUi
        BY <4>1, <1>5, AppendSecond
      <4>3. next + 1 = 3
        BY <3>2
      <4>. QED BY <2>3, <4>1, <4>2, <4>3 DEF Progress
    <3>3. next = 1 \/ next = 2
      BY <2>3, <1>6
    <3>. QED BY <3>1, <3>2, <3>3
  <2>4. CASE frame.layers = <<Cursor, FullUi>>
    <3>0. <<Cursor, FullUi>> # <<FullUi, Cursor>> /\ <<Cursor, FullUi>> # <<FullUi>>
      BY Names
    <3>1. CASE next = 1
      <4>1. c = << >> /\ frame.layers[next] = Cursor
        BY <3>1, <2>1, <2>4, Names DEF Progress
      <4>2. what = Cursor /\ c2 = <<Cursor>> /\ w = FullUi
        BY <4>1, <1>5
      <4>3. next + 1 = 2
        BY <3>1
      <4>. QED BY <2>4, <4>1, <4>2, <4>3 DEF Progress
    <3>2. CASE next = 2
      <4>1. frame.layers[next] # Cursor
        BY <3>2, <2>4, Names
      <4>2. what = "app" /\ w = windowKey
        BY <4>1, Names
      <4>3. \/ c = << >> /\ windowKey = None
            \/ c = <<Cursor>> /\ windowKey = FullUi
        BY <3>0, <3>2, <2>1, <2>4 DEF Progress
      <4>4. next + 1 = 3
        BY <3>2
      <4>5. CASE c = << >> /\ windowKey = None
        <5>1. c2 = <<"app">>
          BY <4>2, <4>5, <1>5
        <5>. QED BY <2>4, <4>2, <4>4, <4>5, <5>1 DEF Progress
      <4>6. CASE c = <<Cursor>> /\ windowKey = FullUi
        <5>1. c2 = <<Cursor, "app">>
          BY <4>2, <4>6, <1>5, AppendSecond
        <5>. QED BY <2>4, <4>2, <4>4, <4>6, <5>1 DEF Progress
      <4>. QED BY <4>3, <4>5, <4>6
    <3>3. next = 1 \/ next = 2
      BY <2>4, <1>6
    <3>. QED BY <3>1, <3>2, <3>3
  <2>. QED BY <2>2, <2>3, <2>4, <1>6
<1>8. TwoSurfaces(s2, c2, w)
  <2>1. /\ Len(s) <= 2
        /\ windowKey = FullUi => s # << >> /\ (c # <<Cursor>> => Len(s) = 2)
        /\ windowKey # FullUi /\ Len(s) = 2 => s[2] = None
        /\ \A i \in DOMAIN c : s[i] = c[i]
    BY <1>1, <1>2 DEF TwoSurfaces
  <2>2. Len(c) \in {0, 1}
    BY <1>7
  <2>3. Len(s2) \in Nat /\ Len(s2) <= 2 /\ Len(s2) >= Len(c) + 1 /\ Len(s2) >= Len(s)
    BY <2>1, <2>2, <1>4, <1>5
  <2>4. \A i \in DOMAIN c2 : s2[i] = c2[i]
    <3>. SUFFICES ASSUME NEW i \in DOMAIN c2 PROVE s2[i] = c2[i]
      OBVIOUS
    <3>1. CASE i = Len(c) + 1
      BY <3>1, <1>5
    <3>2. CASE i # Len(c) + 1
      <4>1. i \in DOMAIN c /\ i \in DOMAIN s
        BY <3>2, <1>4, <1>5
      <4>. QED BY <4>1, <3>2, <2>1, <1>5
    <3>. QED BY <3>1, <3>2
  <2>5. s2 # << >>
    BY <2>3, <1>4
  <2>6. CASE c = << >> /\ what = "app" /\ c2 = <<"app">> /\ w = windowKey
    <3>1. Len(c) = 0 /\ <<"app">> # <<Cursor>> /\ c # <<Cursor>>
      BY <2>6, Names
    <3>2. w = FullUi => Len(s2) = 2
      BY <2>1, <2>3, <2>6, <3>1, <1>4
    <3>3. w # FullUi /\ Len(s2) = 2 => s2[2] = None
      <4>1. SUFFICES ASSUME w # FullUi, Len(s2) = 2 PROVE s2[2] = None
        OBVIOUS
      <4>2. Len(s) = 2
        BY SMTT(30), <4>1, <3>1, <1>4, <1>5
      <4>. QED BY <4>1, <4>2, <2>1, <2>6, <3>1, <1>4, <1>5
    <3>. QED BY <2>3, <2>4, <2>5, <3>2, <3>3 DEF TwoSurfaces
  <2>7. CASE c = << >> /\ what = Cursor /\ c2 = <<Cursor>> /\ w = FullUi
    BY <2>3, <2>4, <2>5, <2>7 DEF TwoSurfaces
  <2>8. CASE Len(c) = 1 /\ w = FullUi
    <3>1. Len(s2) = 2
      <4>1. \A m, n \in Nat : m <= 2 /\ m >= n + 1 /\ n = 1 => m = 2
        OBVIOUS
      <4>. QED BY <4>1, <2>3, <2>8, <1>4
    <3>. QED BY <2>4, <2>5, <2>8, <3>1 DEF TwoSurfaces
  <2>9. c = <<"app">> \/ c = <<Cursor>> => Len(c) = 1
    OBVIOUS
  <2>. QED BY <2>6, <2>7, <2>8, <2>9, <1>7
<1>. QED BY <1>3, <1>7, <1>8

(* What is left of FullUiInv while the loop runs in another mode, or after  *)
(* it: the window has no surface.                                           *)
LEMMA FullUiClosed ==
  ASSUME NEW s, NEW c, NEW w, s = << >>, c = << >>, w # FullUi
  PROVE  TwoSurfaces(s, c, w)
BY DEF TwoSurfaces

(* A layer of an app.                                                       *)
LEMMA DrawAppInv ==
  ASSUME SurfacesInv, DrawApp
  PROVE  SurfacesInv'
<1>1. HandleNext /\ windowKey' = windowKey /\ image' = image
  BY DEF DrawApp
<1>2. PICK k : k = frame.layers[next]
  OBVIOUS
<1>3. k # Cursor /\ (ApplyLayer(k, "app") \/ ApplyFails(k, "app"))
  BY <1>2 DEF DrawApp
<1>4. k \in Drawable(frame.mode, frame.target) /\ k \in Staying(frame.mode)
  BY <1>1, <1>2, <1>3, HandleFacts
<1>5. windowKey' \in Keys \cup {None} /\ "app" # Cursor
  BY <1>1, Names DEF SurfacesInv, SurfTypes
<1>6. /\ SurfTypes' /\ FrameFits' /\ Counted' /\ ComposedInv' /\ CursorInv'
      /\ Open' = Open \cup {k} /\ k \in Keys
      /\ \A l \in Keys \ {k} : surfaces'[l] = surfaces[l] /\ committed'[l] = committed[l]
  BY <1>1, <1>3, <1>4, <1>5, DrawKeeps
<1>7. FullUiInv'
  <2>0. config' = config /\ reborn' = reborn /\ frame' = frame /\ setPc = "layers"
        /\ setPc' = "layers" /\ next' = next + 1
    BY <1>1, HandleFacts
  <2>1. SUFFICES ASSUME ~config.composing, failures' = 0, ~reborn PROVE FullUiInv'
    BY <2>0 DEF FullUiInv
  <2>2. failures = 0 /\ Commit(k, "app")
    BY <2>1, <1>3 DEF ApplyLayer, ApplyFails, SurfacesInv, SurfTypes
  <2>3. windowKey \in Open \cup {None} /\ (~config.subsurface => windowKey = None)
        /\ TwoSurfaces(surfaces[FullUi], committed[FullUi], windowKey)
    BY <2>1, <2>2 DEF SurfacesInv, FullUiInv
  <2>4. CASE frame.mode = "fullUi"
    <3>1. k = FullUi
      BY <2>4, <1>4 DEF Drawable
    <3>2. /\ TwoSurfaces(surfaces'[FullUi], committed'[FullUi], windowKey)
          /\ Progress(frame.layers, next + 1, committed'[FullUi], windowKey)
      BY <3>1, <1>1, <1>2, <1>3, <1>5, <2>1, <2>2, <2>4, FullUiCommit
    <3>. QED BY <1>1, <1>6, <2>0, <2>3, <3>2 DEF FullUiInv
  <2>5. CASE frame.mode # "fullUi"
    <3>1. FullUi \notin Staying(frame.mode)
      BY <2>0, <2>5, OtherModes
    <3>2. surfaces'[FullUi] = surfaces[FullUi] /\ committed'[FullUi] = committed[FullUi]
      BY <3>1, <1>4, <1>6, Names
    <3>. QED BY <1>1, <1>6, <2>0, <2>3, <2>5, <3>2 DEF FullUiInv
  <2>. QED BY <2>4, <2>5
<1>. QED BY <1>6, <1>7 DEF SurfacesInv

(* The cursor's layer, on the window the pointer is in.                     *)
LEMMA DrawCursorInv ==
  ASSUME SurfacesInv, DrawCursorOnWindow
  PROVE  SurfacesInv'
<1>1. /\ HandleNext /\ frame.layers[next] = Cursor /\ config.subsurface /\ under # None
      /\ image' = image
      /\ ApplyLayer(under, Cursor) \/ ApplyFails(under, Cursor)
      /\ windowKey' \in {under, None}
  BY DEF DrawCursorOnWindow, AtCursor
<1>2. under \in Open /\ under \in Keys /\ under \in Staying(frame.mode)
  BY <1>1, HandleFacts DEF SurfacesInv, SurfTypes, FrameFits
<1>3. windowKey' \in Keys \cup {None}
  BY <1>1, <1>2
<1>4. /\ SurfTypes' /\ FrameFits' /\ Counted' /\ ComposedInv' /\ CursorInv'
      /\ Open' = Open \cup {under}
      /\ \A l \in Keys \ {under} : surfaces'[l] = surfaces[l] /\ committed'[l] = committed[l]
  BY <1>1, <1>2, <1>3, DrawKeeps
<1>5. FullUiInv'
  <2>0. config' = config /\ reborn' = reborn /\ frame' = frame /\ setPc = "layers"
        /\ setPc' = "layers" /\ next' = next + 1
    BY <1>1, HandleFacts
  <2>1. SUFFICES ASSUME ~config.composing, failures' = 0, ~reborn PROVE FullUiInv'
    BY <2>0 DEF FullUiInv
  <2>2. failures = 0 /\ ApplyLayer(under, Cursor) /\ windowKey' = under
    BY <2>1 DEF DrawCursorOnWindow, ApplyFails, ApplyLayer, SurfacesInv, SurfTypes
  <2>3. Commit(under, Cursor)
    BY <2>2 DEF ApplyLayer
  <2>4. CASE frame.mode = "fullUi"
    <3>1. under = FullUi
      BY <2>4, <1>2 DEF Staying
    <3>2. /\ TwoSurfaces(surfaces'[FullUi], committed'[FullUi], FullUi)
          /\ Progress(frame.layers, next + 1, committed'[FullUi], FullUi)
      BY <3>1, <1>1, <2>1, <2>2, <2>3, <2>4, FullUiCommit
    <3>. QED BY <1>1, <1>4, <2>0, <2>2, <3>1, <3>2 DEF FullUiInv
  <2>5. CASE frame.mode # "fullUi"
    <3>1. FullUi \notin Staying(frame.mode) /\ surfaces[FullUi] = << >>
          /\ committed[FullUi] = << >>
      BY <2>0, <2>5, OtherModes
    <3>2. surfaces'[FullUi] = << >> /\ committed'[FullUi] = << >> /\ windowKey' # FullUi
      BY <3>1, <1>2, <1>4, <2>2, Names
    <3>3. TwoSurfaces(surfaces'[FullUi], committed'[FullUi], windowKey')
      BY <3>2, FullUiClosed
    <3>. QED BY <1>1, <1>4, <2>0, <2>2, <2>5, <3>3 DEF FullUiInv
  <2>. QED BY <2>4, <2>5
<1>. QED BY <1>4, <1>5 DEF SurfacesInv

-----------------------------------------------------------------------------
(* A step of the loop, or its end, that commits nothing and closes nothing. *)
LEMMA NothingCommitted ==
  ASSUME SurfacesInv, setPc = "layers", surfaces' \in [Keys -> Seq(Contents)],
         \A k \in Keys : Len(surfaces'[k]) = Len(surfaces[k]),
         UNCHANGED <<config, lastLayer, lastBuffer, snapped, under, frame, committed, entered,
                     reborn>>,
         windowKey' \in Keys \cup {None}, image' \in {None, Cursor}, failures' \in Nat,
         \/ next <= Len(frame.layers) /\ next' = next + 1 /\ setPc' = "layers"
         \/ next > Len(frame.layers) /\ next' = next /\ setPc' = "done",
         config.subsurface => image' = None,
         setPc' = "done" /\ image' = Cursor => Cursor \in ToSet(frame.layers)
  PROVE  SurfTypes' /\ FrameFits' /\ Counted' /\ CursorInv' /\ Open' = Open
<1>1. SurfTypes /\ FrameFits /\ Counted /\ CursorInv /\ next \in Nat
  BY DEF SurfacesInv, SurfTypes
<1>2. next' \in Nat /\ setPc' \in {"layers", "done"} /\ next <= next'
  BY <1>1
<1>3. SurfTypes'
  BY <1>1, <1>2 DEF SurfTypes
<1>4. Open' = Open
  <2>1. \A k \in Keys : surfaces[k] \in Seq(Contents) /\ surfaces'[k] \in Seq(Contents)
    BY <1>1 DEF SurfTypes
  <2>2. \A k \in Keys : surfaces[k] = << >> <=> surfaces'[k] = << >>
    BY <2>1
  <2>. QED BY <2>2 DEF Open
<1>5. frame \in Frames(config) /\ config \in Configs
  BY <1>1 DEF FrameFits, SurfTypes
<1>6. Len(frame.layers) \in Nat
  BY <1>5, FrameFacts, LayerFacts
<1>7. FrameFits'
  <2>1. /\ 1 <= next' /\ next' <= Len(frame.layers) + 1
        /\ setPc' = "done" => next' = Len(frame.layers) + 1
    <3>1. 1 <= next /\ next <= Len(frame.layers) + 1
      BY <1>1 DEF FrameFits
    <3>2. CASE next <= Len(frame.layers) /\ next' = next + 1 /\ setPc' = "layers"
      BY <3>1, <3>2, <1>1, <1>6
    <3>3. CASE next > Len(frame.layers) /\ next' = next /\ setPc' = "done"
      BY <3>1, <3>3, <1>1, <1>6
    <3>. QED BY <3>2, <3>3
  <2>. QED BY <1>1, <1>2, <1>4, <1>5, <2>1 DEF FrameFits
<1>8. Counted'
  <2>1. \A k \in Keys : lastLayer[k] = Len(committed[k]) /\ lastLayer[k] <= Len(surfaces'[k])
                        /\ lastLayer[k] < next /\ lastLayer[k] \in Nat
    BY <1>1 DEF Counted, SurfTypes
  <2>2. \A k \in Keys : lastLayer[k] < next'
    BY <2>1, <1>1, <1>2
  <2>. QED BY <2>1, <2>2 DEF Counted
<1>9. CursorInv'
  <2>1. CursorHandled => CursorHandled'
    <3>1. \A j \in DOMAIN frame.layers : j \in Nat
      BY <1>5, <1>6, FrameFacts, LayerFacts
    <3>. QED BY <3>1, <1>1, <1>2 DEF CursorHandled
  <2>. QED BY <1>1, <2>1 DEF CursorInv
<1>. QED BY <1>3, <1>4, <1>7, <1>8, <1>9

(* What clear_previous_subsurface_if_needed does.                           *)
LEMMA ClearFacts ==
  ASSUME SurfacesInv, ClearPrevious
  PROVE  /\ surfaces' \in [Keys -> Seq(Contents)]
         /\ \A k \in Keys : Len(surfaces'[k]) = Len(surfaces[k])
         /\ windowKey' \in Keys \cup {None}
         /\ config.composing => surfaces' = surfaces
         /\ ~config.composing /\ windowKey \in Open \cup {None} =>
              /\ windowKey' = None
              /\ \A k \in Keys \ {windowKey} : surfaces'[k] = surfaces[k]
              /\ windowKey # None =>
                   /\ \A i \in DOMAIN surfaces[windowKey] : i # Len(surfaces[windowKey]) =>
                        surfaces'[windowKey][i] = surfaces[windowKey][i]
                   /\ surfaces'[windowKey][Len(surfaces[windowKey])] = None
<1>1. SurfTypes
  BY DEF SurfacesInv
<1>2. CASE config.composing \/ windowKey = None
  BY <1>1, <1>2 DEF ClearPrevious, SurfTypes
<1>3. CASE ~(config.composing \/ windowKey = None) /\ windowKey \notin Open
  BY <1>1, <1>3 DEF ClearPrevious, SurfTypes
<1>4. CASE ~(config.composing \/ windowKey = None) /\ windowKey \in Open
  <2>. DEFINE s == surfaces[windowKey]
              t == [s EXCEPT ![Len(s)] = None]
  <2>1. windowKey \in Keys /\ s \in Seq(Contents) /\ s # << >> /\ None \in Contents
    BY <1>1, <1>4 DEF SurfTypes, Open, Contents
  <2>2. Len(s) \in DOMAIN s
    BY <2>1
  <2>3. /\ t \in Seq(Contents) /\ Len(t) = Len(s) /\ t[Len(s)] = None
        /\ \A i \in DOMAIN s : i # Len(s) => t[i] = s[i]
    BY <2>1, <2>2, UpdateFacts
  <2>4. surfaces' = [surfaces EXCEPT ![windowKey] = t] /\ windowKey' = None
    BY <1>4 DEF ClearPrevious
  <2>. HIDE DEF t
  <2>5. surfaces' \in [Keys -> Seq(Contents)]
    BY <1>1, <2>1, <2>3, <2>4 DEF SurfTypes
  <2>6. surfaces'[windowKey] = t /\ \A k \in Keys \ {windowKey} : surfaces'[k] = surfaces[k]
    BY <1>1, <2>1, <2>4 DEF SurfTypes
  <2>7. \A k \in Keys : Len(surfaces'[k]) = Len(surfaces[k])
    BY <2>3, <2>6
  <2>. QED BY <1>4, <2>3, <2>4, <2>5, <2>6, <2>7
<1>. QED BY <1>2, <1>3, <1>4

(* In full-ui mode it empties the second surface, never the app's.          *)
LEMMA ClearKeeps ==
  ASSUME SurfacesInv, ClearPrevious, ~config.composing, failures = 0, ~reborn,
         windowKey = FullUi => committed[FullUi] # <<Cursor>> /\ Len(committed[FullUi]) <= 1
  PROVE  windowKey' = None /\ TwoSurfaces(surfaces'[FullUi], committed[FullUi], None)
<1>1. /\ windowKey \in Open \cup {None} /\ SurfTypes
      /\ TwoSurfaces(surfaces[FullUi], committed[FullUi], windowKey)
  BY DEF SurfacesInv, FullUiInv
<1>2. /\ windowKey' = None /\ \A k \in Keys \ {windowKey} : surfaces'[k] = surfaces[k]
      /\ windowKey # None =>
           /\ \A i \in DOMAIN surfaces[windowKey] : i # Len(surfaces[windowKey]) =>
                surfaces'[windowKey][i] = surfaces[windowKey][i]
           /\ surfaces'[windowKey][Len(surfaces[windowKey])] = None
      /\ Len(surfaces'[FullUi]) = Len(surfaces[FullUi])
  BY <1>1, ClearFacts, Names
<1>3. CASE windowKey # FullUi
  <2>1. surfaces'[FullUi] = surfaces[FullUi]
    BY <1>2, <1>3, Names
  <2>. QED BY <1>1, <1>2, <1>3, <2>1, Names DEF TwoSurfaces
<1>4. CASE windowKey = FullUi
  <2>1. PICK s \in Seq(Contents), c \in Seq({"app", Cursor}), t \in Seq(Contents) :
          s = surfaces[FullUi] /\ c = committed[FullUi] /\ t = surfaces'[FullUi]
    BY <1>1, ClearFacts, Names DEF SurfTypes
  <2>2. /\ Len(s) = 2 /\ Len(t) = 2 /\ Len(c) <= 1 /\ Len(c) \in Nat /\ DOMAIN c = 1..Len(c)
        /\ DOMAIN s = 1..2
        /\ \A i \in DOMAIN c : s[i] = c[i]
    BY <1>1, <1>2, <1>4, <2>1 DEF TwoSurfaces
  <2>3. t[2] = None /\ \A i \in DOMAIN s : i # 2 => t[i] = s[i]
    BY <1>2, <1>4, <2>1, <2>2, Names
  <2>4. \A i \in DOMAIN c : t[i] = c[i]
    <3>. SUFFICES ASSUME NEW i \in DOMAIN c PROVE t[i] = c[i]
      OBVIOUS
    <3>1. i \in DOMAIN s /\ i # 2
      BY <2>2
    <3>. QED BY <3>1, <2>2, <2>3
  <2>5. TwoSurfaces(t, c, None)
    BY <2>2, <2>3, <2>4, Names DEF TwoSurfaces
  <2>. QED BY <1>2, <2>1, <2>5
<1>. QED BY <1>3, <1>4

(* The cursor's layer without a window for it: the app may be committed     *)
(* already or not.                                                          *)
LEMMA CursorSkipped ==
  ASSUME SurfacesInv, HandleNext, frame.layers[next] = Cursor, ~config.composing,
         failures = 0, ~reborn, frame.mode = "fullUi"
  PROVE  /\ committed[FullUi] # <<Cursor>> /\ Len(committed[FullUi]) <= 1
         /\ Progress(frame.layers, next + 1, committed[FullUi], None)
<1>1. Progress(frame.layers, next, committed[FullUi], windowKey)
  <2>1. setPc # "idle"
    BY HandleFacts
  <2>. QED BY <2>1 DEF SurfacesInv, FullUiInv
<1>2. frame.layers \in {<<FullUi>>, <<FullUi, Cursor>>, <<Cursor, FullUi>>}
      /\ next \in Nat /\ 1 <= next /\ next <= Len(frame.layers)
  BY HandleFacts, FullUiLayers
<1>3. <<"app">> # <<Cursor>> /\ << >> # <<Cursor>> /\ Len(<<"app">>) = 1 /\ Len(<< >>) = 0
  BY Names
<1>4. CASE frame.layers = <<FullUi>>
  <2>1. next = 1
    BY <1>2, <1>4
  <2>. QED BY <2>1, <1>4, Names
<1>5. CASE frame.layers = <<FullUi, Cursor>>
  <2>1. next = 2 /\ next + 1 = 3
    <3>1. next \in {1, 2}
      BY <1>2, <1>5
    <3>2. next # 1
      BY <1>5, Names
    <3>. QED BY <3>1, <3>2
  <2>2. <<FullUi, Cursor>> # <<Cursor, FullUi>> /\ <<FullUi, Cursor>> # <<FullUi>>
    BY Names
  <2>3. committed[FullUi] = <<"app">>
    BY <1>1, <1>5, <2>1, <2>2 DEF Progress
  <2>. QED BY <1>3, <1>5, <2>1, <2>3 DEF Progress
<1>6. CASE frame.layers = <<Cursor, FullUi>>
  <2>1. next = 1 /\ next + 1 = 2
    <3>1. next \in {1, 2}
      BY <1>2, <1>6
    <3>2. next # 2
      BY <1>6, Names
    <3>. QED BY <3>1, <3>2
  <2>2. committed[FullUi] = << >>
    BY <1>1, <2>1 DEF Progress
  <2>. QED BY <1>3, <1>6, <2>1, <2>2 DEF Progress
<1>. QED BY <1>2, <1>4, <1>5, <1>6

(* The pointer is in no window: the last cursor on one is emptied.          *)
LEMMA DropCursorInv ==
  ASSUME SurfacesInv, DropCursor
  PROVE  SurfacesInv'
<1>1. /\ HandleNext /\ frame.layers[next] = Cursor /\ config.subsurface /\ ClearPrevious
      /\ UNCHANGED <<lastLayer, lastBuffer, snapped, committed, failures, image>>
  BY DEF DropCursor, AtCursor
<1>2. /\ setPc = "layers" /\ setPc' = "layers" /\ next <= Len(frame.layers) /\ next' = next + 1
      /\ UNCHANGED <<config, under, frame, entered, reborn>>
  BY <1>1, HandleFacts
<1>3. /\ surfaces' \in [Keys -> Seq(Contents)]
      /\ \A k \in Keys : Len(surfaces'[k]) = Len(surfaces[k])
      /\ windowKey' \in Keys \cup {None}
      /\ config.composing => surfaces' = surfaces
  BY <1>1, ClearFacts
<1>4. image \in {None, Cursor} /\ failures \in Nat /\ (config.subsurface => image = None)
  BY DEF SurfacesInv, SurfTypes, CursorInv
<1>5. SurfTypes' /\ FrameFits' /\ Counted' /\ CursorInv' /\ Open' = Open
  BY <1>1, <1>2, <1>3, <1>4, NothingCommitted
<1>6. ComposedInv'
  BY <1>1, <1>2, <1>3 DEF SurfacesInv, ComposedInv
<1>7. FullUiInv'
  <2>1. SUFFICES ASSUME ~config.composing, failures = 0, ~reborn PROVE FullUiInv'
    BY <1>1, <1>2 DEF FullUiInv
  <2>2. frame.mode = "fullUi" =>
          /\ committed[FullUi] # <<Cursor>> /\ Len(committed[FullUi]) <= 1
          /\ Progress(frame.layers, next + 1, committed[FullUi], None)
    BY <1>1, <2>1, CursorSkipped
  <2>3. frame.mode # "fullUi" => windowKey # FullUi
    BY <1>2, <2>1, OtherModes, Names DEF SurfacesInv, FullUiInv
  <2>4. windowKey' = None /\ TwoSurfaces(surfaces'[FullUi], committed[FullUi], None)
    BY <1>1, <2>1, <2>2, <2>3, ClearKeeps
  <2>. QED BY <1>1, <1>2, <2>2, <2>4 DEF FullUiInv
<1>. QED BY <1>5, <1>6, <1>7 DEF SurfacesInv

(* The cursor's layer as the pointer's image.                               *)
LEMMA DrawImageInv ==
  ASSUME SurfacesInv, DrawCursorImage
  PROVE  SurfacesInv'
<1>1. /\ HandleNext /\ frame.layers[next] = Cursor /\ ~config.subsurface
      /\ UNCHANGED <<surfaces, lastLayer, lastBuffer, snapped, windowKey, committed>>
      /\ image' \in {image, Cursor} /\ failures' \in {failures, failures + 1}
  BY DEF DrawCursorImage, AtCursor, windowVars
<1>2. /\ setPc = "layers" /\ setPc' = "layers" /\ next <= Len(frame.layers) /\ next' = next + 1
      /\ UNCHANGED <<config, under, frame, entered, reborn>>
  BY <1>1, HandleFacts
<1>3. /\ surfaces \in [Keys -> Seq(Contents)] /\ windowKey \in Keys \cup {None}
      /\ image' \in {None, Cursor} /\ failures' \in Nat
  BY <1>1 DEF SurfacesInv, SurfTypes
<1>4. SurfTypes' /\ FrameFits' /\ Counted' /\ CursorInv' /\ Open' = Open
  BY <1>1, <1>2, <1>3, NothingCommitted
<1>5. ComposedInv'
  BY <1>1, <1>2 DEF SurfacesInv, ComposedInv
<1>6. FullUiInv'
  <2>1. SUFFICES ASSUME ~config.composing, failures = 0, ~reborn PROVE FullUiInv'
    BY <1>1, <1>2 DEF FullUiInv, SurfacesInv, SurfTypes
  <2>2. windowKey = None /\ TwoSurfaces(surfaces[FullUi], committed[FullUi], windowKey)
    BY <1>1, <2>1 DEF SurfacesInv, FullUiInv
  <2>3. frame.mode = "fullUi" =>
          Progress(frame.layers, next + 1, committed[FullUi], None)
    BY <1>1, <2>1, CursorSkipped
  <2>. QED BY <1>1, <1>2, <2>2, <2>3 DEF FullUiInv
<1>. QED BY <1>4, <1>5, <1>6 DEF SurfacesInv

(* post_processing keeps what was committed and empties the rest.           *)
LEMMA PostProcessingFacts ==
  ASSUME SurfacesInv, setPc = "layers"
  PROVE  /\ PostProcessing \in [Keys -> Seq(Contents)]
         /\ \A k \in Keys :
              /\ Len(PostProcessing[k]) = Len(surfaces[k])
              /\ DOMAIN PostProcessing[k] = DOMAIN surfaces[k]
              /\ \A i \in DOMAIN surfaces[k] : i <= lastLayer[k] =>
                   PostProcessing[k][i] = surfaces[k][i]
              /\ config.composing /\ frame.mode # "closed" /\ frame.geometry
                   /\ committed[k] # << >> =>
                   \A i \in DOMAIN surfaces[k] : i > lastLayer[k] =>
                     PostProcessing[k][i] = None
         /\ ~config.composing => PostProcessing = surfaces
<1>1. /\ surfaces \in [Keys -> Seq(Contents)] /\ lastLayer \in [Keys -> Nat]
      /\ \A k \in Keys : committed[k] # << >> => lastLayer[k] # 0
  <2>1. \A k \in Keys : lastLayer[k] = Len(committed[k])
                        /\ committed[k] \in Seq({"app", Cursor})
    BY DEF SurfacesInv, Counted, SurfTypes
  <2>. QED BY <2>1 DEF SurfacesInv, SurfTypes
<1>2. CASE config.composing /\ frame.mode # "closed" /\ frame.geometry
  <2>1. ASSUME NEW k \in Keys
        PROVE  /\ PostProcessing[k] = Neutralized(surfaces[k], k)
               /\ Neutralized(surfaces[k], k) \in Seq(Contents)
               /\ Len(Neutralized(surfaces[k], k)) = Len(surfaces[k])
               /\ DOMAIN Neutralized(surfaces[k], k) = DOMAIN surfaces[k]
               /\ \A i \in DOMAIN surfaces[k] : i <= lastLayer[k] =>
                    Neutralized(surfaces[k], k)[i] = surfaces[k][i]
               /\ committed[k] # << >> =>
                    \A i \in DOMAIN surfaces[k] : i > lastLayer[k] =>
                      Neutralized(surfaces[k], k)[i] = None
    <3>. DEFINE s == surfaces[k]
                t == [i \in DOMAIN s |-> IF i <= lastLayer[k] THEN s[i] ELSE None]
    <3>1. s \in Seq(Contents) /\ DOMAIN s = 1..Len(s) /\ Len(s) \in Nat /\ None \in Contents
          /\ lastLayer[k] \in Nat /\ \A i \in DOMAIN s : s[i] \in Contents /\ i \in Nat
      BY <1>1, <2>1 DEF Contents
    <3>2. t \in [1..Len(s) -> Contents]
      BY <3>1
    <3>3. t \in Seq(Contents) /\ Len(t) = Len(s) /\ DOMAIN t = DOMAIN s
      BY <3>1, <3>2
    <3>4. \A i \in DOMAIN s : /\ i <= lastLayer[k] => t[i] = s[i]
                              /\ i > lastLayer[k] => t[i] = None
      BY <3>1
    <3>5. PostProcessing[k] = Neutralized(s, k)
      BY <1>2, <2>1 DEF PostProcessing
    <3>6. Neutralized(s, k) = IF lastLayer[k] = 0 THEN s ELSE t
      BY DEF Neutralized
    <3>. HIDE DEF t
    <3>7. CASE lastLayer[k] = 0
      BY <3>1, <3>5, <3>6, <3>7, <1>1, <2>1
    <3>8. CASE lastLayer[k] # 0
      BY <3>1, <3>3, <3>4, <3>5, <3>6, <3>8
    <3>. QED BY <3>7, <3>8
  <2>2. PostProcessing = [k \in Keys |-> Neutralized(surfaces[k], k)]
    BY <1>2 DEF PostProcessing
  <2>3. PostProcessing \in [Keys -> Seq(Contents)]
    BY <2>1, <2>2
  <2>. QED BY <1>2, <2>1, <2>3
<1>3. CASE ~(config.composing /\ frame.mode # "closed" /\ frame.geometry)
  BY <1>1, <1>3 DEF PostProcessing
<1>. QED BY <1>2, <1>3

(* With composing surfaces the loop is done, and nothing is left over.      *)
LEMMA ComposedAfterwards ==
  ASSUME SurfacesInv, setPc = "layers", surfaces' = PostProcessing,
         UNCHANGED <<config, committed, frame>>
  PROVE  ComposedInv'
<1>1. SUFFICES ASSUME config.composing, NEW k \in Keys
               PROVE  /\ \A i \in DOMAIN committed[k] : surfaces'[k][i] = committed[k][i]
                      /\ frame.geometry /\ committed[k] # << >> =>
                           \A i \in DOMAIN surfaces'[k] : i > Len(committed[k]) =>
                             surfaces'[k][i] = None
  BY DEF ComposedInv
<1>2. /\ lastLayer[k] = Len(committed[k]) /\ lastLayer[k] <= Len(surfaces[k])
      /\ \A i \in DOMAIN committed[k] : surfaces[k][i] = committed[k][i]
      /\ committed[k] \in Seq({"app", Cursor}) /\ surfaces[k] \in Seq(Contents)
  BY <1>1 DEF SurfacesInv, SurfTypes, Counted, ComposedInv
<1>3. /\ DOMAIN surfaces'[k] = DOMAIN surfaces[k]
      /\ \A i \in DOMAIN surfaces[k] : i <= lastLayer[k] => surfaces'[k][i] = surfaces[k][i]
      /\ frame.mode # "closed" /\ frame.geometry /\ committed[k] # << >> =>
           \A i \in DOMAIN surfaces[k] : i > lastLayer[k] => surfaces'[k][i] = None
  BY <1>1, PostProcessingFacts
<1>4. \A i \in DOMAIN committed[k] : i \in DOMAIN surfaces[k] /\ i <= lastLayer[k]
  BY <1>2
<1>5. frame.mode = "closed" => committed[k] = << >>
  <2>1. SUFFICES ASSUME frame.mode = "closed" PROVE committed[k] = << >>
    OBVIOUS
  <2>2. k \notin Open
    BY <2>1 DEF SurfacesInv, FrameFits, Staying
  <2>3. Len(surfaces[k]) = 0 /\ Len(committed[k]) \in Nat
    BY <2>2, <1>1, <1>2 DEF Open
  <2>4. Len(committed[k]) = 0
    BY <2>3, <1>2
  <2>. QED BY <2>4, <1>2
<1>. QED BY <1>2, <1>3, <1>4, <1>5

(* The frame had a cursor.                                                  *)
LEMMA FinishWithInv ==
  ASSUME SurfacesInv, FinishWithCursor
  PROVE  SurfacesInv'
<1>1. /\ setPc = "layers" /\ next > Len(frame.layers) /\ setPc' = "done" /\ next' = next
      /\ UNCHANGED <<config, lastLayer, lastBuffer, snapped, under, frame, committed,
                     failures, entered, reborn, windowKey, image>>
      /\ surfaces' = PostProcessing /\ Cursor \in ToSet(frame.layers)
  BY DEF FinishWithCursor, FinishSet, historyVars
<1>2. /\ surfaces' \in [Keys -> Seq(Contents)]
      /\ \A k \in Keys : Len(surfaces'[k]) = Len(surfaces[k])
      /\ ~config.composing => surfaces' = surfaces
  BY <1>1, PostProcessingFacts
<1>3. /\ windowKey \in Keys \cup {None} /\ image \in {None, Cursor} /\ failures \in Nat
      /\ config.subsurface => image = None
  BY DEF SurfacesInv, SurfTypes, CursorInv
<1>4. SurfTypes' /\ FrameFits' /\ Counted' /\ CursorInv' /\ Open' = Open
  BY <1>1, <1>2, <1>3, NothingCommitted
<1>5. ComposedInv'
  BY <1>1, ComposedAfterwards
<1>6. FullUiInv'
  <2>1. SUFFICES ASSUME ~config.composing, failures = 0, ~reborn PROVE FullUiInv'
    BY <1>1 DEF FullUiInv
  <2>2. /\ windowKey \in Open \cup {None} /\ (~config.subsurface => windowKey = None)
        /\ TwoSurfaces(surfaces[FullUi], committed[FullUi], windowKey)
        /\ frame.mode = "fullUi" =>
             Progress(frame.layers, next, committed[FullUi], windowKey)
    BY <1>1, <2>1 DEF SurfacesInv, FullUiInv
  <2>3. frame.mode = "fullUi" /\ committed[FullUi] = <<"app">> => windowKey = None
    <3>1. SUFFICES ASSUME frame.mode = "fullUi", committed[FullUi] = <<"app">>
                   PROVE  windowKey = None
      OBVIOUS
    <3>2. frame \in Frames(config) /\ config \in Configs
      BY <1>1 DEF SurfacesInv, SurfTypes, FrameFits
    <3>3. frame.layers \in {<<FullUi>>, <<FullUi, Cursor>>, <<Cursor, FullUi>>}
      BY <3>1, <3>2, <2>1, FrameFacts, FullUiLayers
    <3>4. frame.layers # <<FullUi>>
      BY <1>1, Names DEF ToSet
    <3>5. next > 2
      BY <1>1, <3>3, <3>4
    <3>6. <<"app">> # << >> /\ <<"app">> # <<"app", Cursor>> /\ <<"app">> # <<Cursor>>
          /\ <<"app">> # <<Cursor, "app">>
      BY Names
    <3>. QED BY <2>2, <3>1, <3>5, <3>6 DEF Progress
  <2>. QED BY <1>1, <1>2, <1>4, <2>1, <2>2, <2>3 DEF FullUiInv
<1>. QED BY <1>4, <1>5, <1>6 DEF SurfacesInv

(* It had none: reset_cursor.                                               *)
LEMMA FinishWithoutInv ==
  ASSUME SurfacesInv, FinishWithoutCursor
  PROVE  SurfacesInv'
<1>1. /\ setPc = "layers" /\ next > Len(frame.layers) /\ setPc' = "done" /\ next' = next
      /\ UNCHANGED <<config, lastLayer, lastBuffer, snapped, under, frame, committed,
                     failures, entered, reborn>>
      /\ Cursor \notin ToSet(frame.layers)
      /\ image' = ResetImage
  BY DEF FinishWithoutCursor, FinishSet, historyVars
<1>2. \/ config.subsurface /\ config.composing /\ windowKey' = None /\ surfaces' = PostProcessing
      \/ config.subsurface /\ ~config.composing /\ ClearPrevious
      \/ ~config.subsurface /\ windowKey' = windowKey /\ surfaces' = PostProcessing
  BY DEF FinishWithoutCursor
<1>3. /\ surfaces' \in [Keys -> Seq(Contents)]
      /\ \A k \in Keys : Len(surfaces'[k]) = Len(surfaces[k])
      /\ windowKey' \in Keys \cup {None}
  BY <1>1, <1>2, PostProcessingFacts, ClearFacts DEF SurfacesInv, SurfTypes
<1>4. image' = None /\ failures \in Nat
  BY <1>1 DEF ResetImage, SurfacesInv, SurfTypes, CursorInv
<1>5. SurfTypes' /\ FrameFits' /\ Counted' /\ CursorInv' /\ Open' = Open
  BY <1>1, <1>3, <1>4, Names, NothingCommitted
<1>6. ComposedInv'
  <2>1. CASE config.composing
    BY <1>1, <1>2, <2>1, ComposedAfterwards
  <2>2. CASE ~config.composing
    BY <1>1, <2>2 DEF ComposedInv
  <2>. QED BY <2>1, <2>2
<1>7. FullUiInv'
  <2>1. SUFFICES ASSUME ~config.composing, failures = 0, ~reborn PROVE FullUiInv'
    BY <1>1 DEF FullUiInv
  <2>2. /\ (~config.subsurface => windowKey = None) /\ windowKey \in Open \cup {None}
        /\ TwoSurfaces(surfaces[FullUi], committed[FullUi], windowKey)
        /\ frame.mode = "fullUi" =>
             Progress(frame.layers, next, committed[FullUi], windowKey)
    BY <1>1, <2>1 DEF SurfacesInv, FullUiInv
  <2>3. frame.mode = "fullUi" =>
          /\ frame.layers = <<FullUi>> /\ next = 2 /\ committed[FullUi] = <<"app">>
    <3>1. SUFFICES ASSUME frame.mode = "fullUi"
                   PROVE  /\ frame.layers = <<FullUi>> /\ next = 2
                          /\ committed[FullUi] = <<"app">>
      OBVIOUS
    <3>2. frame \in Frames(config) /\ config \in Configs /\ next <= Len(frame.layers) + 1
          /\ next \in Nat
      BY <1>1 DEF SurfacesInv, SurfTypes, FrameFits
    <3>3. frame.layers \in {<<FullUi>>, <<FullUi, Cursor>>, <<Cursor, FullUi>>}
      BY <3>1, <3>2, <2>1, FrameFacts, FullUiLayers
    <3>4. Cursor \in ToSet(<<FullUi, Cursor>>) /\ Cursor \in ToSet(<<Cursor, FullUi>>)
      <4>1. 1 \in DOMAIN <<Cursor, FullUi>> /\ 2 \in DOMAIN <<FullUi, Cursor>>
        OBVIOUS
      <4>. QED BY <4>1 DEF ToSet
    <3>5. frame.layers = <<FullUi>>
      BY <1>1, <3>3, <3>4
    <3>6. next = 2
      BY <1>1, <3>2, <3>5
    <3>7. <<FullUi>> # <<FullUi, Cursor>> /\ <<FullUi>> # <<Cursor, FullUi>>
      BY Names
    <3>. QED BY <2>2, <3>1, <3>5, <3>6, <3>7 DEF Progress
  <2>4. windowKey' = None /\ TwoSurfaces(surfaces'[FullUi], committed[FullUi], None)
    <3>1. CASE ~config.subsurface
      <4>1. surfaces' = surfaces /\ windowKey' = windowKey
        BY <1>1, <1>2, <2>1, <3>1, PostProcessingFacts
      <4>. QED BY <2>2, <3>1, <4>1
    <3>2. CASE config.subsurface
      <4>1. ClearPrevious
        BY <1>2, <2>1, <3>2
      <4>2. frame.mode # "fullUi" => windowKey # FullUi
        BY <1>1, <2>2, OtherModes, Names
      <4>3. <<"app">> # <<Cursor>> /\ Len(<<"app">>) = 1
        BY Names
      <4>4. windowKey = FullUi => committed[FullUi] # <<Cursor>> /\ Len(committed[FullUi]) <= 1
        <5>1. CASE frame.mode = "fullUi"
          <6>1. committed[FullUi] = <<"app">>
            BY <2>3, <5>1
          <6>2. Len(committed[FullUi]) = 1
            BY <6>1
          <6>. QED BY <4>3, <6>1, <6>2
        <5>2. CASE frame.mode # "fullUi"
          BY <4>2, <5>2
        <5>. QED BY <5>1, <5>2
      <4>. QED BY <2>1, <4>1, <4>4, ClearKeeps
    <3>. QED BY <3>1, <3>2
  <2>. QED BY <1>1, <1>5, <2>1, <2>3, <2>4 DEF FullUiInv, Progress
<1>. QED BY <1>5, <1>6, <1>7 DEF SurfacesInv

(* Every step of the threads keeps the invariant.                           *)
LEMMA SurfacesStepInv ==
  ASSUME SurfacesInv, [SurfacesNext]_surfacesVars
  PROVE  SurfacesInv'
<1>1. CASE SurfacesNext
  <2>1. ASSUME NEW f \in Frames(config), StartSet(f) PROVE SurfacesInv'
    BY <2>1, StartInv
  <2>2. ASSUME NEW k \in Keys, CloseWindow(k) PROVE SurfacesInv'
    BY <2>2, CloseInv
  <2>. QED BY <1>1, <2>1, <2>2, DrawAppInv, DrawCursorInv, DropCursorInv, DrawImageInv,
              FinishWithInv, FinishWithoutInv, EndInv, PointerMovesInv DEF SurfacesNext
<1>2. CASE UNCHANGED surfacesVars
  BY <1>2 DEF surfacesVars, windowVars, historyVars, SurfacesInv, SurfTypes, FrameFits, Counted,
              ComposedInv, FullUiInv, CursorInv, CursorHandled, Open
<1>. QED BY <1>1, <1>2

(* The invariant implies the properties.                                    *)
LEMMA SurfacesInvImplies ==
  ASSUME SurfacesInv
  PROVE  SurfacesTypeOK /\ ShowsTheFrame /\ OneCursor
<1>1. SurfacesTypeOK
  <2>1. \A k \in Keys : lastLayer[k] \in 0..(config.apps + 1)
    <3>1. config.apps \in Nat
      BY SurfacesAssumption DEF SurfacesInv, SurfTypes
    <3>. QED BY <3>1 DEF SurfacesInv, SurfTypes, FrameFits
  <2>2. setPc # "idle" => frame \in [mode : WindowModes, target : Tasks \cup {None},
                                     geometry : BOOLEAN, layers : Seq(Keys \cup {Cursor})]
    <3>1. SUFFICES ASSUME setPc # "idle" PROVE frame \in [mode : WindowModes,
              target : Tasks \cup {None}, geometry : BOOLEAN, layers : Seq(Keys \cup {Cursor})]
      OBVIOUS
    <3>2. frame \in Frames(config) /\ config \in Configs
      BY <3>1 DEF SurfacesInv, SurfTypes, FrameFits
    <3>3. PICK m \in ModesOf(config.multi), t \in Tasks \cup {None} :
            frame \in [mode : {m}, target : {t}, geometry : BOOLEAN,
                       layers : FrameLayers(config, m, t)]
      BY <3>2, FrameParts
    <3>4. m \in WindowModes
      BY DEF ModesOf
    <3>5. FrameLayers(config, m, t) \subseteq Seq(Keys \cup {Cursor})
      <4>1. Drawable(m, t) \subseteq Keys
        BY <3>4 DEF Drawable, Keys, WindowModes
      <4>2. \A ls \in FrameLayers(config, m, t) : ls \in Seq(Drawable(m, t) \cup {Cursor})
        BY <3>2, LayerFacts
      <4>3. Seq(Drawable(m, t) \cup {Cursor}) \subseteq Seq(Keys \cup {Cursor})
        BY <4>1
      <4>. QED BY <4>2, <4>3
    <3>. QED BY <3>3, <3>4, <3>5
  <2>3. next \in 1..(Len(frame.layers) + 1)
    <3>1. CASE setPc = "idle"
      <4>1. next = 1 /\ frame.layers = << >>
        BY <3>1 DEF SurfacesInv, FrameFits, NoContents
      <4>. QED BY <4>1
    <3>2. CASE setPc # "idle"
      <4>1. frame \in Frames(config) /\ config \in Configs /\ next \in Nat /\ 1 <= next
            /\ next <= Len(frame.layers) + 1
        BY <3>2 DEF SurfacesInv, SurfTypes, FrameFits
      <4>2. Len(frame.layers) \in Nat
        BY <4>1, FrameFacts, LayerFacts
      <4>. QED BY <4>1, <4>2
    <3>. QED BY <3>1, <3>2
  <2>4. under \in Open \cup {None} /\ snapped \subseteq Open
    BY DEF SurfacesInv, SurfTypes, FrameFits
  <2>5. lastLayer \in [Keys -> 0..(config.apps + 1)]
    BY <2>1 DEF SurfacesInv, SurfTypes
  <2>. QED BY <2>2, <2>3, <2>4, <2>5 DEF SurfacesInv, SurfTypes, SurfacesTypeOK, Contents
<1>2. ShowsTheFrame
  <2>1. SUFFICES ASSUME Settled, NEW k \in Open, committed[k] # << >>
                 PROVE  Shows(surfaces[k], committed[k])
    BY DEF ShowsTheFrame
  <2>2. k \in Keys /\ setPc = "done"
    BY <2>1 DEF Open, Settled
  <2>3. /\ surfaces[k] \in Seq(Contents) /\ committed[k] \in Seq({"app", Cursor})
        /\ Len(committed[k]) <= Len(surfaces[k])
        /\ DOMAIN committed[k] = 1..Len(committed[k])
        /\ DOMAIN surfaces[k] = 1..Len(surfaces[k])
    BY <2>2 DEF SurfacesInv, SurfTypes, Counted
  <2>4. CASE config.composing
    <3>1. /\ \A i \in DOMAIN committed[k] : surfaces[k][i] = committed[k][i]
          /\ \A i \in DOMAIN surfaces[k] : i > Len(committed[k]) => surfaces[k][i] = None
      BY <2>1, <2>2, <2>4 DEF Settled, SurfacesInv, ComposedInv
    <3>. QED BY <2>3, <3>1 DEF Shows
  <2>5. CASE ~config.composing
    <3>1. failures = 0 /\ ~reborn /\ frame.mode = "fullUi"
      BY <2>1, <2>5 DEF Settled
    <3>2. k = FullUi
      BY <2>1, <2>2, <3>1 DEF SurfacesInv, FrameFits, Staying
    <3>3. /\ TwoSurfaces(surfaces[k], committed[k], windowKey)
          /\ Progress(frame.layers, next, committed[k], windowKey)
          /\ committed[k] = <<"app">> => windowKey = None
      BY <2>2, <2>5, <3>1, <3>2 DEF SurfacesInv, FullUiInv
    <3>4. /\ frame.layers \in {<<FullUi>>, <<FullUi, Cursor>>, <<Cursor, FullUi>>}
          /\ next = Len(frame.layers) + 1
      BY <2>2, <2>5, <3>1, FrameFacts, FullUiLayers DEF SurfacesInv, SurfTypes, FrameFits
    <3>5. \/ Len(committed[k]) = 2
          \/ Len(committed[k]) = 1 /\ windowKey = None
      <4>1. next # 1
        BY <3>4
      <4>2. <<Cursor, FullUi>> # <<FullUi>> => ~(frame.layers = <<Cursor, FullUi>> /\ next = 2)
        BY <3>4
      <4>3. <<Cursor, FullUi>> # <<FullUi>>
        BY Names
      <4>4. committed[k] \in {<<"app">>, <<"app", Cursor>>, <<Cursor, "app">>}
        BY <3>3, <4>1, <4>2, <4>3 DEF Progress
      <4>. QED BY <3>3, <4>4
    <3>6. /\ Len(surfaces[k]) <= 2
          /\ windowKey # FullUi /\ Len(surfaces[k]) = 2 => surfaces[k][2] = None
          /\ \A i \in DOMAIN committed[k] : surfaces[k][i] = committed[k][i]
      BY <3>3, <3>2 DEF TwoSurfaces
    <3>7. \A i \in DOMAIN surfaces[k] : i > Len(committed[k]) => surfaces[k][i] = None
      <4>. SUFFICES ASSUME NEW i \in DOMAIN surfaces[k], i > Len(committed[k])
                    PROVE  surfaces[k][i] = None
        OBVIOUS
      <4>1. i = 2 /\ Len(surfaces[k]) = 2 /\ windowKey = None
        <5>1. \A l, n \in Nat : (n = 2 \/ n = 1) /\ l <= 2 /\ i \in 1..l /\ i > n =>
                i = 2 /\ l = 2 /\ n = 1
          OBVIOUS
        <5>2. Len(surfaces[k]) \in Nat /\ Len(committed[k]) \in Nat
          BY <2>3
        <5>3. i = 2 /\ Len(surfaces[k]) = 2 /\ Len(committed[k]) = 1
          BY <2>3, <3>5, <3>6, <5>1, <5>2
        <5>. QED BY <3>5, <5>3
      <4>. QED BY <4>1, <3>6, Names
    <3>. QED BY <2>3, <3>6, <3>7 DEF Shows
  <2>. QED BY <2>4, <2>5
<1>3. OneCursor
  <2>1. SUFFICES ASSUME Settled
                 PROVE  /\ \A c, d \in CursorsShown : c = d
                        /\ CursorsShown # {} => image = None /\ Cursor \in ToSet(frame.layers)
                        /\ image = Cursor /\ ~entered => Cursor \in ToSet(frame.layers)
    BY DEF OneCursor
  <2>2. setPc = "done"
    BY <2>1 DEF Settled
  <2>3. ASSUME NEW p \in CursorsShown
        PROVE  /\ p[1] \in Keys /\ p = <<p[1], p[2]>> /\ p[2] \in DOMAIN committed[p[1]]
               /\ committed[p[1]][p[2]] = Cursor
    <3>1. /\ p[1] \in Keys /\ p = <<p[1], p[2]>> /\ committed[p[1]] # << >>
          /\ p[2] \in DOMAIN surfaces[p[1]] /\ surfaces[p[1]][p[2]] = Cursor
      BY <2>3 DEF CursorsShown
    <3>2. p[1] \in Open
      <4>1. surfaces[p[1]] # << >>
        BY <3>1
      <4>. QED BY <3>1, <4>1 DEF Open
    <3>3. Shows(surfaces[p[1]], committed[p[1]])
      BY <1>2, <2>1, <3>1, <3>2 DEF ShowsTheFrame
    <3>4. surfaces[p[1]] \in Seq(Contents) /\ committed[p[1]] \in Seq({"app", Cursor})
      BY <3>1 DEF SurfacesInv, SurfTypes
    <3>5. p[2] <= Len(committed[p[1]]) /\ committed[p[1]][p[2]] = Cursor
      BY <3>1, <3>3, Names DEF Shows
    <3>6. p[2] \in DOMAIN committed[p[1]]
      BY <3>1, <3>4, <3>5
    <3>. QED BY <3>1, <3>5, <3>6
  <2>4. \A c, d \in CursorsShown : c = d
    BY <2>3 DEF SurfacesInv, CursorInv
  <2>5. CursorsShown # {} => image = None /\ Cursor \in ToSet(frame.layers)
    <3>1. SUFFICES ASSUME NEW p \in CursorsShown
                   PROVE  image = None /\ Cursor \in ToSet(frame.layers)
      OBVIOUS
    <3>2. config.subsurface /\ CursorHandled /\ image = None
      BY <2>3 DEF SurfacesInv, CursorInv
    <3>. QED BY <3>2 DEF CursorHandled, ToSet
  <2>6. image = Cursor /\ ~entered => Cursor \in ToSet(frame.layers)
    BY <2>2 DEF SurfacesInv, CursorInv
  <2>. QED BY <2>4, <2>5, <2>6
<1>. QED BY <1>1, <1>2, <1>3

-----------------------------------------------------------------------------
(* The invariant holds in every state.                                      *)
LEMMA SurfacesInvariant == SurfacesSpec => []SurfacesInv
BY SurfacesInitInv, SurfacesStepInv, PTL DEF SurfacesSpec

(* Every variable of WindowSurfaces has its type.                           *)
THEOREM SurfaceTypes == SurfacesSpec => []SurfacesTypeOK
BY SurfacesInvariant, SurfacesInvImplies, PTL

(* A window shows exactly the layers the set that ended drew on it.         *)
THEOREM WindowsShowTheFrame == SurfacesSpec => []ShowsTheFrame
BY SurfacesInvariant, SurfacesInvImplies, PTL

(* The cursor is shown once, and only if the frame has one.                 *)
THEOREM CursorIsShownOnce == SurfacesSpec => []OneCursor
BY SurfacesInvariant, SurfacesInvImplies, PTL
=============================================================================
