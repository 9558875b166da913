--------------------------- MODULE HotkeysProofs ----------------------------
(***************************************************************************)
(* Theorems about the hotkey listener and the calls it shares the fleet    *)
(* with, for any clients, options, hotkeys held by others and bounds, and  *)
(* about the text form of a hotkey, for texts of any length.               *)
(***************************************************************************)
EXTENDS Hotkeys, SequenceLemmas

-----------------------------------------------------------------------------
(* The text form.                                                          *)

(* The result of the loop after the tokens at the indices s, in order: the *)
(* first unknown token ends it, the tokens before that count, and the last *)
(* key among them is the key.                                              *)
Unknown(text, s) == {i \in s : text[i] \notin Modifiers \cup Keys}
Read(text, s) == {i \in s : \A k \in Unknown(text, s) : i < k}
ModsRead(text, s) == {text[i] : i \in Read(text, s)} \cap Modifiers
KeysRead(text, s) == {i \in Read(text, s) : text[i] \in Keys}

ReadSoFar(text, s) ==
    [hotkey |-> [mods |-> ModsRead(text, s),
                 key |-> IF KeysRead(text, s) = {} THEN NoKey ELSE text[Max(KeysRead(text, s))]],
     err |-> Unknown(text, s) # {}]

(* One more token, after all of those read so far.                         *)
LEMMA ReadStep ==
    ASSUME NEW text, NEW n \in Nat, NEW s \in SUBSET (1..n), NEW m \in 1..n,
           \A k \in s : k < m
    PROVE  ReadSoFar(text, s \cup {m}) = Token(ReadSoFar(text, s), text[m])
<1> DEFINE t == s \cup {m}
<1>1. CASE Unknown(text, s) # {}
  <2>1. PICK b \in Unknown(text, s) : TRUE
    BY <1>1
  <2>2. b < m /\ ~(m < b) /\ b \in Unknown(text, t)
    BY <2>1 DEF Unknown
  <2>3. Read(text, t) = Read(text, s)
    <3>1. m \notin Read(text, t)
      BY <2>2 DEF Read
    <3>2. ASSUME NEW i \in s PROVE i \in Read(text, t) <=> i \in Read(text, s)
      <4>1. i < m
        OBVIOUS
      <4>. QED
        BY <4>1 DEF Read, Unknown
    <3>. QED
      BY <3>1, <3>2 DEF Read
  <2>4. /\ ModsRead(text, t) = ModsRead(text, s) /\ KeysRead(text, t) = KeysRead(text, s)
        /\ Unknown(text, t) # {}
    BY <2>2, <2>3 DEF ModsRead, KeysRead
  <2>5. ReadSoFar(text, t) = ReadSoFar(text, s) /\ ReadSoFar(text, s).err
    BY <1>1, <2>4 DEF ReadSoFar
  <2>. QED
    BY <2>5 DEF Token
<1>2. CASE Unknown(text, s) = {}
  <2>1. Read(text, s) = s /\ ~ReadSoFar(text, s).err
    BY <1>2 DEF Read, ReadSoFar
  <2>2. CASE text[m] \in Modifiers
    <3>1. Unknown(text, t) = {} /\ text[m] \notin Keys
      BY <1>2, <2>2, TokenAssumption DEF Unknown
    <3>2. Read(text, t) = t
      BY <3>1 DEF Read
    <3>3. ModsRead(text, t) = ModsRead(text, s) \cup {text[m]}
      BY <2>1, <2>2, <3>2 DEF ModsRead
    <3>4. KeysRead(text, t) = KeysRead(text, s)
      BY <2>1, <3>1, <3>2 DEF KeysRead
    <3>. QED
      BY <1>2, <2>1, <2>2, <3>1, <3>3, <3>4 DEF ReadSoFar, Token
  <2>3. CASE text[m] \in Keys
    <3>1. Unknown(text, t) = {} /\ text[m] \notin Modifiers
      BY <1>2, <2>3, TokenAssumption DEF Unknown
    <3>2. Read(text, t) = t
      BY <3>1 DEF Read
    <3>3. ModsRead(text, t) = ModsRead(text, s)
      BY <2>1, <3>1, <3>2 DEF ModsRead
    <3>4. KeysRead(text, t) = KeysRead(text, s) \cup {m}
      BY <2>1, <2>3, <3>2 DEF KeysRead
    <3>5. KeysRead(text, t) # {} /\ Max(KeysRead(text, t)) = m
      <4>1. KeysRead(text, s) \subseteq s
        BY <2>1 DEF KeysRead
      <4>2. (\A k \in s : k \in 1..n /\ k <= m) /\ m <= m
        OBVIOUS
      <4>3. KeysRead(text, t) \in SUBSET (1..n) /\ m \in KeysRead(text, t)
        BY <3>4, <4>1, <4>2
      <4>4. \A k \in KeysRead(text, t) : k <= m
        BY <3>4, <4>1, <4>2
      <4>. QED
        BY <4>3, <4>4, MaxUnique
    <3>. QED
      BY <1>2, <2>1, <2>3, <3>1, <3>3, <3>5 DEF ReadSoFar, Token
  <2>4. CASE text[m] \notin Modifiers \cup Keys
    <3>1. Unknown(text, t) = {m}
      BY <1>2, <2>4 DEF Unknown
    <3>2. Read(text, t) = s
      <4>1. \A i \in t : i \in Read(text, t) <=> i < m
        BY <3>1 DEF Read
      <4>2. \A i \in t : i < m <=> i \in s
        <5>1. \A i \in s : i < m
          OBVIOUS
        <5>2. m \notin s /\ ~(m < m)
          BY <5>1
        <5>. QED
          BY <5>1, <5>2
      <4>3. Read(text, t) \subseteq t /\ s \subseteq t
        BY DEF Read
      <4>. QED
        BY <4>1, <4>2, <4>3
    <3>3. ModsRead(text, t) = ModsRead(text, s) /\ KeysRead(text, t) = KeysRead(text, s)
      BY <2>1, <3>2 DEF ModsRead, KeysRead
    <3>. QED
      BY <1>2, <2>1, <2>4, <3>1, <3>3 DEF ReadSoFar, Token
  <2>. QED
    BY <2>2, <2>3, <2>4
<1>. QED
  BY <1>1, <1>2

(* Before the loop nothing is read.                                        *)
LEMMA ReadNothing == ASSUME NEW text PROVE ReadSoFar(text, {}) = Blank
BY DEF ReadSoFar, Blank, Unknown, ModsRead, KeysRead, Read

ReadTo(text, i, r) == r = ReadSoFar(text, 1..i)
Loop == INSTANCE FoldTheorems WITH Op <- Token, Base <- Blank, Inv <- ReadTo

(* The loop reads all the tokens.                                          *)
LEMMA LoopReads ==
    ASSUME NEW text \in Seq(Tokens)
    PROVE  FoldLeft(Token, Blank, text) = ReadSoFar(text, DOMAIN text)
<1> DEFINE Values == [hotkey : Hotkeys, err : BOOLEAN]
<1>1. Len(text) \in Nat /\ DOMAIN text = 1..Len(text)
  BY LenProperties
<1>2. Blank \in Values
  BY DEF Blank, Hotkeys
<1>3. ASSUME NEW x \in Values, NEW e \in Tokens PROVE Token(x, e) \in Values
  <2>1. x.hotkey \in Hotkeys /\ x.hotkey.mods \in SUBSET Modifiers
    BY DEF Hotkeys
  <2>. QED
    BY <2>1 DEF Token, Hotkeys
<1>4. ReadTo(text, 0, Blank)
  <2>1. 1..0 = {}
    OBVIOUS
  <2>. QED
    BY <2>1, ReadNothing DEF ReadTo
<1>5. ASSUME NEW i \in 1..Len(text) PROVE ReadSoFar(text, 1..i) = Token(ReadSoFar(text, 1..i - 1), text[i])
  <2>1. PICK p \in SUBSET (1..Len(text)) : p = 1..i - 1
    BY <1>1
  <2>2. p \cup {i} = 1..i /\ \A k \in p : k < i
    BY <1>1, <2>1
  <2>3. ReadSoFar(text, p \cup {i}) = Token(ReadSoFar(text, p), text[i])
    BY <1>1, <2>2, ReadStep
  <2>. QED
    BY <2>1, <2>2, <2>3
<1>6. \A i \in 1..Len(text) : \A x \in Values :
          ReadTo(text, i - 1, x) => ReadTo(text, i, Token(x, text[i]))
  BY <1>5 DEF ReadTo
<1> HIDE DEF Values
<1>7. ReadTo(text, Len(text), Loop!FoldLeft(Token, Blank, text))
  BY <1>2, <1>3, <1>4, <1>6, Loop!FoldInduction, Zenon
<1>8. Loop!FoldLeft(Token, Blank, text) = FoldLeft(Token, Blank, text)
  BY Zenon DEF FoldLeft, MapThenFoldSet, Max, Loop!FoldLeft, Loop!MapThenFoldSet, Loop!Max
<1>. QED
  BY <1>1, <1>7, <1>8, Zenon DEF ReadTo

KeysAt(text) == {i \in DOMAIN text : text[i] \in Keys}
ModsIn(text) == ToSet(text) \cap Modifiers

(* What ParseHotkey returns for any text.                                  *)
LEMMA ParseIs ==
    ASSUME NEW text \in Seq(Tokens)
    PROVE  LET p == ParseHotkey(text)
           IN  /\ p.err <=> \/ KeysAt(text) = {} \/ ModsIn(text) = {}
                            \/ ~ ToSet(text) \subseteq Keys \cup Modifiers
               /\ ~p.err => p = [hotkey |-> [mods |-> ModsIn(text), key |-> text[Max(KeysAt(text))]],
                                 err |-> FALSE]
<1> DEFINE D == DOMAIN text
           r == ReadSoFar(text, D)
           bad == r.err \/ r.hotkey.key = NoKey \/ r.hotkey.mods = {}
<1>1. D = 1..Len(text) /\ Len(text) \in Nat
  BY LenProperties
<1>2. ParseHotkey(text) = [hotkey |-> r.hotkey, err |-> bad]
  <2>1. FoldLeft(Token, Blank, text) = r
    BY LoopReads
  <2>. QED
    BY <2>1 DEF ParseHotkey, ReadSoFar
<1>3. Unknown(text, D) = {} <=> ToSet(text) \subseteq Keys \cup Modifiers
  BY DEF Unknown, ToSet
<1>4. ASSUME Unknown(text, D) # {} PROVE bad
  BY <1>4 DEF ReadSoFar
<1>5. ASSUME Unknown(text, D) = {}
      PROVE  /\ bad <=> KeysAt(text) = {} \/ ModsIn(text) = {}
             /\ ~bad => r.hotkey = [mods |-> ModsIn(text), key |-> text[Max(KeysAt(text))]]
  <2>1. Read(text, D) = D
    BY <1>5 DEF Read
  <2>2. KeysRead(text, D) = KeysAt(text)
    BY <2>1 DEF KeysRead, KeysAt
  <2>3. ModsRead(text, D) = ModsIn(text)
    BY <2>1 DEF ModsRead, ModsIn, ToSet
  <2>4. KeysAt(text) # {} => text[Max(KeysAt(text))] \in Keys
    <3>1. KeysAt(text) \in SUBSET (1..Len(text))
      BY <1>1 DEF KeysAt
    <3>2. KeysAt(text) # {} => Max(KeysAt(text)) \in KeysAt(text)
      BY <1>1, <3>1, MaxIs
    <3>. QED
      BY <3>2 DEF KeysAt
  <2>5. ~r.err /\ r.hotkey.mods = ModsIn(text)
        /\ r.hotkey = [mods |-> ModsIn(text), key |-> r.hotkey.key]
    BY <1>5, <2>3 DEF ReadSoFar
  <2>6. r.hotkey.key = IF KeysAt(text) = {} THEN NoKey ELSE text[Max(KeysAt(text))]
    BY <2>2 DEF ReadSoFar
  <2>7. r.hotkey.key = NoKey <=> KeysAt(text) = {}
    BY <2>4, <2>6, KeyAssumption
  <2> HIDE DEF r
  <2>. QED
    BY <2>5, <2>6, <2>7
<1> HIDE DEF r
<1> HIDE DEF bad
<1>6. ParseHotkey(text).err <=> bad
  <2>1. ParseHotkey(text).err = bad
    BY <1>2
  <2>. QED
    BY <2>1, Zenon
<1>7. ~bad => ParseHotkey(text) = [hotkey |-> r.hotkey, err |-> FALSE]
  <2>1. ~bad => bad = FALSE
    BY Zenon DEF bad
  <2>. QED
    BY <1>2, <2>1, Zenon
<1>. QED
  BY <1>3, <1>4, <1>5, <1>6, <1>7

(* The elements of a concatenation.                                        *)
LEMMA ConcatElements ==
    ASSUME NEW S, NEW s \in Seq(S), NEW t \in Seq(S)
    PROVE  s \o t \in Seq(S) /\ ToSet(s \o t) = ToSet(s) \cup ToSet(t)
<1>1. /\ s \o t \in Seq(S) /\ Len(s \o t) = Len(s) + Len(t)
      /\ \A i \in 1..Len(s) + Len(t) : (s \o t)[i] = IF i <= Len(s) THEN s[i] ELSE t[i - Len(s)]
  BY ConcatProperties
<1>2. /\ DOMAIN s = 1..Len(s) /\ DOMAIN t = 1..Len(t) /\ Len(s) \in Nat /\ Len(t) \in Nat
      /\ DOMAIN (s \o t) = 1..Len(s) + Len(t)
  BY <1>1, LenProperties
<1>3. ASSUME NEW i \in 1..Len(s) + Len(t) PROVE (s \o t)[i] \in ToSet(s) \cup ToSet(t)
  <2>1. CASE i <= Len(s)
    <3>1. i \in 1..Len(s) /\ (s \o t)[i] = s[i]
      BY <1>1, <1>2, <2>1
    <3>. QED
      BY <1>2, <3>1 DEF ToSet
  <2>2. CASE ~(i <= Len(s))
    <3>1. i - Len(s) \in 1..Len(t) /\ (s \o t)[i] = t[i - Len(s)]
      BY <1>1, <1>2, <2>2
    <3>. QED
      BY <1>2, <3>1 DEF ToSet
  <2>. QED
    BY <2>1, <2>2
<1>4. ASSUME NEW i \in 1..Len(s) PROVE s[i] \in ToSet(s \o t)
  <2>1. i \in 1..Len(s) + Len(t) /\ (s \o t)[i] = s[i]
    BY <1>1, <1>2
  <2>. QED
    BY <1>2, <2>1 DEF ToSet
<1>5. ASSUME NEW i \in 1..Len(t) PROVE t[i] \in ToSet(s \o t)
  <2>1. Len(s) + i \in 1..Len(s) + Len(t) /\ ~(Len(s) + i <= Len(s)) /\ Len(s) + i - Len(s) = i
    BY <1>2
  <2>2. (s \o t)[Len(s) + i] = t[i]
    BY <1>1, <2>1
  <2>. QED
    BY <1>2, <2>1, <2>2 DEF ToSet
<1>6. ToSet(s \o t) \subseteq ToSet(s) \cup ToSet(t)
  BY <1>2, <1>3 DEF ToSet
<1>7. ToSet(s) \subseteq ToSet(s \o t) /\ ToSet(t) \subseteq ToSet(s \o t)
  BY <1>2, <1>4, <1>5 DEF ToSet
<1>. QED
  BY <1>1, <1>6, <1>7

(* The rendering of a hotkey names its modifiers, and its key at the end.  *)
LEMMA RenderIs ==
    ASSUME NEW h \in Hotkeys, h.key \in Keys
    PROVE  /\ Render(h) \in Seq(Tokens)
           /\ ToSet(Render(h)) = h.mods \cup {h.key}
           /\ Len(Render(h)) \in KeysAt(Render(h)) /\ Render(h)[Len(Render(h))] = h.key
           /\ \A i \in KeysAt(Render(h)) : i <= Len(Render(h))
<1> DEFINE mods == Part(h, "Ctrl") \o Part(h, "Alt") \o Part(h, "Shift") \o Part(h, "Win")
           text == mods \o <<h.key>>
<1>1. Render(h) = text
  BY DEF Render, Name
<1>2. ASSUME NEW m \in Modifiers
      PROVE  Part(h, m) \in Seq(Modifiers) /\ ToSet(Part(h, m)) = h.mods \cap {m}
  <2>1. CASE m \in h.mods
    BY <2>1 DEF Part, ToSet
  <2>2. CASE m \notin h.mods
    BY <2>2 DEF Part, ToSet
  <2>. QED
    BY <2>1, <2>2
<1>3. mods \in Seq(Modifiers) /\ ToSet(mods) = h.mods
  <2>1. /\ "Ctrl" \in Modifiers /\ "Alt" \in Modifiers
        /\ "Shift" \in Modifiers /\ "Win" \in Modifiers
    BY DEF Modifiers
  <2>2. Part(h, "Ctrl") \o Part(h, "Alt") \in Seq(Modifiers)
        /\ ToSet(Part(h, "Ctrl") \o Part(h, "Alt")) = h.mods \cap {"Ctrl", "Alt"}
    <3>1. ToSet(Part(h, "Ctrl") \o Part(h, "Alt")) = ToSet(Part(h, "Ctrl")) \cup ToSet(Part(h, "Alt"))
      BY <1>2, <2>1, ConcatElements
    <3>2. Part(h, "Ctrl") \o Part(h, "Alt") \in Seq(Modifiers)
      BY <1>2, <2>1, ConcatElements
    <3>. QED
      BY <1>2, <2>1, <3>1, <3>2
  <2>3. PICK a \in Seq(Modifiers) : /\ a = Part(h, "Ctrl") \o Part(h, "Alt")
                                    /\ ToSet(a) = h.mods \cap {"Ctrl", "Alt"}
    BY <2>2
  <2>4. a \o Part(h, "Shift") \in Seq(Modifiers)
        /\ ToSet(a \o Part(h, "Shift")) = h.mods \cap {"Ctrl", "Alt", "Shift"}
    <3>1. ToSet(a \o Part(h, "Shift")) = ToSet(a) \cup ToSet(Part(h, "Shift"))
      BY <1>2, <2>1, ConcatElements
    <3>2. a \o Part(h, "Shift") \in Seq(Modifiers)
      BY <1>2, <2>1, ConcatElements
    <3>. QED
      BY <1>2, <2>1, <2>3, <3>1, <3>2
  <2>5. PICK b \in Seq(Modifiers) : /\ b = a \o Part(h, "Shift")
                                    /\ ToSet(b) = h.mods \cap {"Ctrl", "Alt", "Shift"}
    BY <2>4
  <2>6. ToSet(b \o Part(h, "Win")) = ToSet(b) \cup ToSet(Part(h, "Win"))
    BY <1>2, <2>1, ConcatElements
  <2>7. b \o Part(h, "Win") \in Seq(Modifiers)
    BY <1>2, <2>1, ConcatElements
  <2>8. h.mods \subseteq {"Ctrl", "Alt", "Shift", "Win"}
    BY DEF Hotkeys, Modifiers
  <2>9. ToSet(b \o Part(h, "Win")) = h.mods
    BY <1>2, <2>1, <2>5, <2>6, <2>8
  <2>. QED
    BY <2>3, <2>5, <2>7, <2>9
<1> HIDE DEF mods
<1>4. mods \in Seq(Tokens) /\ <<h.key>> \in Seq(Tokens) /\ ToSet(<<h.key>>) = {h.key}
  <2>1. Modifiers \subseteq Tokens /\ h.key \in Tokens
    BY DEF Tokens
  <2>2. Len(mods) \in Nat /\ DOMAIN mods = 1..Len(mods)
    BY <1>3, LenProperties
  <2>. QED
    BY <1>3, <2>1, <2>2 DEF ToSet
<1>5. text \in Seq(Tokens) /\ ToSet(text) = h.mods \cup {h.key}
  <2>1. text \in Seq(Tokens) /\ ToSet(text) = ToSet(mods) \cup ToSet(<<h.key>>)
    BY <1>4, ConcatElements
  <2>. QED
    BY <1>3, <1>4, <2>1
<1>6. Len(text) = Len(mods) + 1 /\ text[Len(text)] = h.key /\ Len(mods) \in Nat
  BY <1>4
<1>7. DOMAIN text = 1..Len(text) /\ Len(text) \in Nat
  BY <1>5, LenProperties
<1> HIDE DEF text
<1>8. Len(text) \in DOMAIN text /\ \A i \in DOMAIN text : i <= Len(text)
  BY <1>6, <1>7
<1>9. Len(text) \in KeysAt(text) /\ \A i \in KeysAt(text) : i <= Len(text)
  BY <1>6, <1>8 DEF KeysAt
<1>. QED
  BY <1>1, <1>5, <1>6, <1>9

(* Every text, of any length, means what it says.                          *)
THEOREM EveryTextMeans == \A text \in Seq(Tokens) : MeansItsText(text)
<1> SUFFICES ASSUME NEW text \in Seq(Tokens) PROVE MeansItsText(text)
  OBVIOUS
<1>1. ASSUME ~ParseHotkey(text).err
      PROVE  ParseHotkey(Render(ParseHotkey(text).hotkey)) = ParseHotkey(text)
  <2>1. PICK h : /\ h = [mods |-> ModsIn(text), key |-> text[Max(KeysAt(text))]]
                 /\ ParseHotkey(text) = [hotkey |-> h, err |-> FALSE]
    BY <1>1, ParseIs
  <2>2. h.mods = ModsIn(text) /\ h.mods # {} /\ KeysAt(text) # {}
    BY <1>1, <2>1, ParseIs
  <2>3. text[Max(KeysAt(text))] \in Keys
    <3>1. KeysAt(text) \in SUBSET (1..Len(text)) /\ Len(text) \in Nat
      BY LenProperties DEF KeysAt
    <3>2. Max(KeysAt(text)) \in KeysAt(text)
      BY <2>2, <3>1, MaxIs
    <3>. QED
      BY <3>2 DEF KeysAt
  <2>4. h \in Hotkeys /\ h.key \in Keys /\ h.mods \subseteq Modifiers
    BY <2>1, <2>3 DEF Hotkeys, ModsIn
  <2>5. PICK t \in Seq(Tokens) :
          /\ t = Render(h)
          /\ ToSet(t) = h.mods \cup {h.key}
          /\ Len(t) \in KeysAt(t) /\ t[Len(t)] = h.key
          /\ \A i \in KeysAt(t) : i <= Len(t)
    BY <2>4, RenderIs
  <2>6. ModsIn(t) = h.mods
    BY <2>4, <2>5, TokenAssumption DEF ModsIn
  <2>7. Max(KeysAt(t)) = Len(t)
    <3>1. KeysAt(t) \in SUBSET (1..Len(t)) /\ Len(t) \in Nat
      BY LenProperties DEF KeysAt
    <3>. QED
      BY <2>5, <3>1, MaxUnique
  <2>8. ToSet(t) \subseteq Keys \cup Modifiers /\ KeysAt(t) # {}
    BY <2>4, <2>5
  <2>9. ~ParseHotkey(t).err
    BY <2>2, <2>6, <2>8, ParseIs
  <2>10. ParseHotkey(t) = [hotkey |-> [mods |-> h.mods, key |-> h.key], err |-> FALSE]
    BY <2>5, <2>6, <2>7, <2>9, ParseIs
  <2>. QED
    BY <2>1, <2>5, <2>10
<1>2. /\ ParseHotkey(text).err <=> \/ KeysAt(text) = {} \/ ModsIn(text) = {}
                                   \/ ~ ToSet(text) \subseteq Keys \cup Modifiers
      /\ ~ParseHotkey(text).err => ParseHotkey(text).hotkey =
             [mods |-> ModsIn(text), key |-> text[Max(KeysAt(text))]]
  BY ParseIs
<1>. QED
  BY <1>1, <1>2 DEF MeansItsText, KeysAt, ModsIn

-----------------------------------------------------------------------------
(* The listener.                                                           *)

USE DEF setupVars, chanVars, listenVars, callVars, fleetVars, Goto, LGoto

ListenerPcs ==
    {"off", "spawned", "register", "loop", "unregister", "wait", "close", "ended"}
CallerPcs ==
    Kinds \cup {"idle", "onPause", "onResume", "abort", "cancel", "await", "join", "returned"}

(* The part of the types that the arguments below rest on.                 *)
Shape ==
    /\ starts \in 0..MaxStarts
    /\ lpc \in [Listeners -> ListenerPcs]
    /\ \A l \in Listeners : lpc[l] # "off" => l <= starts
    /\ held \in [Listeners -> SUBSET Kinds]
    /\ msgs \in [Listeners -> Seq(Kinds \cup {"quit"})]
    /\ watcher \in [Listeners -> {"off", "select", "ended"}]
    /\ pc \in [Callers -> CallerPcs]
    /\ balance \in Int

(* What a listener holds of the OS, and what will end its message loop.    *)
HeldInv ==
    \A l \in Listeners :
        /\ held[l] \subseteq Enabled
        /\ \A k \in held[l] :
            /\ cfg[k].hotkey \notin taken
            /\ \A j \in held[l] \ {k} : cfg[j].hotkey # cfg[k].hotkey
        /\ lpc[l] = "loop" =>
            held[l] = Enabled /\ (watcher[l] = "select" \/ "quit" \in ToSet(msgs[l]))
        /\ lpc[l] \in {"off", "spawned", "wait", "close", "ended"} => held[l] = {}

(* The next binding to register or unregister is one of those asked for.   *)
LEMMA FirstIn ==
    ASSUME NEW S \in SUBSET Kinds, S # {} PROVE First(S) \in S
<1>1. \E k \in S : \A j \in S : Id[k] <= Id[j]
  <2>1. CASE "pause" \in S
    BY <2>1 DEF Kinds, Id
  <2>2. CASE "pause" \notin S /\ "resume" \in S
    BY <2>2 DEF Kinds, Id
  <2>3. CASE "pause" \notin S /\ "resume" \notin S
    <3>1. S = {"stop"}
      BY <2>3 DEF Kinds
    <3>. QED
      BY <3>1 DEF Id
  <2>. QED
    BY <2>1, <2>2, <2>3
<1>. QED
  BY <1>1 DEF First

(* A queue to which a message is posted has the message and the others.    *)
LEMMA Posted ==
    ASSUME NEW T, NEW s \in Seq(T), NEW x \in T
    PROVE  /\ Append(s, x) \in Seq(T)
           /\ ToSet(Append(s, x)) = ToSet(s) \cup {x}
<1>1. Append(s, x) \in Seq(T) /\ Len(Append(s, x)) = Len(s) + 1
  BY AppendProperties
<1>2. \A i \in 1..Len(s) + 1 : Append(s, x)[i] = IF i <= Len(s) THEN s[i] ELSE x
  BY AppendProperties
<1>3. DOMAIN s = 1..Len(s) /\ DOMAIN Append(s, x) = 1..Len(s) + 1 /\ Len(s) \in Nat
  BY <1>1, LenProperties
<1>4. ToSet(Append(s, x)) \subseteq ToSet(s) \cup {x}
  BY <1>2, <1>3 DEF ToSet
<1>5. x \in ToSet(Append(s, x))
  <2>1. Len(s) + 1 \in 1..Len(s) + 1 /\ Append(s, x)[Len(s) + 1] = x
    BY <1>2, <1>3
  <2>. QED
    BY <1>3, <2>1 DEF ToSet
<1>6. ToSet(s) \subseteq ToSet(Append(s, x))
  <2>1. \A i \in 1..Len(s) : i \in 1..Len(s) + 1 /\ Append(s, x)[i] = s[i]
    BY <1>2, <1>3
  <2>. QED
    BY <1>3, <2>1 DEF ToSet
<1>. QED
  BY <1>1, <1>4, <1>5, <1>6

(* A queue whose head is taken keeps the others.                           *)
LEMMA Taken ==
    ASSUME NEW T, NEW s \in Seq(T), s # <<>>
    PROVE  /\ Head(s) \in T
           /\ Tail(s) \in Seq(T)
           /\ ToSet(s) \subseteq ToSet(Tail(s)) \cup {Head(s)}
<1>1. /\ Head(s) = s[1] /\ Head(s) \in T
      /\ Tail(s) \in Seq(T) /\ Len(Tail(s)) = Len(s) - 1
      /\ \A i \in 1..Len(Tail(s)) : Tail(s)[i] = s[i + 1]
  BY HeadTailProperties, ElementOfSeq, EmptySeq, LenProperties
<1>2. DOMAIN s = 1..Len(s) /\ DOMAIN Tail(s) = 1..Len(Tail(s)) /\ Len(s) \in Nat
  BY <1>1, LenProperties
<1>3. ASSUME NEW i \in 1..Len(s) PROVE s[i] \in ToSet(Tail(s)) \cup {Head(s)}
  <2>1. CASE i = 1
    BY <1>1, <2>1
  <2>2. CASE i # 1
    <3>1. i - 1 \in 1..Len(Tail(s)) /\ Tail(s)[i - 1] = s[i]
      BY <1>1, <1>2, <2>2
    <3>. QED
      BY <1>2, <3>1 DEF ToSet
  <2>. QED
    BY <2>1, <2>2
<1>. QED
  BY <1>1, <1>2, <1>3 DEF ToSet

(* Every step keeps the types.                                             *)
LEMMA ShapeStep == Shape /\ HeldInv /\ [Next]_vars => Shape'
<1> SUFFICES ASSUME Shape, HeldInv, [Next]_vars PROVE Shape'
  OBVIOUS
<1> USE BoundAssumption, CallerAssumption DEF Shape, Callers, Listeners, ListenerPcs, CallerPcs
<1>1. ASSUME NEW c \in Clients, Start(c) PROVE Shape'
  <2>1. starts' = starts + 1 /\ starts' \in Listeners
    BY <1>1 DEF Start
  <2>2. lpc' = lpc \/ lpc' = [lpc EXCEPT ![starts'] = "spawned"]
    BY <1>1 DEF Start
  <2>. QED
    BY <1>1, <2>1, <2>2 DEF Start
<1>2. ASSUME NEW c \in Clients, NEW op \in Kinds, Call(c, op) PROVE Shape'
  BY <1>2 DEF Call
<1>3. ASSUME NEW c \in Clients, Await(c) PROVE Shape'
  BY <1>3 DEF Await
<1>4. ASSUME NEW c \in Clients, Join(c) PROVE Shape'
  BY <1>4 DEF Join
<1>5. ASSUME NEW c \in Callers, Pause(c) PROVE Shape'
  BY <1>5 DEF Pause
<1>6. ASSUME NEW c \in Callers, Resume(c) PROVE Shape'
  BY <1>6 DEF Resume
<1>7. ASSUME NEW c \in Callers, Notify(c) PROVE Shape'
  BY <1>7 DEF Notify
<1>8. ASSUME NEW c \in Callers, StopEnter(c) PROVE Shape'
  BY <1>8 DEF StopEnter
<1>9. ASSUME NEW c \in Callers, StopSkip(c) PROVE Shape'
  BY <1>9 DEF StopSkip, AfterStop
<1>10. ASSUME NEW c \in Callers, Abort(c) PROVE Shape'
  BY <1>10 DEF Abort
<1>11. ASSUME NEW c \in Callers, Cancel(c) PROVE Shape'
  BY <1>11 DEF Cancel, AfterStop
<1>12. ASSUME NEW l \in Listeners, Begin(l) PROVE Shape'
  BY <1>12 DEF Begin
<1>13. ASSUME NEW l \in Listeners, Register(l) PROVE Shape'
  <2>1. Enabled \ held[l] \in SUBSET Kinds /\ Enabled \ held[l] # {}
    BY <1>13 DEF Register, Enabled, HeldInv
  <2>2. First(Enabled \ held[l]) \in Kinds
    BY <2>1, FirstIn
  <2>. QED
    BY <1>13, <2>2 DEF Register
<1>14. ASSUME NEW l \in Listeners, RegisterFails(l) PROVE Shape'
  BY <1>14 DEF RegisterFails
<1>15. ASSUME NEW l \in Listeners, StartLoop(l) PROVE Shape'
  BY <1>15 DEF StartLoop
<1>16. ASSUME NEW l \in Listeners, Dispatch(l) PROVE Shape'
  <2>1. Head(msgs[l]) \in Kinds /\ Tail(msgs[l]) \in Seq(Kinds \cup {"quit"})
    <3>1. msgs[l] \in Seq(Kinds \cup {"quit"}) /\ msgs[l] # <<>> /\ Head(msgs[l]) # "quit"
      BY <1>16 DEF Dispatch
    <3>. QED
      BY <3>1, Taken
  <2>. QED
    BY <1>16, <2>1 DEF Dispatch
<1>17. ASSUME NEW l \in Listeners, Quit(l) PROVE Shape'
  BY <1>17 DEF Quit
<1>18. ASSUME NEW l \in Listeners, Unregister(l) PROVE Shape'
  BY <1>18 DEF Unregister
<1>19. ASSUME NEW l \in Listeners, Unregistered(l) PROVE Shape'
  BY <1>19 DEF Unregistered
<1>20. ASSUME NEW l \in Listeners, WaitCtx(l) PROVE Shape'
  BY <1>20 DEF WaitCtx
<1>21. ASSUME NEW l \in Listeners, Close(l) PROVE Shape'
  BY <1>21 DEF Close
<1>22. ASSUME NEW l \in Listeners, PostQuit(l) PROVE Shape'
  <2>1. \A m \in Kinds \cup {"quit"} : Append(msgs[l], m) \in Seq(Kinds \cup {"quit"})
    BY Posted
  <2>. QED
    BY <1>22, <2>1 DEF PostQuit
<1>23. ASSUME NEW l \in Listeners, Press(l) PROVE Shape'
  <2>1. \A m \in Kinds \cup {"quit"} : Append(msgs[l], m) \in Seq(Kinds \cup {"quit"})
    BY Posted
  <2>. QED
    BY <1>23, <2>1 DEF Press
<1>24. CASE UNCHANGED vars
  BY <1>24 DEF vars
<1>. QED
  BY <1>1, <1>2, <1>3, <1>4, <1>5, <1>6, <1>7, <1>8, <1>9, <1>10, <1>11, <1>12, <1>13, <1>14,
     <1>15, <1>16, <1>17, <1>18, <1>19, <1>20, <1>21, <1>22, <1>23, <1>24
  DEF Next, Routine, Listen

(* Every step keeps what a listener holds in line with its control point.  *)
LEMMA HeldStep == Shape /\ HeldInv /\ [Next]_vars => HeldInv'
<1> SUFFICES ASSUME Shape, HeldInv, [Next]_vars PROVE HeldInv'
  OBVIOUS
<1>1. Enabled' = Enabled /\ UNCHANGED <<cfg, taken>>
  BY DEF Next, Routine, Listen, vars, Enabled, Start, Call, Await, Join, Pause, Resume, Notify,
     StopEnter, StopSkip, Abort, Cancel, Begin, Register, RegisterFails, StartLoop, Dispatch, Quit,
     Unregister, Unregistered, WaitCtx, Close, PostQuit, Press
<1>2. CASE UNCHANGED <<lpc, held, msgs, watcher>>
  BY <1>1, <1>2 DEF HeldInv
<1>3. ASSUME NEW c \in Clients, Start(c) PROVE HeldInv'
  <2>1. CASE lpc' = lpc
    BY <1>2, <1>3, <2>1 DEF Start
  <2>2. CASE lpc' = [lpc EXCEPT ![starts'] = "spawned"]
    <3>1. starts' \in Listeners /\ lpc[starts'] = "off"
      BY <1>3, BoundAssumption DEF Start, Shape, Listeners
    <3>. QED
      BY <1>1, <1>3, <2>2, <3>1 DEF Start, Shape, HeldInv
  <2>. QED
    BY <1>3, <2>1, <2>2 DEF Start
<1>4. ASSUME NEW c \in Clients, Await(c) \/ Join(c) \/ (\E op \in Kinds : Call(c, op))
      PROVE  HeldInv'
  BY <1>2, <1>4 DEF Await, Join, Call
<1>5. ASSUME NEW c \in Callers, Routine(c) PROVE HeldInv'
  BY <1>2, <1>5 DEF Routine, Pause, Resume, Notify, StopEnter, StopSkip, Abort, Cancel
<1>6. ASSUME NEW l \in Listeners, Begin(l) PROVE HeldInv'
  BY <1>1, <1>6 DEF Begin, Shape, HeldInv
<1>7. ASSUME NEW l \in Listeners, Register(l) PROVE HeldInv'
  <2> DEFINE k == First(Enabled \ held[l])
  <2>1. Enabled \ held[l] \in SUBSET Kinds /\ Enabled \ held[l] # {}
    BY <1>7 DEF Register, Enabled, HeldInv
  <2>2. k \in Enabled \ held[l]
    BY <2>1, FirstIn
  <2>3. cfg[k].hotkey \notin taken /\ \A j \in held[l] : cfg[j].hotkey # cfg[k].hotkey
    <3>1. cfg[k].hotkey \notin InUse
      BY <1>7 DEF Register
    <3>2. taken \subseteq InUse
      BY DEF InUse
    <3>3. ASSUME NEW j \in held[l] PROVE cfg[j].hotkey \in InUse
      <4>1. cfg[j].hotkey \in {cfg[i].hotkey : i \in held[l]}
        OBVIOUS
      <4>2. {cfg[i].hotkey : i \in held[l]} \subseteq InUse
        BY DEF InUse
      <4>. QED
        BY <4>1, <4>2
    <3>. QED
      BY <3>1, <3>2, <3>3
  <2>4. held' = [held EXCEPT ![l] = @ \cup {k}] /\ lpc[l] = "register"
        /\ UNCHANGED <<lpc, msgs, watcher>>
    BY <1>7 DEF Register
  <2> HIDE DEF k
  <2>5. ASSUME NEW m \in Listeners, m # l PROVE held'[m] = held[m]
    BY <2>4, <2>5 DEF Shape
  <2>6. held'[l] = held[l] \cup {k}
    BY <2>4 DEF Shape
  <2>. QED
    BY <1>1, <2>2, <2>3, <2>4, <2>5, <2>6 DEF HeldInv
<1>8. ASSUME NEW l \in Listeners, RegisterFails(l) PROVE HeldInv'
  BY <1>1, <1>8 DEF RegisterFails, Shape, HeldInv
<1>9. ASSUME NEW l \in Listeners, StartLoop(l) PROVE HeldInv'
  BY <1>1, <1>9 DEF StartLoop, Shape, HeldInv
<1>10. ASSUME NEW l \in Listeners, Dispatch(l) PROVE HeldInv'
  <2>1. msgs[l] \in Seq(Kinds \cup {"quit"}) /\ msgs[l] # <<>> /\ Head(msgs[l]) # "quit"
    BY <1>10 DEF Dispatch, Shape
  <2>2. "quit" \in ToSet(msgs[l]) => "quit" \in ToSet(Tail(msgs[l]))
    BY <2>1, Taken
  <2>. QED
    BY <1>1, <1>10, <2>2 DEF Dispatch, Shape, HeldInv
<1>11. ASSUME NEW l \in Listeners, Quit(l) PROVE HeldInv'
  BY <1>1, <1>11 DEF Quit, Shape, HeldInv
<1>12. ASSUME NEW l \in Listeners, Unregister(l) PROVE HeldInv'
  BY <1>1, <1>12 DEF Unregister, Shape, HeldInv
<1>13. ASSUME NEW l \in Listeners, Unregistered(l) PROVE HeldInv'
  BY <1>1, <1>13 DEF Unregistered, Shape, HeldInv
<1>14. ASSUME NEW l \in Listeners, WaitCtx(l) PROVE HeldInv'
  BY <1>1, <1>14 DEF WaitCtx, Shape, HeldInv
<1>15. ASSUME NEW l \in Listeners, Close(l) PROVE HeldInv'
  BY <1>1, <1>15 DEF Close, Shape, HeldInv
<1>16. ASSUME NEW l \in Listeners, PostQuit(l) PROVE HeldInv'
  <2>1. "quit" \in ToSet(Append(msgs[l], "quit"))
    <3> DEFINE T == Kinds \cup {"quit"}
    <3>1. msgs[l] \in Seq(T) /\ "quit" \in T
      BY DEF Shape
    <3> HIDE DEF T
    <3>2. ToSet(Append(msgs[l], "quit")) = ToSet(msgs[l]) \cup {"quit"}
      BY <3>1, Posted
    <3>. QED
      BY <3>2
  <2>. QED
    BY <1>1, <1>16, <2>1 DEF PostQuit, Shape, HeldInv
<1>17. ASSUME NEW l \in Listeners, Press(l) PROVE HeldInv'
  <2>1. ASSUME NEW k \in Kinds PROVE ToSet(msgs[l]) \subseteq ToSet(Append(msgs[l], k))
    <3> DEFINE T == Kinds \cup {"quit"}
    <3>1. msgs[l] \in Seq(T) /\ k \in T
      BY DEF Shape
    <3> HIDE DEF T
    <3>2. ToSet(Append(msgs[l], k)) = ToSet(msgs[l]) \cup {k}
      BY <3>1, Posted
    <3>. QED
      BY <3>2
  <2>. QED
    BY <1>1, <1>17, <2>1 DEF Press, Shape, HeldInv
<1>18. CASE UNCHANGED vars
  BY <1>2, <1>18 DEF vars
<1>. QED
  BY <1>3, <1>4, <1>5, <1>6, <1>7, <1>8, <1>9, <1>10, <1>11, <1>12, <1>13, <1>14, <1>15, <1>16,
     <1>17, <1>18
  DEF Next, Listen

(* How many callers are at a control point.                                *)
Count(p) == Cardinality({c \in Callers : pc[c] = p})

(* There are finitely many callers.                                        *)
LEMMA CallersFinite ==
    /\ IsFiniteSet(Callers)
    /\ \A p : IsFiniteSet({c \in Callers : pc[c] = p}) /\ Count(p) \in Nat
<1>1. IsFiniteSet(Listeners)
  BY BoundAssumption, FS_Interval DEF Listeners
<1>2. IsFiniteSet(Callers)
  BY <1>1, CallerAssumption, FS_Union DEF Callers
<1>3. ASSUME NEW p PROVE IsFiniteSet({c \in Callers : pc[c] = p}) /\ Count(p) \in Nat
  <2>1. IsFiniteSet({c \in Callers : pc[c] = p})
    BY <1>2, FS_Subset
  <2>. QED
    BY <2>1, FS_CardinalityType DEF Count
<1>. QED
  BY <1>2, <1>3

(* A caller that moves on leaves one count for another.                    *)
LEMMA Moved ==
    ASSUME pc \in [Callers -> CallerPcs], NEW c \in Callers, NEW p, pc' = [pc EXCEPT ![c] = p],
           NEW q
    PROVE  Count(q)' = IF pc[c] = q THEN IF p = q THEN Count(q) ELSE Count(q) - 1
                       ELSE IF p = q THEN Count(q) + 1 ELSE Count(q)
<1> DEFINE S == {x \in Callers : pc[x] = q}
           T == {x \in Callers : pc'[x] = q}
<1>1. IsFiniteSet(S) /\ Count(q) = Cardinality(S) /\ Count(q)' = Cardinality(T)
  BY CallersFinite DEF Count
<1>2. CASE pc[c] = q /\ p # q
  <2>1. T = S \ {c} /\ c \in S
    BY <1>2
  <2>. QED
    BY <1>1, <1>2, <2>1, FS_RemoveElement
<1>3. CASE pc[c] # q /\ p = q
  <2>1. T = S \cup {c} /\ c \notin S
    BY <1>3
  <2>. QED
    BY <1>1, <1>3, <2>1, FS_AddElement
<1>4. CASE pc[c] = q <=> p = q
  <2>1. T = S
    BY <1>4
  <2>. QED
    BY <1>1, <1>4, <2>1
<1>. QED
  BY <1>2, <1>3, <1>4

(* Every step keeps the callbacks made and owed in line with the reasons.  *)
LEMMA NotifyStep == Shape /\ NotifiedExactly /\ [Next]_vars => NotifiedExactly'
<1> SUFFICES ASSUME Shape, NotifiedExactly, [Next]_vars PROVE NotifiedExactly'
  OBVIOUS
<1>1. /\ NotifiedExactly <=> balance + Count("onPause") - Count("onResume")
                                = IF reasons = {} THEN 0 ELSE 1
      /\ NotifiedExactly' <=> balance' + Count("onPause")' - Count("onResume")'
                                = IF reasons' = {} THEN 0 ELSE 1
  BY DEF NotifiedExactly, Count
<1>2. pc \in [Callers -> CallerPcs] /\ balance \in Int
      /\ Count("onPause") \in Nat /\ Count("onResume") \in Nat
  BY CallersFinite DEF Shape
<1>3. CASE UNCHANGED <<pc, reasons, balance>>
  BY <1>3 DEF NotifiedExactly
<1>4. ASSUME NEW c \in Callers, NEW p, pc' = [pc EXCEPT ![c] = p], p \notin {"onPause", "onResume"},
             pc[c] \notin {"onPause", "onResume"}, UNCHANGED balance, reasons' = {} <=> reasons = {}
      PROVE  NotifiedExactly'
  <2>1. Count("onPause")' = Count("onPause") /\ Count("onResume")' = Count("onResume")
    BY <1>2, <1>4, Moved
  <2>. QED
    BY <1>1, <1>4, <2>1
<1>5. ASSUME NEW c \in Callers, Pause(c) PROVE NotifiedExactly'
  <2>1. CASE dstopped \/ reasons # {}
    <3>1. pc[c] = "pause" /\ pc' = [pc EXCEPT ![c] = "idle"] /\ balance' = balance
      BY <1>5, <2>1 DEF Pause
    <3>2. reasons' = {} <=> reasons = {}
      BY <1>5, <2>1 DEF Pause
    <3>. QED
      BY <1>4, <3>1, <3>2
  <2>2. CASE ~dstopped /\ reasons = {}
    <3>1. pc[c] = "pause" /\ pc' = [pc EXCEPT ![c] = "onPause"] /\ balance' = balance
      BY <1>5, <2>2 DEF Pause
    <3>2. reasons' # {}
      BY <1>5, <2>2 DEF Pause
    <3>3. Count("onPause")' = Count("onPause") + 1 /\ Count("onResume")' = Count("onResume")
      BY <1>2, <3>1, Moved
    <3>. QED
      BY <1>1, <1>2, <2>2, <3>1, <3>2, <3>3
  <2>. QED
    BY <2>1, <2>2
<1>6. ASSUME NEW c \in Callers, Resume(c) PROVE NotifiedExactly'
  <2>1. CASE dstopped \/ Reason(c) \notin reasons \/ reasons \ {Reason(c)} # {}
    <3>1. pc[c] = "resume" /\ pc' = [pc EXCEPT ![c] = "idle"] /\ balance' = balance
      BY <1>6, <2>1 DEF Resume
    <3>2. reasons' = {} <=> reasons = {}
      BY <1>6, <2>1 DEF Resume
    <3>. QED
      BY <1>4, <3>1, <3>2
  <2>2. CASE ~dstopped /\ Reason(c) \in reasons /\ reasons \ {Reason(c)} = {}
    <3>1. pc[c] = "resume" /\ pc' = [pc EXCEPT ![c] = "onResume"] /\ balance' = balance
      BY <1>6, <2>2 DEF Resume
    <3>2. reasons # {} /\ reasons' = {}
      BY <1>6, <2>2 DEF Resume
    <3>3. Count("onPause")' = Count("onPause") /\ Count("onResume")' = Count("onResume") + 1
      BY <1>2, <3>1, Moved
    <3>. QED
      BY <1>1, <1>2, <3>1, <3>2, <3>3
  <2>. QED
    BY <2>1, <2>2
<1>7. ASSUME NEW c \in Callers, Notify(c) PROVE NotifiedExactly'
  <2>1. pc' = [pc EXCEPT ![c] = "idle"] /\ reasons' = reasons
    BY <1>7 DEF Notify
  <2>2. CASE pc[c] = "onPause"
    <3>1. Count("onPause")' = Count("onPause") - 1 /\ Count("onResume")' = Count("onResume")
      BY <1>2, <2>1, <2>2, Moved
    <3>2. balance' = balance + 1
      BY <1>7, <2>2 DEF Notify
    <3>. QED
      BY <1>1, <1>2, <2>1, <3>1, <3>2
  <2>3. CASE pc[c] = "onResume"
    <3>1. Count("onPause")' = Count("onPause") /\ Count("onResume")' = Count("onResume") - 1
      BY <1>2, <2>1, <2>3, Moved
    <3>2. balance' = balance - 1
      BY <1>2, <1>7, <2>3 DEF Notify
    <3>. QED
      BY <1>1, <1>2, <2>1, <3>1, <3>2
  <2>. QED
    BY <1>7, <2>2, <2>3 DEF Notify
<1>8. ASSUME NEW c \in Callers, StopEnter(c) \/ StopSkip(c) \/ Abort(c) \/ Cancel(c)
      PROVE  NotifiedExactly'
  BY <1>4, <1>8 DEF StopEnter, StopSkip, Abort, Cancel, AfterStop
<1>9. ASSUME NEW c \in Clients, Await(c) \/ Join(c) \/ (\E op \in Kinds : Call(c, op))
      PROVE  NotifiedExactly'
  BY <1>4, <1>9 DEF Await, Join, Call, Kinds, Callers
<1>10. ASSUME NEW l \in Listeners, Dispatch(l) PROVE NotifiedExactly'
  <2>1. msgs[l] \in Seq(Kinds \cup {"quit"}) /\ msgs[l] # <<>>
    BY <1>10 DEF Dispatch, Shape
  <2>2. Head(msgs[l]) \in Kinds \cup {"quit"}
    BY <2>1, Taken
  <2>3. pc[l] = "idle" /\ pc' = [pc EXCEPT ![l] = Head(msgs[l])] /\ UNCHANGED <<balance, reasons>>
    BY <1>10 DEF Dispatch
  <2>. QED
    BY <1>4, <2>2, <2>3 DEF Kinds, Callers
<1>11. ASSUME NEW l \in Listeners, Listen(l) \/ PostQuit(l) \/ Press(l) PROVE NotifiedExactly'
  BY <1>3, <1>10, <1>11 DEF Listen, Begin, Register, RegisterFails, StartLoop, Quit, Unregister,
     Unregistered, WaitCtx, Close, PostQuit, Press
<1>12. ASSUME NEW c \in Clients, Start(c) PROVE NotifiedExactly'
  BY <1>3, <1>12 DEF Start
<1>13. CASE UNCHANGED vars
  BY <1>3, <1>13 DEF vars
<1>. QED
  BY <1>5, <1>6, <1>7, <1>8, <1>9, <1>11, <1>12, <1>13 DEF Next, Routine

(* How Stop and the only listener there can be meet, if Start is called    *)
(* once at most.                                                           *)
JoinInv ==
    /\ starts = 0 => hotkeyDone = 0
    /\ starts # 0 /\ hotkeyDone = 0 => \A l \in Listeners : lpc[l] = "off"
    /\ closed # {} => \A l \in Listeners : lpc[l] = "ended"
    /\ atStop \in [Clients -> 0..starts]
    /\ \A c \in Clients : pc[c] = "returned" /\ atStop[c] # 0 =>
            \A l \in Listeners : lpc[l] \in {"off", "ended"}

(* Every step keeps it.                                                    *)
LEMMA JoinStep == MaxStarts <= 1 /\ Shape /\ JoinInv /\ [Next]_vars => JoinInv'
<1> SUFFICES ASSUME MaxStarts <= 1, Shape, JoinInv, [Next]_vars PROVE JoinInv'
  OBVIOUS
<1> USE BoundAssumption, CallerAssumption DEF Shape, JoinInv, Listeners, Callers
<1>1. ASSUME NEW c \in Clients, Start(c) PROVE JoinInv'
  BY <1>1 DEF Start
<1>2. ASSUME NEW c \in Clients, NEW op \in Kinds, Call(c, op) PROVE JoinInv'
  BY <1>2 DEF Call, Kinds
<1>3. ASSUME NEW c \in Clients, Await(c) PROVE JoinInv'
  BY <1>3 DEF Await
<1>4. ASSUME NEW c \in Clients, Join(c) PROVE JoinInv'
  BY <1>4 DEF Join
<1>5. ASSUME NEW c \in Callers, Pause(c) PROVE JoinInv'
  BY <1>5 DEF Pause
<1>6. ASSUME NEW c \in Callers, Resume(c) PROVE JoinInv'
  BY <1>6 DEF Resume
<1>7. ASSUME NEW c \in Callers, Notify(c) PROVE JoinInv'
  BY <1>7 DEF Notify
<1>8. ASSUME NEW c \in Callers, StopEnter(c) PROVE JoinInv'
  BY <1>8 DEF StopEnter
<1>9. ASSUME NEW c \in Callers, StopSkip(c) PROVE JoinInv'
  BY <1>9 DEF StopSkip, AfterStop
<1>10. ASSUME NEW c \in Callers, Abort(c) PROVE JoinInv'
  BY <1>10 DEF Abort
<1>11. ASSUME NEW c \in Callers, Cancel(c) PROVE JoinInv'
  BY <1>11 DEF Cancel, AfterStop
<1>12. ASSUME NEW l \in Listeners, Begin(l) PROVE JoinInv'
  BY <1>12 DEF Begin
<1>13. ASSUME NEW l \in Listeners, Register(l) PROVE JoinInv'
  BY <1>13 DEF Register
<1>14. ASSUME NEW l \in Listeners, RegisterFails(l) PROVE JoinInv'
  BY <1>14 DEF RegisterFails
<1>15. ASSUME NEW l \in Listeners, StartLoop(l) PROVE JoinInv'
  BY <1>15 DEF StartLoop
<1>16. ASSUME NEW l \in Listeners, Dispatch(l) PROVE JoinInv'
  BY <1>16 DEF Dispatch
<1>17. ASSUME NEW l \in Listeners, Quit(l) PROVE JoinInv'
  BY <1>17 DEF Quit
<1>18. ASSUME NEW l \in Listeners, Unregister(l) PROVE JoinInv'
  BY <1>18 DEF Unregister
<1>19. ASSUME NEW l \in Listeners, Unregistered(l) PROVE JoinInv'
  BY <1>19 DEF Unregistered
<1>20. ASSUME NEW l \in Listeners, WaitCtx(l) PROVE JoinInv'
  BY <1>20 DEF WaitCtx
<1>21. ASSUME NEW l \in Listeners, Close(l) PROVE JoinInv'
  <2>1. closed = {} /\ (panicked' <=> (panicked \/ mine[l] \in closed))
    BY <1>21, Zenon DEF Close
  <2>. QED
    BY <1>21, <2>1 DEF Close
<1>22. ASSUME NEW l \in Listeners, PostQuit(l) PROVE JoinInv'
  BY <1>22 DEF PostQuit
<1>23. ASSUME NEW l \in Listeners, Press(l) PROVE JoinInv'
  BY <1>23 DEF Press
<1>24. CASE UNCHANGED vars
  BY <1>24 DEF vars
<1>. QED
  BY <1>1, <1>2, <1>3, <1>4, <1>5, <1>6, <1>7, <1>8, <1>9, <1>10, <1>11, <1>12, <1>13, <1>14,
     <1>15, <1>16, <1>17, <1>18, <1>19, <1>20, <1>21, <1>22, <1>23, <1>24
  DEF Next, Routine, Listen

(* The initial states have the invariants.                                 *)
LEMMA InitInvariant == Init => Shape /\ HeldInv /\ NotifiedExactly /\ JoinInv
<1> SUFFICES ASSUME Init PROVE Shape /\ HeldInv /\ NotifiedExactly /\ JoinInv
  OBVIOUS
<1> USE BoundAssumption, CallerAssumption DEF Init
<1>1. Shape
  BY DEF Shape, ListenerPcs, CallerPcs, Listeners
<1>2. HeldInv
  BY DEF HeldInv
<1>3. NotifiedExactly
  <2>1. {c \in Callers : pc[c] = "onPause"} = {} /\ {c \in Callers : pc[c] = "onResume"} = {}
    OBVIOUS
  <2>2. Count("onPause") = 0 /\ Count("onResume") = 0
    BY <2>1, FS_EmptySet DEF Count
  <2>3. balance = 0 /\ reasons = {}
    OBVIOUS
  <2>4. balance + Count("onPause") - Count("onResume") = IF reasons = {} THEN 0 ELSE 1
    BY <2>2, <2>3
  <2>. QED
    BY <2>4 DEF NotifiedExactly, Count
<1>4. JoinInv
  BY DEF JoinInv, Callers
<1>. QED
  BY <1>1, <1>2, <1>3, <1>4

(* The invariants hold in every reachable state.                           *)
LEMMA Invariance == Spec => [](Shape /\ HeldInv)
<1>1. Shape /\ HeldInv /\ [Next]_vars => (Shape /\ HeldInv)'
  BY ShapeStep, HeldStep
<1>. QED
  BY <1>1, InitInvariant, PTL DEF Spec

(* The hotkeys come and go together, whatever options the client gives and *)
(* whatever other programs hold.                                           *)
THEOREM AllOrNothingHolds == Spec => []AllOrNothing
<1>1. HeldInv => AllOrNothing
  BY DEF HeldInv, AllOrNothing, Enabled
<1>. QED
  BY <1>1, Invariance, PTL

(* OnPause and OnResume alternate in number, for any number of clients and *)
(* listeners that pause and resume.                                        *)
THEOREM NotifiedExactlyHolds == Spec => []NotifiedExactly
BY InitInvariant, Invariance, NotifyStep, PTL DEF Spec

(* How Stop meets the only listener, if Start is called once at most.      *)
LEMMA JoinInvariance == MaxStarts <= 1 => (Spec => []JoinInv)
<1>1. ASSUME MaxStarts <= 1 PROVE Spec => []JoinInv
  <2>1. Shape /\ JoinInv /\ [Next]_vars => JoinInv'
    BY <1>1, JoinStep
  <2>. QED
    BY <2>1, InitInvariant, Invariance, PTL DEF Spec
<1>. QED
  BY <1>1

(* If Start is called once at most, a Stop called after it leaves no       *)
(* listener and no hotkey behind when it returns.                          *)
THEOREM StopJoinsListenerHolds == MaxStarts <= 1 => (Spec => []StopJoinsListener)
<1>1. Shape /\ HeldInv /\ JoinInv => StopJoinsListener
  <2> SUFFICES ASSUME Shape, HeldInv, JoinInv, NEW c \in Clients, pc[c] = "returned",
                      NEW l \in 1..atStop[c]
               PROVE  lpc[l] \in {"off", "ended"} /\ held[l] = {}
    BY DEF StopJoinsListener
  <2>1. l \in Listeners /\ atStop[c] # 0
    BY BoundAssumption DEF Shape, JoinInv, Listeners
  <2>. QED
    BY <2>1 DEF JoinInv, HeldInv
<1>2. ASSUME MaxStarts <= 1 PROVE Spec => []StopJoinsListener
  <2>1. Spec => []JoinInv
    BY <1>2, JoinInvariance
  <2>. QED
    BY <1>1, <2>1, Invariance, PTL
<1>. QED
  BY <1>2

-----------------------------------------------------------------------------
(* Every variable has its type.                                            *)

Config == [Kinds -> [on : BOOLEAN, hotkey : Hotkeys]]

(* What is chosen once, counted, or a flag.                                *)
Flags == windows \in BOOLEAN /\ panicked \in BOOLEAN /\ dstopped \in BOOLEAN /\ ctxDone \in BOOLEAN

(* What New sets, what is counted, and what the locks guard.               *)
Settings ==
    /\ cfg \in Config
    /\ taken \subseteq Hotkeys
    /\ presses \in 0..MaxPresses
    /\ calls \in 0..MaxCalls
    /\ reasons \subseteq Reasons
    /\ once \in Callers \cup {Free, Over}

(* Channels are numbered by the calls of Start, and a listener that has    *)
(* begun has one to close.                                                 *)
Channels ==
    /\ hotkeyDone \in 0..starts
    /\ closed \subseteq 1..starts
    /\ mine \in [Listeners -> 0..starts]
    /\ atStop \in [Clients -> 0..starts]
    /\ joining \in [Clients -> 0..starts]
    /\ \A l \in Listeners :
        /\ lpc[l] # "off" => hotkeyDone # 0
        /\ lpc[l] \notin {"off", "spawned"} => mine[l] # 0

(* A listener calls the fleet from its message loop only, and whoever made *)
(* the last transition to paused does not owe OnResume.                    *)
Running ==
    /\ \A l \in Listeners :
        /\ pc[l] # "idle" => lpc[l] = "loop"
        /\ lpc[l] = "loop" => watcher[l] # "off"
    /\ reasons # {} => \E c \in Callers : pc[c] # "onResume"

Typed(opts, i, config) == config \in Config
Given == INSTANCE FoldTheorems WITH Op <- Apply, Base <- DefaultConfig, Inv <- Typed

(* Options, however many and in whatever order, configure every kind.      *)
LEMMA Configured ==
    ASSUME NEW opts \in Seq(Options) PROVE FoldLeft(Apply, DefaultConfig, opts) \in Config
<1>1. DefaultConfig \in Config
  <2>1. DefaultStopHotkey \in Hotkeys /\ DefaultPauseHotkey \in Hotkeys
        /\ DefaultResumeHotkey \in Hotkeys
    BY KeyAssumption DEF Hotkeys, Modifiers, DefaultStopHotkey, DefaultPauseHotkey,
       DefaultResumeHotkey
  <2>2. PICK V : V = [on : BOOLEAN, hotkey : Hotkeys]
    OBVIOUS
  <2>3. PICK a \in V, b \in V, d \in V :
           DefaultConfig = [pause |-> a, resume |-> b, stop |-> d]
    BY <2>1, <2>2 DEF DefaultConfig
  <2>4. DefaultConfig \in [Kinds -> V]
    BY <2>3 DEF Kinds
  <2>. QED
    BY <2>2, <2>4 DEF Config
<1>2. ASSUME NEW config \in Config, NEW opt \in Options PROVE Apply(config, opt) \in Config
  <2>1. CASE \E k \in Kinds, h \in Hotkeys : opt = With(k, h)
    <3>1. PICK k \in Kinds, h \in Hotkeys : opt = With(k, h)
      BY <2>1
    <3>2. opt.kind = k /\ opt.on = TRUE /\ opt.hotkey = h
      BY <3>1 DEF With
    <3>3. Apply(config, opt) = [config EXCEPT ![k] = [on |-> TRUE, hotkey |-> h]]
      BY <3>2 DEF Apply, Config
    <3>. QED
      BY <3>3 DEF Config
  <2>2. CASE \E k \in Kinds : opt = Disabled(k)
    <3>1. PICK k \in Kinds : opt = Disabled(k)
      BY <2>2
    <3>2. opt.kind = k /\ opt.on = FALSE
      BY <3>1 DEF Disabled
    <3>3. Apply(config, opt) = [config EXCEPT ![k] = [on |-> FALSE, hotkey |-> config[k].hotkey]]
      BY <3>2 DEF Apply, Config
    <3>4. config[k].hotkey \in Hotkeys
      BY DEF Config
    <3>. QED
      BY <3>3, <3>4 DEF Config
  <2>. QED
    BY <2>1, <2>2 DEF Options
<1>3. Given!FoldLeft(Apply, DefaultConfig, opts) \in Config
  <2>1. \A i \in 1..Len(opts) : opts[i] \in Options
    BY ElementOfSeq
  <2>2. Typed(opts, 0, DefaultConfig) /\ \A i \in 1..Len(opts) : \A config \in Config :
            Typed(opts, i - 1, config) => Typed(opts, i, Apply(config, opts[i]))
    BY <1>1, <1>2, <2>1, Zenon DEF Typed
  <2>. QED
    BY <1>1, <1>2, <2>2, Given!FoldInduction, Zenon
<1>4. Given!FoldLeft(Apply, DefaultConfig, opts) = FoldLeft(Apply, DefaultConfig, opts)
  BY Zenon DEF FoldLeft, MapThenFoldSet, Max, Given!FoldLeft, Given!MapThenFoldSet, Given!Max
<1>. QED
  BY <1>3, <1>4, Zenon

(* The initial states are typed.                                           *)
LEMMA InitTypes == Init => Flags /\ Settings /\ Channels /\ Running
<1> SUFFICES ASSUME Init PROVE Flags /\ Settings /\ Channels /\ Running
  OBVIOUS
<1> USE BoundAssumption, CallerAssumption DEF Init
<1>1. cfg \in Config
  <2>1. PICK opts \in OptionLists : cfg = FoldLeft(Apply, DefaultConfig, opts)
    OBVIOUS
  <2>2. opts \in Seq(Options)
    BY OptionAssumption
  <2>. QED
    BY <2>1, <2>2, Configured
<1>2. taken \subseteq Hotkeys
  BY TakenAssumption
<1>3. Settings
  BY <1>1, <1>2 DEF Settings
<1>4. Channels
  BY DEF Channels
<1>5. Running
  BY DEF Running, Callers
<1>6. Flags
  BY Zenon DEF Flags
<1>. QED
  BY <1>3, <1>4, <1>5, <1>6

(* Every step keeps them.                                                  *)
LEMMA FlagsStep == Flags /\ [Next]_vars => Flags'
<1> SUFFICES ASSUME Flags, [Next]_vars PROVE Flags'
  OBVIOUS
<1>1. CASE UNCHANGED <<windows, panicked, dstopped, ctxDone>>
  BY <1>1 DEF Flags
<1>2. ASSUME NEW c \in Clients, Start(c) \/ Await(c) \/ Join(c) \/ (\E op \in Kinds : Call(c, op))
      PROVE  Flags'
  BY <1>1, <1>2 DEF Start, Await, Join, Call
<1>3. ASSUME NEW c \in Callers, Routine(c) PROVE Flags'
  <2>1. CASE Abort(c)
    BY <2>1, Zenon DEF Abort, Flags
  <2>2. CASE Cancel(c)
    BY <2>2, Zenon DEF Cancel, Flags
  <2>. QED
    BY <1>1, <1>3, <2>1, <2>2 DEF Routine, Pause, Resume, Notify, StopEnter, StopSkip
<1>4. ASSUME NEW l \in Listeners, Listen(l) \/ PostQuit(l) \/ Press(l) PROVE Flags'
  <2>1. CASE Close(l)
    BY <2>1, Zenon DEF Close, Flags
  <2>. QED
    BY <1>1, <1>4, <2>1 DEF Listen, Begin, Register, RegisterFails, StartLoop, Dispatch, Quit,
       Unregister, Unregistered, WaitCtx, PostQuit, Press
<1>5. CASE UNCHANGED vars
  BY <1>1, <1>5 DEF vars
<1>. QED
  BY <1>2, <1>3, <1>4, <1>5 DEF Next

(* Every step keeps what is set by New, counted, or under a lock.          *)
LEMMA SettingsStep == Shape /\ Settings /\ [Next]_vars => Settings'
<1> SUFFICES ASSUME Shape, Settings, [Next]_vars PROVE Settings'
  OBVIOUS
<1> USE BoundAssumption
<1>1. UNCHANGED <<cfg, taken>>
  BY DEF Next, Routine, Listen, vars, Start, Call, Await, Join, Pause, Resume, Notify, StopEnter,
     StopSkip, Abort, Cancel, Begin, Register, RegisterFails, StartLoop, Dispatch, Quit, Unregister,
     Unregistered, WaitCtx, Close, PostQuit, Press
<1>2. CASE UNCHANGED <<presses, calls, reasons, once>>
  BY <1>1, <1>2 DEF Settings
<1>3. ASSUME NEW c \in Clients, NEW op \in Kinds, Call(c, op) PROVE Settings'
  <2>1. calls' = calls + 1 /\ calls < MaxCalls /\ UNCHANGED <<presses, reasons, once>>
    BY <1>3 DEF Call
  <2>. QED
    BY <1>1, <2>1 DEF Settings
<1>4. ASSUME NEW c \in Callers, Pause(c) \/ Resume(c) PROVE Settings'
  <2>1. UNCHANGED <<presses, calls, once>> /\ reasons' \subseteq reasons \cup {Reason(c)}
    BY <1>4 DEF Pause, Resume
  <2>. QED
    BY <1>1, <2>1, CallerAssumption DEF Settings, Reason, Reasons, Callers
<1>5. ASSUME NEW c \in Callers, StopEnter(c) \/ Cancel(c) PROVE Settings'
  <2>1. UNCHANGED <<presses, calls, reasons>> /\ once' \in {c, Over}
    BY <1>5 DEF StopEnter, Cancel
  <2>. QED
    BY <1>1, <2>1 DEF Settings
<1>6. ASSUME NEW l \in Listeners, Press(l) PROVE Settings'
  <2>1. presses' = presses + 1 /\ presses < MaxPresses /\ UNCHANGED <<calls, reasons, once>>
    BY <1>6 DEF Press
  <2>. QED
    BY <1>1, <2>1 DEF Settings
<1>7. ASSUME NEW c \in Clients, Start(c) \/ Await(c) \/ Join(c) PROVE Settings'
  BY <1>2, <1>7 DEF Start, Await, Join
<1>8. ASSUME NEW c \in Callers, Notify(c) \/ StopSkip(c) \/ Abort(c) PROVE Settings'
  BY <1>2, <1>8 DEF Notify, StopSkip, Abort
<1>9. ASSUME NEW l \in Listeners, Listen(l) \/ PostQuit(l) PROVE Settings'
  BY <1>2, <1>9 DEF Listen, Begin, Register, RegisterFails, StartLoop, Dispatch, Quit, Unregister,
     Unregistered, WaitCtx, Close, PostQuit
<1>10. CASE UNCHANGED vars
  BY <1>2, <1>10 DEF vars
<1>. QED
  BY <1>3, <1>4, <1>5, <1>6, <1>7, <1>8, <1>9, <1>10 DEF Next, Routine

(* Start makes the next channel; hotkeyDone and a Stop name one made.      *)
LEMMA ChannelsStep == Shape /\ Channels /\ [Next]_vars => Channels'
<1> SUFFICES ASSUME Shape, Channels, [Next]_vars PROVE Channels'
  OBVIOUS
<1> USE BoundAssumption DEF Channels
<1>0. starts \in Nat /\ lpc \in [Listeners -> ListenerPcs]
  BY DEF Shape
<1>1. ASSUME NEW c \in Clients, Start(c) PROVE Channels'
  <2>1. starts' = starts + 1 /\ 0..starts \subseteq 0..starts' /\ 1..starts \subseteq 1..starts'
    BY <1>0, <1>1 DEF Start
  <2>2. UNCHANGED <<closed, mine, atStop, joining>>
    BY <1>1 DEF Start
  <2>3. CASE UNCHANGED <<hotkeyDone, lpc>>
    BY <2>1, <2>2, <2>3
  <2>4. CASE hotkeyDone' = starts' /\ lpc' = [lpc EXCEPT ![starts'] = "spawned"]
    <3>1. hotkeyDone' \in 0..starts' /\ hotkeyDone' # 0
      BY <1>0, <2>1, <2>4
    <3>2. \A l \in Listeners : lpc'[l] = lpc[l] \/ lpc'[l] = "spawned"
      BY <1>0, <2>4
    <3>. QED
      BY <2>1, <2>2, <3>1, <3>2
  <2>. QED
    BY <1>1, <2>3, <2>4 DEF Start
<1>2. ASSUME NEW c \in Clients, NEW op \in Kinds, Call(c, op) PROVE Channels'
  BY <1>0, <1>2 DEF Call
<1>3. ASSUME NEW c \in Clients, Await(c) \/ Join(c) PROVE Channels'
  BY <1>0, <1>3 DEF Await, Join
<1>4. ASSUME NEW c \in Callers, Routine(c) PROVE Channels'
  BY <1>4 DEF Routine, Pause, Resume, Notify, StopEnter, StopSkip, Abort, Cancel
<1>5. ASSUME NEW l \in Listeners, Begin(l) PROVE Channels'
  BY <1>0, <1>5 DEF Begin
<1>6. ASSUME NEW l \in Listeners,
             \/ RegisterFails(l) \/ StartLoop(l) \/ Quit(l) \/ Unregistered(l) \/ WaitCtx(l)
      PROVE  Channels'
  <2>1. /\ lpc[l] \notin {"off", "spawned"} /\ \E p : lpc' = [lpc EXCEPT ![l] = p]
        /\ UNCHANGED <<starts, hotkeyDone, closed, mine, atStop, joining>>
    BY <1>6 DEF RegisterFails, StartLoop, Quit, Unregistered, WaitCtx
  <2>. QED
    BY <1>0, <2>1
<1>7. ASSUME NEW l \in Listeners, Close(l) PROVE Channels'
  <2>1. mine[l] \in 1..starts
    BY <1>0, <1>7 DEF Close
  <2>. QED
    BY <1>0, <1>7, <2>1 DEF Close
<1>8. ASSUME NEW l \in Listeners, Register(l) \/ Dispatch(l) \/ Unregister(l) \/ PostQuit(l) \/ Press(l)
      PROVE  Channels'
  BY <1>8 DEF Register, Dispatch, Unregister, PostQuit, Press
<1>9. CASE UNCHANGED vars
  BY <1>9 DEF vars
<1>. QED
  BY <1>1, <1>2, <1>3, <1>4, <1>5, <1>6, <1>7, <1>8, <1>9 DEF Next, Listen

(* What a listener holds and who is in stopOnce keep their types.          *)
LEMMA RunningStep == Shape /\ Running /\ [Next]_vars => Running'
<1> SUFFICES ASSUME Shape, Running, [Next]_vars PROVE Running'
  OBVIOUS
<1> USE CallerAssumption
<1>0. /\ lpc \in [Listeners -> ListenerPcs] /\ pc \in [Callers -> CallerPcs]
      /\ watcher \in [Listeners -> {"off", "select", "ended"}]
      /\ Listeners \subseteq Callers /\ Clients \subseteq Callers
  BY DEF Shape, Callers
<1>1. ASSUME NEW c \in Callers, NEW p, pc' = [pc EXCEPT ![c] = p], p # "onResume" \/ reasons' = {},
             c \in Listeners => p = "idle" \/ lpc[c] = "loop", UNCHANGED <<lpc, watcher>>
      PROVE  Running'
  BY <1>0, <1>1 DEF Running
<1>2. ASSUME NEW l \in Listeners, UNCHANGED <<pc, reasons>>, pc[l] = "idle" \/ lpc'[l] = "loop",
             \A m \in Listeners \ {l} : lpc'[m] = lpc[m] /\ watcher'[m] = watcher[m],
             lpc'[l] = "loop" => watcher'[l] # "off"
      PROVE  Running'
  BY <1>2 DEF Running
<1>3. ASSUME NEW c \in Clients, Start(c) PROVE Running'
  <2>1. UNCHANGED <<pc, reasons, watcher>> /\ starts' \in Listeners /\ lpc[starts'] = "off"
    BY <1>3, BoundAssumption DEF Start, Shape, Listeners
  <2>2. lpc' = lpc \/ lpc' = [lpc EXCEPT ![starts'] = "spawned"]
    BY <1>3 DEF Start
  <2>. QED
    BY <1>0, <2>1, <2>2 DEF Running
<1>4. ASSUME NEW c \in Clients, Await(c) \/ Join(c) \/ (\E op \in Kinds : Call(c, op)) PROVE Running'
  <2>1. c \in Callers /\ c \notin Listeners
    BY <1>0
  <2>2. PICK p : pc' = [pc EXCEPT ![c] = p] /\ p # "onResume" /\ UNCHANGED <<lpc, watcher>>
    BY <1>4 DEF Await, Join, Call, Kinds
  <2>. QED
    BY <1>1, <2>1, <2>2
<1>5. ASSUME NEW c \in Callers, Routine(c) PROVE Running'
  <2>1. pc[c] # "idle" /\ UNCHANGED <<lpc, watcher>>
    BY <1>5 DEF Routine, Pause, Resume, Notify, StopEnter, StopSkip, Abort, Cancel
  <2>2. PICK p : pc' = [pc EXCEPT ![c] = p] /\ (p # "onResume" \/ reasons' = {})
    BY <1>5 DEF Routine, Pause, Resume, Notify, StopEnter, StopSkip, Abort, Cancel, AfterStop
  <2>3. c \in Listeners => lpc[c] = "loop"
    BY <2>1 DEF Running
  <2>. QED
    BY <1>1, <2>1, <2>2, <2>3
<1>6. ASSUME NEW l \in Listeners,
             \/ Begin(l) \/ RegisterFails(l) \/ StartLoop(l) \/ Quit(l) \/ Unregistered(l)
             \/ WaitCtx(l) \/ Close(l)
      PROVE  Running'
  <2>1. UNCHANGED <<pc, reasons>> /\ (pc[l] = "idle" \/ lpc[l] # "loop")
    BY <1>6 DEF Begin, RegisterFails, StartLoop, Quit, Unregistered, WaitCtx, Close
  <2>2. pc[l] = "idle"
    BY <2>1 DEF Running
  <2>3. /\ \A m \in Listeners \ {l} : lpc'[m] = lpc[m] /\ watcher'[m] = watcher[m]
        /\ lpc'[l] = "loop" => watcher'[l] # "off"
    BY <1>0, <1>6 DEF Begin, RegisterFails, StartLoop, Quit, Unregistered, WaitCtx, Close
  <2>. QED
    BY <1>2, <2>1, <2>2, <2>3
<1>7. ASSUME NEW l \in Listeners, Dispatch(l) PROVE Running'
  <2>1. msgs[l] \in Seq(Kinds \cup {"quit"}) /\ msgs[l] # <<>>
    BY <1>7 DEF Dispatch, Shape
  <2>2. Head(msgs[l]) \in Kinds \cup {"quit"}
    BY <2>1, Taken
  <2>3. Head(msgs[l]) # "onResume" /\ lpc[l] = "loop" /\ UNCHANGED <<lpc, watcher>>
        /\ pc' = [pc EXCEPT ![l] = Head(msgs[l])]
    BY <1>7, <2>2 DEF Dispatch, Kinds
  <2>. QED
    BY <1>0, <1>1, <2>3
<1>8. ASSUME NEW l \in Listeners, Register(l) \/ Unregister(l) \/ Press(l) PROVE Running'
  BY <1>8 DEF Register, Unregister, Press, Running
<1>9. ASSUME NEW l \in Listeners, PostQuit(l) PROVE Running'
  BY <1>0, <1>9 DEF PostQuit, Running
<1>10. CASE UNCHANGED vars
  BY <1>10 DEF vars, Running
<1>. QED
  BY <1>3, <1>4, <1>5, <1>6, <1>7, <1>8, <1>9, <1>10 DEF Next, Listen

(* The callbacks of either kind that are owed are at most as many as the   *)
(* callers, which bounds how far their calls can be apart.                 *)
LEMMA BalanceBound ==
    Shape /\ Running /\ NotifiedExactly =>
        balance \in -Cardinality(Callers)..Cardinality(Callers)
<1> SUFFICES ASSUME Shape, Running, NotifiedExactly
             PROVE  balance \in -Cardinality(Callers)..Cardinality(Callers)
  OBVIOUS
<1>1. IsFiniteSet(Callers) /\ Cardinality(Callers) \in Nat
      /\ Count("onPause") \in Nat /\ Count("onResume") \in Nat /\ balance \in Int
  BY CallersFinite, FS_CardinalityType DEF Shape
<1>2. ASSUME NEW p PROVE Count(p) <= Cardinality(Callers)
  <2>1. {c \in Callers : pc[c] = p} \subseteq Callers
    OBVIOUS
  <2>. QED
    BY <1>1, <2>1, FS_Subset DEF Count
<1>3. ASSUME reasons # {} PROVE Count("onResume") <= Cardinality(Callers) - 1
  <2>1. PICK c \in Callers : pc[c] # "onResume"
    BY <1>3 DEF Running
  <2>2. {x \in Callers : pc[x] = "onResume"} \subseteq Callers \ {c}
    BY <2>1
  <2>3. IsFiniteSet(Callers \ {c}) /\ Cardinality(Callers \ {c}) = Cardinality(Callers) - 1
    BY <1>1, FS_RemoveElement
  <2>. QED
    BY <2>2, <2>3, FS_Subset DEF Count
<1>4. balance + Count("onPause") - Count("onResume") = IF reasons = {} THEN 0 ELSE 1
  BY DEF NotifiedExactly, Count
<1>5. Count("onPause") <= Cardinality(Callers) /\ Count("onResume") <= Cardinality(Callers)
  BY <1>2
<1>. QED
  BY <1>1, <1>3, <1>4, <1>5

(* Every variable has its type in every reachable state.                   *)
THEOREM HotkeysTypes == Spec => []TypeOK
<1>1. /\ Shape /\ Settings /\ [Next]_vars => Settings'
      /\ Shape /\ Channels /\ [Next]_vars => Channels'
      /\ Shape /\ Running /\ [Next]_vars => Running'
  BY SettingsStep, ChannelsStep, RunningStep
<1>2. Spec => [](Flags /\ Settings /\ Channels /\ Running)
  BY <1>1, InitTypes, FlagsStep, Invariance, PTL DEF Spec
<1>3. Shape /\ Flags /\ Settings /\ Channels /\ Running /\ NotifiedExactly => TypeOK
  <2> SUFFICES ASSUME Shape, Flags, Settings, Channels, Running, NotifiedExactly PROVE TypeOK
    OBVIOUS
  <2>1. balance \in -Cardinality(Callers)..Cardinality(Callers)
    BY BalanceBound
  <2>. QED
    BY <2>1, Zenon DEF Shape, Flags, Settings, Channels, Running, TypeOK, Config, ListenerPcs,
       CallerPcs
<1>. QED
  BY <1>2, <1>3, Invariance, NotifiedExactlyHolds, PTL

(* Every text a client may write a hotkey as means what it says.           *)
THEOREM TextMeaningHolds == Spec => []TextMeaning
<1>1. TextMeaning
  BY TextAssumption, EveryTextMeans, Zenon DEF TextMeaning
<1>. QED
  BY <1>1, PTL
=============================================================================
