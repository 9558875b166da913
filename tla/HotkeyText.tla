----------------------------- MODULE HotkeyText -----------------------------
(***************************************************************************)
(* Hotkeys and their text form (hotkey.go).  A text is the sequence of its *)
(* "+"-separated tokens, each of them what ParseHotkey makes of it: a      *)
(* modifier in any of its spellings, a key, or an unknown or empty word.   *)
(***************************************************************************)
EXTENDS Integers, Sequences, SequencesExt

CONSTANTS
    Keys,       \* the keys a text can name: A to Z and F1 to F12
    NoKey,      \* the zero Key
    RawKey,     \* a virtual-key code without a name
    Junk        \* a token that is no modifier and no key

ASSUME KeyAssumption == {NoKey, RawKey} \cap Keys = {} /\ {"S", "F10", "F11"} \subseteq Keys

Modifiers == {"Ctrl", "Alt", "Shift", "Win"}

ASSUME TokenAssumption == Keys \cap Modifiers = {} /\ Junk \notin Keys \cup Modifiers

Tokens == Modifiers \cup Keys \cup {Junk}
Hotkeys == [mods : SUBSET Modifiers, key : Keys \cup {NoKey, RawKey}]

(* One token: an unknown one ends the loop, a later key replaces an        *)
(* earlier one.  The result so far is returned also beside an error.       *)
Token(r, tok) ==
    IF r.err THEN r
    ELSE IF tok \in Modifiers THEN [r EXCEPT !.hotkey.mods = @ \cup {tok}]
    ELSE IF tok \in Keys THEN [r EXCEPT !.hotkey.key = tok]
    ELSE [r EXCEPT !.err = TRUE]

Blank == [hotkey |-> [mods |-> {}, key |-> NoKey], err |-> FALSE]

ParseHotkey(text) ==
    LET r == FoldLeft(Token, Blank, text)
    IN  [r EXCEPT !.err = @ \/ r.hotkey.key = NoKey \/ r.hotkey.mods = {}]

(* String: the modifiers in a fixed order, then the key.                   *)
Part(h, m) == IF m \in h.mods THEN <<m>> ELSE <<>>
Name(key) == IF key \in Keys THEN key ELSE Junk
RenderShort(h) == Part(h, "Ctrl") \o Part(h, "Alt") \o Part(h, "Shift") \o <<Name(h.key)>>
Render(h) ==
    Part(h, "Ctrl") \o Part(h, "Alt") \o Part(h, "Shift") \o Part(h, "Win") \o <<Name(h.key)>>

(* What a text means, stated without the loop: it is refused if a token is *)
(* unknown, or a key or a modifier is missing; else it stands for all its  *)
(* modifiers and its last key, and its rendering, which the log shows and  *)
(* a client may keep, parses to the same hotkey.                           *)
MeansItsText(text) ==
    LET p == ParseHotkey(text)
        keysAt == {i \in DOMAIN text : text[i] \in Keys}
        mods == ToSet(text) \cap Modifiers
    IN  /\ p.err <=> keysAt = {} \/ mods = {} \/ ~ ToSet(text) \subseteq Keys \cup Modifiers
        /\ ~p.err => /\ p.hotkey = [mods |-> mods, key |-> text[Max(keysAt)]]
                     /\ ParseHotkey(Render(p.hotkey)) = p

DefaultStopHotkey == [mods |-> {"Ctrl", "Alt", "Shift"}, key |-> "S"]
DefaultPauseHotkey == [mods |-> {"Ctrl"}, key |-> "F10"]
DefaultResumeHotkey == [mods |-> {"Ctrl"}, key |-> "F11"]
=============================================================================
