----------------------------- MODULE MCHotkeys -----------------------------
(* Instances of Hotkeys for TLC.                                           *)
EXTENDS Hotkeys

CONSTANTS
    c1, c2,
    MaxTokens       \* bound: the tokens of a text

(* One client has a reason of its own, the other that of the watchdog.     *)
MCReasonOf == [c \in Clients |-> IF c = c1 THEN "ui" ELSE "user-takeover"]

Parsed(text) == ParseHotkey(text).hotkey

(* Options as a client may give them: the defaults, with the stop hotkey,  *)
(* with the pause hotkey on the combination of resume, with the result of  *)
(* a text that was refused, and without a listener.                        *)
MCOptionLists ==
    {<<>>,
     <<With("stop", Parsed(<<"Shift", "S", "Alt", "Ctrl">>))>>,
     <<With("pause", DefaultResumeHotkey)>>,
     <<With("resume", Parsed(<<"Alt", "junk", "S">>)), With("stop", DefaultStopHotkey)>>,
     <<Disabled("pause"), Disabled("resume")>>}

(* Another program may hold the default resume hotkey.                     *)
MCTakenSets == {{}, {DefaultResumeHotkey}}

(* All texts of up to MaxTokens tokens.                                    *)
MCTexts == UNION {[1..n -> Tokens] : n \in 1..MaxTokens}
=============================================================================
