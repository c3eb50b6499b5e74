----------------------------- MODULE MCSqlInput -----------------------------
(* TLC instance of SqlInput: which keys matter after a buffer depends on    *)
(* how it begins, and so does the length up to which they are tried.        *)
EXTENDS SqlInput

UpTo(n, b, keys) == IF Len(b) < n THEN keys ELSE {}

SqlKeys(b) ==
  CASE b[1] = "$"        -> UpTo(8, b, {"$", "a", "7", ";"})
    [] b[1] = "/"        -> UpTo(8, b, {"/", "*", ";", "'"})
    [] b[1] \in Quotes   -> UpTo(6, b, Quotes \union {";", "-", "nl"})
    [] b[1] = "exit"     -> UpTo(3, b, {";", " ", "nl"})
    [] OTHER             -> UpTo(5, b, Quotes \union {"-", "/", "*", "$", "a", ";", "nl"})

CommandKeys(b) ==
  CASE b[1] = "\\save"   -> UpTo(9, b, IF Len(b) = 1 THEN {" ", "nl"} ELSE {" ", "\"", "a", "7"})
    [] b[1] = "\\export" -> UpTo(8, b, IF Len(b) = 1 THEN {" "} ELSE {" ", "'", "7", "~", "a"})
    [] b[1] = "\\run"    -> UpTo(7, b, Quotes \union {" ", "a"})
    [] OTHER             -> UpTo(3, b, {" ", "a", ";"})

MCKeys(m, b) ==
  IF m = "editor" THEN UpTo(3, b, {"a", ";", "nl"})
  ELSE IF b = <<>> THEN Symbols
  ELSE IF b[1] = " " THEN UpTo(2, b, Symbols)
  ELSE IF b[1] \in Slashed THEN CommandKeys(b) ELSE SqlKeys(b)
=============================================================================
