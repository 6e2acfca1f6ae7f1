----------------------------- MODULE MC_Markup -----------------------------
(* Markup instantiated for TLC: every template of up to MC_Lexemes lexemes *)
(* over the lexemes below, loops of up to two items.                       *)
EXTENDS Markup

MC_Lexeme ==
  [l \in {"txt", ":", "{{", "{{?", "{{if", "{{*", "}}", "fi}}", "*}}", "{{ABORT}}"} |->
     CASE l = "txt" -> <<"t", "x", "t">>
       [] l = ":" -> <<":">>
       [] l = "{{" -> <<"{", "{">>
       [] l = "{{?" -> <<"{", "{", "?">>
       [] l = "{{if" -> <<"{", "{", "i", "f">>
       [] l = "{{*" -> <<"{", "{", "*">>
       [] l = "}}" -> <<"}", "}">>
       [] l = "fi}}" -> <<"f", "i", "}", "}">>
       [] l = "*}}" -> <<"*", "}", "}">>
       [] l = "{{ABORT}}" -> <<"{", "{", "A", "B", "O", "R", "T", "}", "}">>]

MC_Letters == {"t", "x", "i", "f", "A", "B", "O", "R", "T"}

(* Every template of up to three lexemes, well-formed or not.               *)
MC_Templates == BoundedSeq(DOMAIN MC_Lexeme, 3)

(* Well-formed templates built from the grammar, up to n lexemes: text    *)
(* "txt" and a stray "fi}}", {{ABORT}}, {{?txt}}, {{txt}}, if blocks and   *)
(* loop blocks whose bodies are again such templates.                       *)
RECURSIVE MC_WFUpTo(_), MC_Units(_)
(* The units of exactly k lexemes.                                         *)
MC_Units(k) ==
  (IF k = 1 THEN {<<"txt">>, <<"fi}}">>, <<"{{ABORT}}">>} ELSE {})
  \cup (IF k = 3 THEN {<<"{{?", "txt", "}}">>, <<"{{", "txt", "}}">>} ELSE {})
  \cup (IF k >= 4
        THEN {<<"{{if", "txt", ":">> \o b \o <<"fi}}">> :
                b \in {c \in MC_WFUpTo(k - 4) : Len(c) = k - 4 /\ ~Contains(c, "fi}}")}}
        ELSE {})
  \cup (IF k >= 2
        THEN {<<"{{*">> \o b \o <<"*}}">> :
                b \in {c \in MC_WFUpTo(k - 2) : Len(c) = k - 2 /\ ~Contains(c, "*}}")}}
        ELSE {})
MC_WFUpTo(n) ==
  {<<>>} \cup UNION {{u \o r : u \in MC_Units(k), r \in MC_WFUpTo(n - k)} : k \in 1..n}

(* All well-formed templates of up to five lexemes, and those of six that *)
(* put an if block and a loop block together (one inside the other or    *)
(* side by side).                                                         *)
MC_WellFormed ==
  MC_WFUpTo(5) \cup {l \in MC_WFUpTo(6) : Contains(l, "{{*") /\ Contains(l, "{{if")}

MC_Rendered == MC_Templates \cup MC_WellFormed
=============================================================================
