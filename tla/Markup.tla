------------------------------ MODULE Markup ------------------------------
(***************************************************************************)
(* The template engine markup(template, output, environment) of            *)
(* src/src/tools/build.py (the Template builder calls it at line 883; a   *)
(* verbatim copy is in util.py).  It scans the template with a window and *)
(* a state: text outside "{{ }}" is written, "{{?code}}" writes the value  *)
(* of code, "{{code}}" executes it, "{{if code: body fi}}" renders body    *)
(* when code is true, "{{* body *}}" renders body once per item of         *)
(* environment['LOOP'], and "{{ABORT}}" makes markup return False.  A body *)
(* is rendered by a recursive call, modelled as a stack of frames.        *)
(*                                                                         *)
(* A template is a sequence of characters and str.find, slicing and the    *)
(* prefix tests are modelled with Python's semantics, including a find    *)
(* that returns -1 and a slice that ends at -1.  eval and exec are         *)
(* abstracted: code made only of letters is a name the environment        *)
(* defines, any other code raises.  Every condition evaluates to `cond`,   *)
(* every value is written as "V", and environment['LOOP'] has `items`     *)
(* entries; the environment is chosen in Init and fixed.                   *)
(***************************************************************************)
EXTENDS Integers, Sequences, SequencesExt

CONSTANTS
  Templates,   \* the templates rendered: sequences of lexeme names
  Lexeme,      \* Lexeme[l]: the characters of lexeme l
  Letters,     \* the characters a Python name is made of
  MaxItems,    \* the longest environment['LOOP']
  MaxOut       \* bound on the characters of output kept (a non-terminating
               \* scan may write forever)

VARIABLES
  tmpl,    \* the template passed by the builder, as lexemes
  cond,    \* what every {{if condition evaluates to in the environment
  items,   \* len(environment['LOOP'])
  stack,   \* the active calls of markup, innermost last
  out,     \* the characters written to output (at most MaxOut)
  result   \* "running", or what the outermost call did: "true", "false", "raise"

vars == <<tmpl, cond, items, stack, out, result>>

Chars(l) == FlattenSeq([i \in DOMAIN l |-> Lexeme[l[i]]])

(* The patterns markup looks for.                                          *)
OPEN == <<"{", "{">>
CLOSE == <<"}", "}">>
IFOPEN == <<"{", "{", "i", "f">>
IFCLOSE == <<"f", "i", "}", "}">>
EVALOPEN == <<"{", "{", "?">>
LOOPOPEN == <<"{", "{", "*">>
LOOPCLOSE == <<"*", "}", "}">>
COLON == <<":">>
ABORT == <<"{", "{", "A", "B", "O", "R", "T", "}", "}">>

(* Python's s[a:b] for a >= 0 and b >= -1.                                 *)
PySlice(s, a, b) ==
  LET hi == IF b < 0 THEN Len(s) + b ELSE IF b > Len(s) THEN Len(s) ELSE b
  IN  IF a >= hi THEN <<>> ELSE SubSeq(s, a + 1, hi)

(* Python's s.find(p, start): the least index >= start where p occurs, or -1. *)
Find(s, p, start) ==
  LET at == {i \in start..(Len(s) - Len(p)) : SubSeq(s, i + 1, i + Len(p)) = p}
  IN  IF at = {} THEN -1 ELSE CHOOSE i \in at : \A j \in at : i <= j

(* s[i:i+len(p)] == p                                                      *)
StartsAt(s, i, p) == PySlice(s, i, i + Len(p)) = p

(* eval/exec of code succeeds: code is a name the environment defines.     *)
Defined(code) == code # <<>> /\ \A i \in DOMAIN code : code[i] \in Letters

Frame(t) == [t |-> t, ws |-> 0, st |-> "NORMAL", we |-> 0, left |-> 0]

Write(s) == out' = IF Len(out \o s) > MaxOut THEN SubSeq(out \o s, 1, MaxOut)
                   ELSE out \o s

Top == stack[Len(stack)]
SetTop(f) == stack' = [stack EXCEPT ![Len(stack)] = f]

(* The body of the while loop runs in the innermost call.                  *)
Scanning == result = "running" /\ Top.ws < Len(Top.t)

(* An exception leaves every call of markup and the Template builder.      *)
Raise == result' = "raise" /\ stack' = <<>> /\ UNCHANGED out

Init ==
  /\ tmpl \in Templates
  /\ cond \in BOOLEAN
  /\ items \in 0..MaxItems
  /\ stack = <<Frame(Chars(tmpl))>>
  /\ out = <<>>
  /\ result = "running"

(* STATE_NORMAL: write the text up to the next "{{" (or the end), then     *)
(* return False on {{ABORT}}, or enter the state its opener names.        *)
Normal ==
  /\ Scanning /\ Top.st = "NORMAL"
  /\ LET t == Top.t
         f == Find(t, OPEN, Top.ws)
         we == IF f = -1 THEN Len(t) ELSE f
     IN  /\ Write(PySlice(t, Top.ws, we))
         /\ IF StartsAt(t, we, ABORT)
            THEN result' = "false" /\ stack' = <<>>
            ELSE /\ SetTop(CASE StartsAt(t, we, IFOPEN) -> [Top EXCEPT !.st = "IF", !.ws = we + 4]
                             [] StartsAt(t, we, EVALOPEN) -> [Top EXCEPT !.st = "EVAL", !.ws = we + 3]
                             [] StartsAt(t, we, LOOPOPEN) -> [Top EXCEPT !.st = "LOOP", !.ws = we + 3]
                             [] StartsAt(t, we, OPEN) -> [Top EXCEPT !.st = "EXEC", !.ws = we + 2]
                             [] OTHER -> [Top EXCEPT !.ws = we])
                 /\ UNCHANGED result
  /\ UNCHANGED <<tmpl, cond, items>>

(* STATE_EVALCODE and STATE_EXECCODE: run the code up to the next "}}" and *)
(* skip it; with no "}}" left, go back to NORMAL at the same position.     *)
Code ==
  /\ Scanning /\ Top.st \in {"EVAL", "EXEC"}
  /\ LET we == Find(Top.t, CLOSE, Top.ws)
         code == PySlice(Top.t, Top.ws, we)
     IN  \/ /\ we = -1
            /\ SetTop([Top EXCEPT !.st = "NORMAL"])
            /\ UNCHANGED <<out, result>>
         \/ /\ we # -1 /\ Defined(code)
            /\ SetTop([Top EXCEPT !.st = "NORMAL", !.ws = we + 2])
            /\ IF Top.st = "EVAL" THEN Write(<<"V">>) ELSE UNCHANGED out
            /\ UNCHANGED result
         \/ /\ we # -1 /\ ~Defined(code)
            /\ Raise
  /\ UNCHANGED <<tmpl, cond, items>>

(* Mutant: a false condition resumes one character early, inside "fi}}". *)
IfSkipShort ==
  /\ Scanning /\ Top.st = "IF"
  /\ LET we == Find(Top.t, IFCLOSE, Top.ws)
         ice == Find(Top.t, COLON, Top.ws)
         code == PySlice(Top.t, Top.ws, ice)
     IN  \/ /\ ~Defined(code)
            /\ Raise
         \/ /\ Defined(code) /\ ~cond
            /\ SetTop([Top EXCEPT !.st = "NORMAL", !.ws = we + 3])
            /\ UNCHANGED <<out, result>>
         \/ /\ Defined(code) /\ cond
            /\ stack' = Append([stack EXCEPT ![Len(stack)].we = we],
                               Frame(PySlice(Top.t, ice + 1, we)))
            /\ UNCHANGED <<out, result>>
  /\ UNCHANGED <<tmpl, cond, items>>

(* STATE_IF: the condition runs up to the first ':', the body from there   *)
(* to the first "fi}}"; a true condition renders the body by a recursive   *)
(* call, and the scan resumes 4 characters after that "fi}}".              *)
If ==
  /\ Scanning /\ Top.st = "IF"
  /\ LET we == Find(Top.t, IFCLOSE, Top.ws)
         ice == Find(Top.t, COLON, Top.ws)
         code == PySlice(Top.t, Top.ws, ice)
     IN  \/ /\ ~Defined(code)
            /\ Raise
         \/ /\ Defined(code) /\ ~cond
            /\ SetTop([Top EXCEPT !.st = "NORMAL", !.ws = we + 4])
            /\ UNCHANGED <<out, result>>
         \/ /\ Defined(code) /\ cond
            /\ stack' = Append([stack EXCEPT ![Len(stack)].we = we],
                               Frame(PySlice(Top.t, ice + 1, we)))
            /\ UNCHANGED <<out, result>>
  /\ UNCHANGED <<tmpl, cond, items>>

(* STATE_LOOP: the body runs up to the first "*}}" and is rendered once    *)
(* per item; then the scan resumes 3 characters after that "*}}".          *)
Loop ==
  /\ Scanning /\ Top.st = "LOOP"
  /\ LET we == Find(Top.t, LOOPCLOSE, Top.ws)
     IN  \/ /\ items = 0
            /\ SetTop([Top EXCEPT !.st = "NORMAL", !.ws = we + 3])
         \/ /\ items > 0
            /\ stack' = Append([stack EXCEPT ![Len(stack)].we = we,
                                             ![Len(stack)].left = items - 1],
                               Frame(PySlice(Top.t, Top.ws, we)))
  /\ UNCHANGED <<tmpl, cond, items, out, result>>

(* Mutant: the loop renders one item too many (left >= 0 for left > 0).  *)
ReturnExtraItem ==
  /\ result = "running" /\ Top.ws >= Len(Top.t)
  /\ LET n == Len(stack)
         p == stack[n - 1]
     IN  \/ n = 1 /\ result' = "true" /\ stack' = <<>>
         \/ n > 1 /\ p.st = "IF" /\ result' = result
            /\ stack' = Append(SubSeq(stack, 1, n - 2),
                               [p EXCEPT !.st = "NORMAL", !.ws = p.we + 4])
         \/ n > 1 /\ p.st = "LOOP" /\ p.left >= 0 /\ result' = result
            /\ stack' = [stack EXCEPT ![n - 1].left = p.left - 1,
                                      ![n] = Frame(PySlice(p.t, p.ws, p.we))]
         \/ n > 1 /\ p.st = "LOOP" /\ p.left < 0 /\ result' = result
            /\ stack' = Append(SubSeq(stack, 1, n - 2),
                               [p EXCEPT !.st = "NORMAL", !.ws = p.we + 3])
  /\ UNCHANGED <<tmpl, cond, items, out>>

(* Mutant: the loop does not count the items it has rendered.              *)
ReturnNoCount ==
  /\ result = "running" /\ Top.ws >= Len(Top.t)
  /\ LET n == Len(stack)
         p == stack[n - 1]
     IN  \/ n = 1 /\ result' = "true" /\ stack' = <<>>
         \/ n > 1 /\ p.st = "IF" /\ result' = result
            /\ stack' = Append(SubSeq(stack, 1, n - 2),
                               [p EXCEPT !.st = "NORMAL", !.ws = p.we + 4])
         \/ n > 1 /\ p.st = "LOOP" /\ p.left > 0 /\ result' = result
            /\ stack' = [stack EXCEPT ![n] = Frame(PySlice(p.t, p.ws, p.we))]
         \/ n > 1 /\ p.st = "LOOP" /\ p.left = 0 /\ result' = result
            /\ stack' = Append(SubSeq(stack, 1, n - 2),
                               [p EXCEPT !.st = "NORMAL", !.ws = p.we + 3])
  /\ UNCHANGED <<tmpl, cond, items, out>>

(* The while loop of a call ends (window_start >= eof) and it returns      *)
(* True.  The caller goes on: after the if body it resumes past "fi}}";    *)
(* in a loop it renders the body for the next item, or resumes past "*}}". *)
Return ==
  /\ result = "running" /\ Top.ws >= Len(Top.t)
  /\ LET n == Len(stack)
         p == stack[n - 1]
     IN  \/ n = 1 /\ result' = "true" /\ stack' = <<>>
         \/ n > 1 /\ p.st = "IF" /\ result' = result
            /\ stack' = Append(SubSeq(stack, 1, n - 2),
                               [p EXCEPT !.st = "NORMAL", !.ws = p.we + 4])
         \/ n > 1 /\ p.st = "LOOP" /\ p.left > 0 /\ result' = result
            /\ stack' = [stack EXCEPT ![n - 1].left = p.left - 1,
                                      ![n] = Frame(PySlice(p.t, p.ws, p.we))]
         \/ n > 1 /\ p.st = "LOOP" /\ p.left = 0 /\ result' = result
            /\ stack' = Append(SubSeq(stack, 1, n - 2),
                               [p EXCEPT !.st = "NORMAL", !.ws = p.we + 3])
  /\ UNCHANGED <<tmpl, cond, items, out>>

Next == Normal \/ Code \/ If \/ Loop \/ Return

(* markup runs inside one SCons action with nothing competing for it.      *)
Spec == Init /\ [][Next]_vars /\ WF_vars(Next)

-----------------------------------------------------------------------------
(* What the template format means, defined over lexemes independently of  *)
(* the scanner: text is copied, {{?c}} is the value of c, {{c}} writes     *)
(* nothing, an if body is rendered when the condition holds, a loop body   *)
(* once per item, and {{ABORT}} stops with False.  It is defined for the   *)
(* well-formed templates: every opener has its closer, code is a name,    *)
(* and bodies neither nest an if in an if nor a loop in a loop.            *)

TextLexemes == {"txt", ":", "}}", "fi}}", "*}}"}

RECURSIVE WellFormed(_)
WellFormed(l) ==
  \/ l = <<>>
  \/ Head(l) \in TextLexemes /\ WellFormed(Tail(l))
  \/ Head(l) = "{{ABORT}}"
  \/ /\ Head(l) \in {"{{?", "{{"} /\ Len(l) >= 3
     /\ l[2] = "txt" /\ l[3] = "}}" /\ WellFormed(SubSeq(l, 4, Len(l)))
  \/ /\ Head(l) = "{{if" /\ Len(l) >= 4 /\ l[2] = "txt" /\ l[3] = ":"
     /\ \E j \in 4..Len(l) :
          /\ l[j] = "fi}}" /\ \A k \in 4..j - 1 : l[k] # "fi}}"
          /\ WellFormed(SubSeq(l, 4, j - 1)) /\ WellFormed(SubSeq(l, j + 1, Len(l)))
  \/ /\ Head(l) = "{{*"
     /\ \E j \in 2..Len(l) :
          /\ l[j] = "*}}" /\ \A k \in 2..j - 1 : l[k] # "*}}"
          /\ WellFormed(SubSeq(l, 2, j - 1)) /\ WellFormed(SubSeq(l, j + 1, Len(l)))

(* The first position of lexeme x in l.                                    *)
FirstAt(l, x) == CHOOSE j \in DOMAIN l : l[j] = x /\ \A k \in 1..j - 1 : l[k] # x

Rendered(s, r) == [out |-> s \o r.out, ok |-> r.ok]
Then(a, b) == IF a.ok THEN Rendered(a.out, b) ELSE a

RECURSIVE Repeated(_, _)
Repeated(r, n) == IF n = 0 THEN Rendered(<<>>, [out |-> <<>>, ok |-> TRUE])
                  ELSE Then(r, Repeated(r, n - 1))

RECURSIVE Render(_)
Render(l) ==
  IF l = <<>> THEN [out |-> <<>>, ok |-> TRUE]
  ELSE CASE Head(l) \in TextLexemes -> Rendered(Lexeme[Head(l)], Render(Tail(l)))
         [] Head(l) = "{{ABORT}}" -> [out |-> <<>>, ok |-> FALSE]
         [] Head(l) = "{{?" -> Rendered(<<"V">>, Render(SubSeq(l, 4, Len(l))))
         [] Head(l) = "{{" -> Render(SubSeq(l, 4, Len(l)))
         [] Head(l) = "{{if" ->
              LET j == FirstAt(l, "fi}}")
              IN  Then(IF cond THEN Render(SubSeq(l, 4, j - 1))
                       ELSE [out |-> <<>>, ok |-> TRUE],
                       Render(SubSeq(l, j + 1, Len(l))))
         [] Head(l) = "{{*" ->
              LET j == FirstAt(l, "*}}")
              IN  Then(Repeated(Render(SubSeq(l, 2, j - 1)), items),
                       Render(SubSeq(l, j + 1, Len(l))))

-----------------------------------------------------------------------------
(* Properties                                                              *)

States == {"NORMAL", "EVAL", "EXEC", "IF", "LOOP"}

TypeOK ==
  /\ tmpl \in Seq(DOMAIN Lexeme) /\ cond \in BOOLEAN /\ items \in 0..MaxItems
  /\ result \in {"running", "true", "false", "raise"}
  /\ (result = "running") = (stack # <<>>)
  /\ \A i \in DOMAIN stack : /\ stack[i].st \in States /\ stack[i].ws >= 0
                             /\ stack[i].left \in 0..MaxItems
  /\ Len(out) <= MaxOut

(* markup renders a well-formed template as the format defines: when the  *)
(* outermost call returns, the output is the rendering, and the call      *)
(* returned True exactly when no {{ABORT}} was rendered (the builder       *)
(* asserts True at build.py 884).  Recursion, the resume offsets after    *)
(* "fi}}" and "*}}" and the loop count must all be right for this.        *)
RendersAsDocumented ==
  result # "running" /\ WellFormed(tmpl) =>
    /\ out = Render(tmpl).out
    /\ result = IF Render(tmpl).ok THEN "true" ELSE "false"

(* markup returns on every well-formed template.  A hang on one is a     *)
(* scan that does not move its window forward or a loop that does not    *)
(* count its items down.                                                  *)
WellFormedTerminates == WellFormed(tmpl) => <>(result # "running")

(* markup returns on every template of the run: a Template build either   *)
(* finishes or raises, and never hangs SCons.  Every scan must move its    *)
(* window forward, and every loop must count its items down.               *)
Terminates == <>(result # "running")

=============================================================================
