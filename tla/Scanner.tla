------------------------------ MODULE Scanner ------------------------------
(***************************************************************************)
(* The scanner of the compiler (scanner.c): characters from one ring       *)
(* buffer become tokens in another.  It may stop after any character and   *)
(* resumes where it was, so that the tokens must not depend on how the     *)
(* text was cut; after an error it rewinds to the next semicolon.          *)
(*                                                                         *)
(* A character stands for its kind.  "=" and "!" are the ones that may     *)
(* form a token of two; ";" ends a statement; any other that is no letter, *)
(* digit, quote, dot or space is not in the language.                      *)
(***************************************************************************)
EXTENDS SequencesExt, FiniteSetsExt, Integers

CONSTANTS Chars,      \* the characters of the input
          CharCap,    \* size of the ring of characters, 10 in compiler.c
          TokenCap,   \* size of the ring of tokens, 10 in compiler.c
          MaxStr,     \* size of scanner_state.str, 512
          QSpace,     \* size of statement.query_space, 2048
          MaxInt,     \* I32_MAX
          OpCodes,    \* op_codes: words that start a statement
          Magic,      \* magic_tokens: words with a token of their own
          FirstText,  \* texts the client may begin with
          MaxTyped    \* bound: characters of a behaviour

Letters  == Chars \cap {"i", "x"}
Digits   == Chars \cap {"1"}
AlphaNum == Letters \cup Digits
NoStmt   == -1
NoPrev   == "none"

ASSUME ScannerAssumption == /\ {CharCap, TokenCap, MaxStr, QSpace} \subseteq Nat \ {0}
                            /\ {MaxInt, MaxTyped} \subseteq Nat
                            /\ OpCodes \cap Magic = {}
                            /\ FirstText \subseteq Seq(Chars)

VARIABLES chars,     \* s->input, what is unread of it
          tokens,    \* s->output
          sc,        \* the scanner: state, str, prev (prev_token) and current,
                     \* the room left in the current statement
          stopped,   \* an assertion failed
          typed,     \* ghost: every character written so far
          scanned    \* ghost: every token written so far

scanVars == <<chars, tokens, sc, stopped, typed, scanned>>

Token(type)      == [type |-> type, str |-> << >>]
Text(type, word) == [type |-> type, str |-> word]

Drop(s, n) == SubSeq(s, n + 1, Len(s))
\* Length of the longest prefix of s with characters of S only.
Span(S, s) == Cardinality({n \in 1..Len(s) : \A k \in 1..n : s[k] \in S})

(***************************************************************************)
(* Results of one round: the scanner, the unread input and the tokens.     *)
(***************************************************************************)
Result(new, rest, out) == [sc |-> new, rest |-> rest, out |-> out, ok |-> TRUE]
Asserts                == [sc |-> sc, rest |-> chars, out |-> << >>, ok |-> FALSE]

\* scanner_process_token
Process(new, rest, t) == Result([new EXCEPT !.state = "start"], rest, <<t>>)
\* scanner_process_error
Bug_KeepsStatement(new, rest) == Result([new EXCEPT !.state = "err"], rest, <<Token("error")>>)
Fail(new, rest)       == Result([new EXCEPT !.state = "err", !.current = NoStmt], rest, <<Token("error")>>)

\* scanner_commit_string and process_string_or_ident
Commit(type, word, rest) ==
  IF sc.current = NoStmt THEN Fail([sc EXCEPT !.str = word], rest)
  ELSE IF word = << >> THEN Asserts
  ELSE IF sc.current <= Len(word) THEN Fail([sc EXCEPT !.str = word], rest)
  ELSE Process([sc EXCEPT !.current = @ - Len(word), !.str = << >>], rest, Text(type, word))

\* process_maybe_ident
Word(word, rest) ==
  IF word \in Magic THEN Process([sc EXCEPT !.str = << >>], rest, Text("magic", word))
  ELSE IF word \in OpCodes
  THEN Process([sc EXCEPT !.str = << >>, !.current = IF @ = NoStmt THEN QSpace ELSE @],
               rest, Text("opcode", word))
  ELSE Commit("ident", word, rest)

\* parse_i32_expect; the digits of the model are ones.
Value(word) == LET v[n \in 0..Len(word)] == IF n = 0 THEN 0 ELSE 10 * v[n - 1] + 1 IN v[Len(word)]

\* process_int
Integer(word, rest) == IF Value(word) > MaxInt THEN Fail([sc EXCEPT !.str = << >>], rest)
                   ELSE Process([sc EXCEPT !.str = << >>], rest, Text("integer", word))
\* process_dec; parse_f32_expect asserts that a digit follows the dot
Decimal(word, rest) == IF Last(word) = "." THEN Asserts
                   ELSE Process([sc EXCEPT !.str = << >>], rest, Text("float", word))

(***************************************************************************)
(* One round in each state.  Characters of S go from the text to the word  *)
(* until another one comes, which Done gets with the rest, or str is full, *)
(* or the text ends.                                                       *)
(***************************************************************************)
CopyRound(S, new, text, n, Done(_, _)) ==
  LET room == MaxStr - Len(new.str)
  IN  IF n > room THEN Fail([new EXCEPT !.str = @ \o SubSeq(text, 1, room)], Drop(text, room + 1))
      ELSE IF n = Len(text) THEN Result([new EXCEPT !.str = @ \o text], << >>, << >>)
      ELSE Done(new.str \o SubSeq(text, 1, n), Drop(text, n))

IdentRound   == CopyRound(AlphaNum, sc, chars, Span(AlphaNum, chars), Word)
StringRound  == LET Closed(word, rest) == Commit("string", word, Tail(rest))
                    inside == Chars \ {"quote"}
                IN  CopyRound(inside, sc, chars, Span(inside, chars), Closed)
DecimalRound == CopyRound(Digits, sc, chars, Span(Digits, chars), Decimal)

\* A dot makes the number a decimal, which is copied on in the same round.
Dotted(word, text) ==
  LET new == [sc EXCEPT !.state = "decimal", !.str = Append(word, ".")]
  IN  IF Len(word) = MaxStr THEN Fail([new EXCEPT !.str = word], text)
      ELSE CopyRound(Digits, new, text, Span(Digits, text), Decimal)
NumberRound ==
  LET Ended(word, rest) == IF rest[1] = "." THEN Dotted(word, Tail(rest)) ELSE Integer(word, rest)
  IN  CopyRound(Digits, sc, chars, Span(Digits, chars), Ended)

\* The loop of execute_at_most_one_token_err reads the character without taking
\* it: only a semicolon ends it.
ErrRound == IF chars[1] = ";" THEN Result([sc EXCEPT !.state = "start"], Tail(chars), << >>)
            ELSE Result(sc, chars, << >>)

\* The switch of execute_at_most_one_token_start, for a scanner without prev_token.
Begins(new, text) ==
  LET rest == Drop(text, Span({" "}, text))
      c    == rest[1]
      more == Tail(rest)
  IN CASE rest = << >>       -> Result(new, rest, << >>)
       [] c \in {"!", "="}   -> Result([new EXCEPT !.prev = c], more, << >>)
       [] c = ";"            -> Result([new EXCEPT !.current = NoStmt], more, <<Token(";")>>)
       [] c = "quote"        -> Result([new EXCEPT !.str = << >>, !.state = "string"], more, << >>)
       [] c \in Letters      -> Result([new EXCEPT !.str = <<c>>, !.state = "ident"], more, << >>)
       [] c \in Digits       -> Result([new EXCEPT !.str = <<c>>, !.state = "number"], more, << >>)
       [] OTHER              -> Fail(new, more)

\* A token of two characters, or the first alone, before the switch.
StartRound ==
  LET new == [sc EXCEPT !.prev = NoPrev]
      two == chars[1] = "="
  IN CASE sc.prev = NoPrev        -> Begins(new, chars)
       [] sc.prev # NoPrev /\ two -> Process(new, Tail(chars), Token(sc.prev \o "="))
       [] sc.prev = "=" /\ ~two   -> Fail(new, chars)
       [] sc.prev = "!" /\ ~two   -> LET r == Begins(new, chars)
                                     IN  [r EXCEPT !.out = <<Token("!")>> \o @]

(***************************************************************************)
(* scanner_execute: rounds while there is a character and room for a token.*)
(* A round may write two; the second is asserted to fit.                   *)
(***************************************************************************)
Runs == Len(tokens) < TokenCap /\ chars # << >> /\ ~stopped

Round(r) == IF r.ok /\ Len(tokens) + Len(r.out) <= TokenCap
            THEN /\ sc' = r.sc /\ chars' = r.rest
                 /\ tokens' = tokens \o r.out /\ scanned' = scanned \o r.out
                 /\ UNCHANGED <<stopped, typed>>
            ELSE stopped' = TRUE /\ UNCHANGED <<chars, tokens, sc, typed, scanned>>

ScanStart   == Runs /\ sc.state = "start"   /\ Round(StartRound)
ScanIdent   == Runs /\ sc.state = "ident"   /\ Round(IdentRound)
ScanString  == Runs /\ sc.state = "string"  /\ Round(StringRound)
ScanNumber  == Runs /\ sc.state = "number"  /\ Round(NumberRound)
ScanDecimal == Runs /\ sc.state = "decimal" /\ Round(DecimalRound)
ScanErr     == Runs /\ sc.state = "err"     /\ Round(ErrRound)

Scan == ScanStart \/ ScanIdent \/ ScanString \/ ScanNumber \/ ScanDecimal \/ ScanErr

(***************************************************************************)
(* The thread of the scanner: between two calls of scanner_execute it      *)
(* writes characters, or the parser takes the tokens.                      *)
(***************************************************************************)
Feed(c) == /\ ~Runs /\ ~stopped
           /\ Len(chars) < CharCap /\ Len(typed) < MaxTyped
           /\ chars' = Append(chars, c) /\ typed' = Append(typed, c)
           /\ UNCHANGED <<tokens, sc, stopped, scanned>>

Take == /\ ~Runs /\ ~stopped /\ tokens # << >>
        /\ tokens' = Tail(tokens)
        /\ UNCHANGED <<chars, sc, stopped, typed, scanned>>

ScannerInit == /\ typed \in FirstText /\ chars = typed
               /\ tokens = << >> /\ scanned = << >> /\ stopped = FALSE
               /\ sc = [state |-> "start", str |-> << >>, prev |-> NoPrev, current |-> NoStmt]
ScannerNext == Scan \/ Take \/ \E c \in Chars : Feed(c)
ScannerSpec == ScannerInit /\ [][ScannerNext]_scanVars /\ WF_scanVars(Scan)

(***************************************************************************)
(* The tokens of a whole text, by maximal munch.  Of a text with an error  *)
(* in it the scanner skips what is left up to the next semicolon.          *)
(***************************************************************************)
IsWord(l)   == l # << >> /\ l[1] \in Letters /\ \A k \in 1..Len(l) : l[k] \in AlphaNum
IsInt(l)    == l # << >> /\ \A k \in 1..Len(l) : l[k] \in Digits
IsFloat(l)  == \E k \in 2..Len(l) - 1 : l[k] = "." /\ IsInt(SubSeq(l, 1, k - 1)) /\ IsInt(Drop(l, k))
IsString(l) == /\ Len(l) >= 2 /\ l[1] = "quote" /\ l[Len(l)] = "quote"
               /\ \A k \in 2..Len(l) - 1 : l[k] # "quote"
IsLexeme(l) == \/ IsWord(l) \/ IsInt(l) \/ IsFloat(l) \/ IsString(l)
               \/ l \in {<<"!">>, <<"!", "=">>, <<"=", "=">>, <<";">>}

\* Length of the longest lexeme a text begins with, 0 if it begins with none.
Munch(text)   == Max({0} \cup {n \in 1..Len(text) : IsLexeme(SubSeq(text, 1, n))})
\* Characters a text has of a word, number or string before its end is seen.
Inside(text)  == IF text[1] = "quote" THEN Span(Chars \ {"quote"}, Tail(text))
                 ELSE IF text[1] \in AlphaNum THEN Munch(text) ELSE 0

RECURSIVE TokensOf(_, _), AfterError(_)
\* The tokens of a text in a statement with so much room left.
TokensOf(text, room) ==
  IF text = << >> THEN << >>
  ELSE IF text[1] = " " THEN TokensOf(Tail(text), room)
  ELSE LET n    == Munch(text)
           l    == SubSeq(text, 1, n)
           more == Drop(text, n)
           body == IF IsString(l) THEN SubSeq(l, 2, n - 1) ELSE l
           read == MaxStr + IF text[1] = "quote" THEN 2 ELSE 1
       IN IF Inside(text) > MaxStr            THEN AfterError(Drop(text, read))
          ELSE IF n = 0                       THEN AfterError(Tail(text))
          ELSE IF IsInt(l) /\ Value(l) > MaxInt THEN AfterError(more)
          ELSE IF IsInt(l)                    THEN <<Text("integer", l)>> \o TokensOf(more, room)
          ELSE IF IsFloat(l)                  THEN <<Text("float", l)>> \o TokensOf(more, room)
          ELSE IF l \in Magic                 THEN <<Text("magic", l)>> \o TokensOf(more, room)
          ELSE IF l \in OpCodes
          THEN <<Text("opcode", l)>> \o TokensOf(more, IF room = NoStmt THEN QSpace ELSE room)
          ELSE IF l = <<";">>                 THEN <<Token(";")>> \o TokensOf(more, NoStmt)
          ELSE IF l[1] \in {"!", "="}
          THEN <<Token(IF n = 1 THEN "!" ELSE l[1] \o "=")>> \o TokensOf(more, room)
          ELSE IF Len(body) >= room           THEN AfterError(more)
          ELSE <<Text(IF IsString(l) THEN "string" ELSE "ident", body)>> \o TokensOf(more, room - Len(body))
AfterError(text) ==
  LET semis == {k \in 1..Len(text) : text[k] = ";"}
  IN  <<Token("error")>> \o (IF semis = {} THEN << >> ELSE TokensOf(Drop(text, Min(semis)), NoStmt))

\* The variables have their types; str never holds more than its array.
ScannerTypeOK == /\ chars \in Seq(Chars) /\ Len(chars) <= CharCap
                 /\ Len(tokens) <= TokenCap
                 /\ sc.state \in {"start", "ident", "string", "number", "decimal", "err"}
                 /\ sc.str \in Seq(Chars) /\ Len(sc.str) <= MaxStr
                 /\ sc.prev \in {NoPrev, "!", "="} /\ sc.current \in {NoStmt} \cup 1..QSpace
                 /\ stopped \in BOOLEAN

\* The tokens written are the first of the text's, however the text was cut and
\* whenever the parser made room, and all of them once everything is read
\* (scanner_execute, scanner.c:954-978).
TokensAreScan == LET all == TokensOf(typed, NoStmt)
                 IN  /\ IsPrefix(scanned, all)
                     /\ chars = << >> /\ sc.state = "start" /\ sc.prev = NoPrev => scanned = all

\* A round's second token has room (the assertion of cbuffer_write_expect,
\* cbuffer.h:144, in scanner_process_token, scanner.c:149).
SecondTokenFits == ~stopped

\* scanner_execute returns: in SS_ERR it gets to the next semicolon (scanner.h:39).
ScannerReturns == []<>(~Runs)
=============================================================================
