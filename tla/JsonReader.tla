------------------------------ MODULE JsonReader ------------------------------
(***************************************************************************)
(* JSONReader of src/src/chromium/json/json_reader.cc.  The calls of        *)
(* BuildValue() that have not returned are a stack of containers; a step    *)
(* looks at one token.  The text is written while the reader gets to it, so *)
(* the runs go through every text up to MaxText lexemes.                    *)
(***************************************************************************)
EXTENDS JsonText

CONSTANTS StackLimit, \* kStackLimit
          MaxText     \* bound on the lexemes of a text

ASSUME JsonAssumption == StackLimit \in Nat \ {0} /\ MaxText \in Nat

\* "/*" is a block comment that does not end, "NUL" a zero byte in the text.
Lexemes == Brackets \union ScalarLexemes
           \union {",", ":", "1e999", "\\q", "other", " ", "/*", "NUL"}

VARIABLES
    text, over,   \* the lexemes written, and is that all?
    allow,        \* allow_trailing_comma_
    json_pos,     \* json_pos_: lexemes behind it
    calls,        \* BuildValue() calls inside their loop, outermost first
    stack_depth,  \* stack_depth_
    reading,      \* what the reader looks for, or how it ended
    error,        \* error_code_
    value         \* what the last BuildValue() returned

textVars == <<text, over, allow>>
jsonVars == <<textVars, json_pos, calls, stack_depth, reading, error, value>>

JsonInit ==
    /\ text = <<>> /\ over = FALSE /\ allow \in BOOLEAN
    /\ json_pos = 0 /\ calls = <<>> /\ stack_depth = 0
    /\ reading = "value" /\ error = "none" /\ value = Meaningless

Ended == {"done", "failed", "thrown"}

Write ==
    /\ reading \notin Ended /\ json_pos = Len(text) /\ ~over
    /\ \/ over' = TRUE /\ UNCHANGED text
       \/ Len(text) < MaxText /\ (\E l \in Lexemes : text' = Append(text, l)) /\ UNCHANGED over
    /\ UNCHANGED <<allow, json_pos, calls, stack_depth, reading, error, value>>

----------------------------------------------------------------------------
(* Tokens.                                                                  *)

Readable == json_pos < Len(text) \/ over
Lexeme == IF json_pos = Len(text) THEN "NUL" ELSE text[json_pos + 1]

\* A comment without an end takes the rest of the text with it.
EatWhitespaceAndComments ==
    /\ reading \notin Ended /\ json_pos < Len(text) /\ Lexeme \in {" ", "/*"}
    /\ json_pos' = json_pos + 1
    /\ over' = (over \/ Lexeme = "/*")
    /\ UNCHANGED <<text, allow, calls, stack_depth, reading, error, value>>

\* ParseToken(): a lexeme, END_OF_INPUT or INVALID_TOKEN.
Token ==
    IF Lexeme = "NUL" THEN "end"
    ELSE IF Lexeme \in {"\\q", "other"} THEN "invalid" ELSE Lexeme
HasToken == reading \notin Ended /\ Readable /\ (json_pos < Len(text) => Lexeme \notin {" ", "/*"})

\* ParseStringToken() sets an error of its own.
TokenError == IF Lexeme = "\\q" THEN "invalid escape" ELSE error

\* DecodeString() and DecodeNumber() of a token.  DecodeString() has no case
\* for \u and returns NULL; std::stod() throws.
Decodes(token) == token \in ScalarLexemes \ {"\\u"}
Throws(token) == token = "1e999"

----------------------------------------------------------------------------
(* BuildValue().                                                            *)

Top == calls[Len(calls)]
SetTop(c) == [calls EXCEPT ![Len(calls)] = c]
CloserOf(c) == IF c.kind = "array" THEN "]" ELSE "}"
NodeOf(c) == IF c.kind = "array" THEN [list |-> c.items] ELSE [dict |-> c.items]

\* NULL is returned all the way up; without an error it is a syntax error.
Fail(code) ==
    /\ reading' = "failed"
    /\ error' = IF code = "none" THEN "syntax" ELSE code
    /\ value' = Meaningless
    /\ UNCHANGED <<textVars, json_pos, calls, stack_depth>>

\* The value is stored in the container of the caller.
Deliver(node, callers) ==
    LET c == Last(callers)
        items == IF c.kind = "array" THEN Append(c.items, node) ELSE (c.key :> node) @@ c.items
    IN  /\ value' = node
        /\ calls' = IF callers = <<>> THEN callers
                    ELSE [callers EXCEPT ![Len(callers)].items = items]
        /\ reading' = IF callers = <<>> THEN "end" ELSE "comma"

\* Fault: the depth is not counted back.
ReturnUncounted(node, callers, depth) == Deliver(node, callers) /\ stack_depth' = depth

Return(node, callers, depth) == Deliver(node, callers) /\ stack_depth' = depth - 1

TooDeep ==
    /\ HasToken /\ reading = "value" /\ stack_depth + 1 > StackLimit
    /\ Fail("too much nesting")

BadRoot ==
    /\ HasToken /\ reading = "value" /\ stack_depth < StackLimit
    /\ calls = <<>> /\ Token \notin {"[", "{"}
    /\ Fail("bad root")

BuildValue == HasToken /\ reading = "value" /\ stack_depth < StackLimit
              /\ (calls = <<>> => Token \in {"[", "{"})

BuildScalar ==
    /\ BuildValue /\ Decodes(Token)
    /\ json_pos' = json_pos + 1
    /\ Return([scalar |-> Token], calls, stack_depth + 1)
    /\ UNCHANGED <<textVars, error>>

NoValue ==
    /\ BuildValue /\ Token \notin {"[", "{"} /\ ~Decodes(Token) /\ ~Throws(Token)
    /\ Fail(TokenError)

\* The exception leaves Read(); nothing catches it.
Throw ==
    /\ BuildValue /\ Throws(Token)
    /\ reading' = "thrown"
    /\ UNCHANGED <<textVars, json_pos, calls, stack_depth, error, value>>

OpenContainer ==
    /\ BuildValue /\ Token \in {"[", "{"}
    /\ json_pos' = json_pos + 1
    /\ stack_depth' = stack_depth + 1
    /\ calls' = Append(calls, [kind |-> IF Token = "[" THEN "array" ELSE "object",
                               items |-> <<>>, key |-> "none"])
    /\ reading' = "first"
    /\ UNCHANGED <<textVars, error, value>>

\* The loop ends at the closing bracket, after a comma only if that is allowed.
CloseContainer ==
    /\ HasToken /\ reading \in {"first", "next", "comma"} /\ Token = CloserOf(Top)
    /\ \/ /\ reading # "next" \/ allow
          /\ json_pos' = json_pos + 1
          /\ Return(NodeOf(Top), Front(calls), stack_depth)
          /\ UNCHANGED <<textVars, error>>
       \/ reading = "next" /\ ~allow /\ Fail("trailing comma")

\* Another turn of the loop of an array.
Element ==
    /\ HasToken /\ reading \in {"first", "next"} /\ Top.kind = "array" /\ Token # "]"
    /\ reading' = "value"
    /\ error' = TokenError
    /\ UNCHANGED <<textVars, json_pos, calls, stack_depth, value>>

Separator ==
    /\ HasToken /\ reading = "comma" /\ Token # CloserOf(Top)
    /\ \/ /\ Token = ","
          /\ json_pos' = json_pos + 1
          /\ reading' = "next"
          /\ UNCHANGED <<textVars, calls, stack_depth, error, value>>
       \/ Token # "," /\ Fail(TokenError)

\* The key of a pair; whatever is not a string is "unquoted".
Key ==
    /\ HasToken /\ reading \in {"first", "next"} /\ Top.kind = "object" /\ Token # "}"
    /\ \/ Token \notin Strings /\ Fail("unquoted key")
       \/ Token \in Strings /\ ~Decodes(Token) /\ Fail(TokenError)
       \/ /\ Token \in Strings /\ Decodes(Token)
          /\ json_pos' = json_pos + 1
          /\ calls' = SetTop([Top EXCEPT !.key = Token])
          /\ reading' = "colon"
          /\ UNCHANGED <<textVars, stack_depth, error, value>>

Colon ==
    /\ HasToken /\ reading = "colon"
    /\ \/ /\ Token = ":"
          /\ json_pos' = json_pos + 1
          /\ reading' = "value"
          /\ UNCHANGED <<textVars, calls, stack_depth, error, value>>
       \/ Token # ":" /\ Fail(TokenError)

\* JsonToValue(), after the root: nothing may follow.
EndOfInput ==
    /\ HasToken /\ reading = "end"
    /\ \/ /\ Token = "end"
          /\ reading' = "done"
          /\ UNCHANGED <<textVars, json_pos, calls, stack_depth, error, value>>
       \/ Token # "end" /\ Fail("unexpected data after root")

JsonNext ==
    \/ Write \/ EatWhitespaceAndComments
    \/ TooDeep \/ BadRoot \/ BuildScalar \/ NoValue \/ Throw \/ OpenContainer
    \/ CloseContainer \/ Element \/ Separator \/ Key \/ Colon \/ EndOfInput
JsonSpec == JsonInit /\ [][JsonNext]_jsonVars

----------------------------------------------------------------------------

\* The first n lexemes, without what the reader skips.
Body(n) == SelectSeq(SubSeq(text, 1, n), LAMBDA l : l \notin {" ", "/*", "NUL"})

\* The text up to the token the reader is at, and that token.
SeenText == Body(IF json_pos < Len(text) THEN json_pos + 1 ELSE json_pos)

\* The reader accepts a text only when it is a document, with the meaning it
\* has, and gives up only where no continuation could make it one (or where it
\* is nested beyond the limit, or at a string with a \u escape, which is the
\* subject of StringsAreRead), with the error that says so.  At every moment
\* stack_depth_ counts the containers open, whatever was opened, closed and
\* emptied before: the limit holds for nesting and is not used up by length.
ReadsDocuments ==
    LET before == Body(json_pos)
        undecoded == Token = "\\u" /\ error = "syntax"
    IN  /\ reading \notin Ended => stack_depth = OpenAfter(before, Len(before)) /\ stack_depth <= StackLimit
        /\ reading = "done" => IsDocument(before, allow) /\ value = Meaning(before, allow)
        /\ reading = "failed" =>
             IF error = "too much nesting" THEN OpenAfter(before, Len(before)) = StackLimit
             ELSE IF Token = "end" THEN ~IsDocument(SeenText, allow)
             ELSE undecoded \/ ~Promising(SeenText, allow)
        /\ error = "trailing comma" => Promising(SeenText, TRUE) /\ ~allow
        /\ error = "unexpected data after root" => IsDocument(before, allow)
        /\ reading = "thrown" => Promising(Append(before, "1"), allow)

\* "Convert the substring into a value string.  This should always succeed
\* (otherwise ParseStringToken would have failed)." (json_reader.hh:188): what
\* the tokenizer takes for a string is refused only where no string could be.
\* It does not hold: after "[" or "{", a string with a \u escape is.
StringsAreRead ==
    reading = "failed" /\ error # "too much nesting" /\ Token \in Strings
        => ~Promising(SeenText, allow)

\* "Try and convert the substring that token holds into an int or a double.  If
\* we can (ie., no overflow), return the value, else return NULL"
\* (json_reader.hh:179): Read() returns.
ReadReturns == reading # "thrown"
=============================================================================
