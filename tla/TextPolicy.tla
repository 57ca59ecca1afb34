---- MODULE TextPolicy ----
\* What may go into a launch's permanent metadata, and what is shown of metadata nobody checked.  Code:
\* lib/syncnet-core.js, section 10.  A text is a sequence of UTF-16 units, typed one at a time.
EXTENDS Integers, Sequences, SequencesExt

CONSTANTS Units,      \* the units that are typed
          Composed,   \* External: <<base, mark>> |-> the character NFC makes of them
          Limits,     \* bytes of a field (PAR_BYTE_LIMITS)
          Lengths,    \* maxLength of sanitizeForDisplay
          MaxTyped

VARIABLE text
Init == text = <<>>
Type(unit) == Len(text) < MaxTyped /\ text' = Append(text, unit)
Next == \E unit \in Units : Type(unit)
TextSpec == Init /\ [][Next]_text

LF == 10
CR == 13
SPACE == 32
ELLIPSIS == 8230
BIDI == {1564} \cup 8206..8207 \cup 8234..8238 \cup 8294..8297
INVISIBLE == {173, 847, 12644, 65279, 65440} \cup 4447..4448 \cup 6068..6069 \cup 6155..6159 \cup 8203..8205 \cup 8232..8233
             \cup 8288..8292 \cup 8298..8303 \cup 65024..65037 \cup 65529..65531
Tags(cp) == cp \in 119155..119162 \/ cp \in 917504..917631 \/ cp \in 917760..917999
control(cp, multiline) == (cp < 32 /\ ~(cp = LF /\ multiline)) \/ cp \in 127..159
\* unsafeReason: controls, direction changes, what is not seen, noncharacters and private use.
unsafe(cp, multiline) == \/ control(cp, multiline) \/ cp \in BIDI \cup INVISIBLE \/ Tags(cp)
                         \/ cp \in 64976..65007 \/ cp % 65536 >= 65534 \/ cp \in 57344..63743 \/ cp >= 983040
WHITE == {9, 10, 11, 12, 13, 32, 160, 5760, 8232, 8233, 8239, 8287, 12288, 65279} \cup 8192..8202

\* scanCodePoints: pairs of surrogates are one character, a surrogate alone is none.
High(unit) == unit \in 55296..56319
Low(unit) == unit \in 56320..57343
Point(cp, units) == [cp |-> cp, units |-> units, lone |-> cp \in 55296..57343]
scan(s) ==
  LET Step(points, unit) ==
        IF points # <<>> /\ Low(unit) /\ Last(points).lone /\ High(Last(points).cp)
        THEN Append(Front(points), Point((Last(points).cp - 55296) * 1024 + (unit - 56320) + 65536, Last(points).units \o <<unit>>))
        ELSE Append(points, Point(unit, <<unit>>))
  IN FoldLeft(Step, <<>>, s)
Flagged(point, multiline) == point.lone \/ unsafe(point.cp, multiline)
Joined(points) == FlattenSeq([i \in 1..Len(points) |-> points[i].units])
findUnsafeChars(s, multiline) == {i \in 1..Len(scan(s)) : Flagged(scan(s)[i], multiline)}
stripUnsafe(s, multiline) == Joined(SelectSeq(scan(s), LAMBDA point : ~Flagged(point, multiline)))
utf8Length(s) == FoldLeft(LAMBDA n, p : n + (IF p.cp < 128 THEN 1 ELSE IF p.cp < 2048 THEN 2 ELSE IF p.cp < 65536 THEN 3 ELSE 4), 0, scan(s))

\* External: String.prototype.normalize('NFC').
NFC(s) == FoldLeft(LAMBDA out, unit : IF out # <<>> /\ <<Last(out), unit>> \in DOMAIN Composed
                                      THEN Append(Front(out), Composed[<<Last(out), unit>>]) ELSE Append(out, unit), <<>>, s)
Mapped(s, from, to) == [i \in 1..Len(s) |-> IF s[i] \in from THEN to ELSE s[i]]
\* \r\n and \r become \n.
Lines(s) == FoldLeftDomain(LAMBDA out, i : IF s[i] = LF /\ i > 1 /\ s[i - 1] = CR THEN out
                                           ELSE Append(out, IF s[i] = CR THEN LF ELSE s[i]), <<>>, s)
TrimEnd(s) == LET kept == {i \in 1..Len(s) : s[i] \notin WHITE} IN IF kept = {} THEN <<>> ELSE SubSeq(s, 1, CHOOSE i \in kept : \A j \in kept : j <= i)
Trim(s) == Reverse(TrimEnd(Reverse(TrimEnd(s))))
Collapse(s) == FoldLeft(LAMBDA out, unit : IF unit \notin WHITE THEN Append(out, unit)
                                           ELSE IF out # <<>> /\ Last(out) = SPACE THEN out ELSE Append(out, SPACE), <<>>, s)
normalizeText(s, multiline) == LET trimmed == Trim(Lines(NFC(s))) IN IF multiline THEN trimmed ELSE Collapse(trimmed)

\* What goes on the chain, if it may.
validateMetadataField(s, multiline, required, limit) ==
  LET value == normalizeText(s, multiline)
  IN [value |-> value, ok |-> /\ ~(required /\ value = <<>>) /\ findUnsafeChars(value, multiline) = {} /\ utf8Length(value) <= limit]

\* At most maxLength characters, the ellipsis counted; a pair is not split.
Truncated(s, max) == LET points == scan(s)
                     IN IF Len(points) > max THEN TrimEnd(Joined(SubSeq(points, 1, max - 1))) \o <<ELLIPSIS>> ELSE s
\* Separators become spaces before what is unsafe is removed, so words stay apart.
sanitizeForDisplay(s, multiline, max) ==
  LET spaced == Mapped(Mapped(Lines(s), {9, 11, 12}, SPACE), {133, 8232, 8233}, IF multiline THEN LF ELSE SPACE)
      oneLine == IF multiline THEN spaced ELSE Mapped(spaced, {LF}, SPACE)
  IN Truncated(stripUnsafe(normalizeText(stripUnsafe(oneLine, multiline), multiline), multiline), max)

\* ------------------------------------------------------------------------------------------------ properties
\* syncnet-core.js "Safe plain text for showing untrusted metadata": whatever was typed, what is shown has none of the
\* characters findUnsafeChars flags and no broken pair, has at most maxLength characters, and is shown the same again.
ShownIsSafe == \A multiline \in BOOLEAN, max \in Lengths :
                 LET shown == sanitizeForDisplay(text, multiline, max)
                 IN /\ findUnsafeChars(shown, multiline) = {} /\ Len(scan(shown)) <= max
                    /\ sanitizeForDisplay(shown, multiline, max) = shown
\* validateMetadataField: what is accepted for the chain is accepted again unchanged, and is what a page will show of it.
AcceptedIsShown == \A multiline \in BOOLEAN, limit \in Limits :
                     LET field == validateMetadataField(text, multiline, TRUE, limit)
                     IN field.ok => /\ validateMetadataField(field.value, multiline, TRUE, limit) = field
                                    /\ sanitizeForDisplay(field.value, multiline, limit) = field.value
====
