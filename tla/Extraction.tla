----------------------------- MODULE Extraction -----------------------------
(* How a parser finds the fields of a mail (src/src/parsers): QNAP and        *)
(* Grafana read labelled lines of plain text and rows of HTML, and join what  *)
(* they find; Zabbix reads the bold labels of one part only; the others read  *)
(* lines of one text.                                                         *)
(*                                                                            *)
(* A mail is a subject and a sequence of parts, a part a sequence of lines.   *)
(* What a line says is a set of phrases, {} when it is empty.  A line has a   *)
(* label ("" for none) and one of these forms: "line" for a line of text,     *)
(* and in HTML "row", "term" or "bold" for a row of a table, an entry of a    *)
(* list of definitions, and a label in bold type, with or without a colon;    *)
(* "guest" is a row of the table of a backup.                                 *)
EXTENDS Naturals, Sequences, SequencesExt, Selection

Line(label, value) ==
    [form |-> "line", label |-> label, value |-> value, colon |-> label # ""]
Entry(form, label, value, colon) ==
    [form |-> form, label |-> label, value |-> value, colon |-> colon]
Text(value) == Line("", value)

Part(type, attached, lines) == [type |-> type, attached |-> attached, lines |-> lines]

Blank(line) == line.label = "" /\ line.value = {}

Forms == {"line", "row", "term", "bold", "guest"}

\* Words that tell nothing; a label whose form is not that of a field is some.
Idle == {"words"}

\* A date is taken for a label up to its first colon, a link up to "http".
DateLabel == "2026/07/12 08"
LinkLabel == "http"

-----------------------------------------------------------------------------
(* The parts of a mail.                                                       *)

PartsOf(mail, type) ==
    Keep(mail.parts, {p \in ToSet(mail.parts) : p.type = type /\ ~p.attached})

Visible(lines) == Keep(lines, {line \in ToSet(lines) : ~Blank(line)})

\* The lines of the parts of a type that are no attachments and not empty.
Readable(mail, type) ==
    LET all == PartsOf(mail, type)
        parts == Keep(all, {p \in ToSet(all) : Visible(p.lines) # <<>>})
    IN  [i \in DOMAIN parts |-> parts[i].lines]

Usable(mail) == [plain |-> Readable(mail, "plain"), html |-> Readable(mail, "html")]

\* The raw content of a mail of one part, for parsers that fall back on it.
Raw(mail) == IF Len(mail.parts) = 1 THEN <<mail.parts[1].lines>> ELSE <<>>

Parts(mail) ==
    LET parts == Usable(mail)
    IN  IF parts.plain # <<>> \/ parts.html # <<>>
        THEN parts
        ELSE [plain |-> Raw(mail), html |-> <<>>]

\* The lines that an entry of HTML becomes as text: label and value apart.
Rendered(line) ==
    IF line.form = "line"
    THEN <<line>>
    ELSE <<IF line.colon THEN Line(line.label, {}) ELSE Text(Idle), Text(line.value)>>

PlainText(html) == Visible(FlattenSeq([i \in DOMAIN html |-> Rendered(html[i])]))

\* The body of a notification: the plain parts, and the HTML when there is none.
Body(parts) ==
    IF parts.plain # <<>>
    THEN Visible(FlattenSeq(parts.plain))
    ELSE FlattenSeq([i \in DOMAIN parts.html |-> PlainText(parts.html[i])])

Said(lines) == UNION {lines[i].value : i \in DOMAIN lines}

-----------------------------------------------------------------------------
(* Fields: a function from the labels found to what was found for them.       *)

NoFields == [label \in {} |-> {}]

Value(fields, label) == IF label \in DOMAIN fields THEN fields[label] ELSE {}

With(fields, label, value) ==
    [l \in DOMAIN fields \union {label} |-> IF l = label THEN value ELSE fields[l]]

\* What is there already stays.
MergeFields(target, source) ==
    [l \in DOMAIN target \union DOMAIN source |->
        IF Value(target, l) # {} THEN target[l] ELSE Value(source, l)]

\* The value of the first alias that has one.
Field(fields, aliases) ==
    LET found == Keep(aliases, {a \in DOMAIN fields : fields[a] # {}})
    IN  IF found = <<>> THEN {} ELSE fields[found[1]]

QnapLabel(label) == label \notin {"", LinkLabel}
GrafanaLabel(label) == label \notin {"", DateLabel}

\* Reading plain text: the fields so far, and the label a line of text continues.
Start == [fields |-> NoFields, current |-> ""]

Continued(state, line) ==
    [state EXCEPT !.fields = With(@, state.current,
        Value(@, state.current) \union line.value
            \union IF line.label = "" THEN {} ELSE Idle)]

QnapContinuable ==
    {"content", "description", "detail", "details", "event message", "message"}

\* Mutant: every line of text continues the label before it.
QnapLineContinuesAll(state, line) ==
    CASE Blank(line) -> [state EXCEPT !.current = ""]
      [] ~Blank(line) /\ QnapLabel(line.label) ->
            [fields |-> With(state.fields, line.label, line.value), current |-> line.label]
      [] OTHER -> IF state.current = "" THEN state ELSE Continued(state, line)

QnapLine(state, line) ==
    CASE Blank(line) -> [state EXCEPT !.current = ""]
      [] ~Blank(line) /\ QnapLabel(line.label) ->
            [fields |-> With(state.fields, line.label, line.value), current |-> line.label]
      [] ~Blank(line) /\ ~QnapLabel(line.label) ->
            IF /\ state.current # ""
               /\ \/ Value(state.fields, state.current) = {}
                  \/ state.current \in QnapContinuable
            THEN Continued(state, line)
            ELSE state

\* A label without a value is passed over, and the one before goes on.
GrafanaLine(state, line) ==
    CASE Blank(line) -> [state EXCEPT !.current = ""]
      [] ~Blank(line) /\ GrafanaLabel(line.label) ->
            IF line.value = {}
            THEN state
            ELSE [fields |-> With(state.fields, line.label, line.value),
                  current |-> line.label]
      [] ~Blank(line) /\ ~GrafanaLabel(line.label) ->
            IF state.current \in {"description", "details", "message", "summary"}
            THEN Continued(state, line)
            ELSE state

\* QNAP and Grafana differ in what they take for a label and in how they go on.
IsLabel(parser, label) == IF parser = "qnap" THEN QnapLabel(label) ELSE GrafanaLabel(label)

PlainFields(parser, lines) ==
    IF parser = "qnap"
    THEN FoldLeft(QnapLine, Start, lines).fields
    ELSE FoldLeft(GrafanaLine, Start, lines).fields

\* Rows come first, then terms, then bold labels.
Entries(html) ==
    LET entries(form) == Keep(html, {line \in ToSet(html) : line.form = form})
    IN  entries("row") \o entries("term") \o entries("bold")

\* The first value of a label stays.
Store(fields, label, value) ==
    IF value # {} /\ Value(fields, label) = {} THEN With(fields, label, value) ELSE fields

Labelled(parser, html) ==
    Keep(Entries(html), {line \in ToSet(html) : IsLabel(parser, line.label)})

HtmlFields(parser, html) ==
    FoldLeft(LAMBDA fields, line : Store(fields, line.label, line.value), NoFields,
             Labelled(parser, html))

\* HTML entries count before labelled lines, of the plain parts and then of HTML.
PartFields(parser, mail) ==
    LET parts == Parts(mail)
        html == [i \in DOMAIN parts.html |-> HtmlFields(parser, parts.html[i])]
        text == [i \in DOMAIN parts.plain |-> PlainFields(parser, parts.plain[i])]
        shown == [i \in DOMAIN parts.html |-> PlainFields(parser, PlainText(parts.html[i]))]
    IN  html \o text \o shown

SourceFields(parser, mail) == FoldLeft(MergeFields, NoFields, PartFields(parser, mail))

\* A date that was taken for a field is no field in the end.
Dateless(fields) == [l \in DOMAIN fields \ {DateLabel} |-> fields[l]]

QnapSource(mail) == Dateless(SourceFields("qnap", mail))

GrafanaSource(mail) == SourceFields("grafana", mail)

-----------------------------------------------------------------------------
(* The other parsers.                                                         *)

\* The body Zabbix reads: the first HTML part, or the first plain one.
ZabbixContent(mail) ==
    LET found == PartsOf(mail, "html") \o PartsOf(mail, "plain")
    IN  IF found # <<>> THEN found[1].lines ELSE FlattenSeq(Raw(mail))

\* Only labels in bold type count, and the last of them, even without a value.
BoldLines(mail) ==
    LET lines == ZabbixContent(mail)
    IN  Keep(lines, {line \in ToSet(lines) : line.form = "bold" /\ line.label # ""})

ZabbixSource(mail) ==
    FoldLeft(LAMBDA fields, line : With(fields, line.label, line.value), NoFields,
             BoldLines(mail))

\* Proxmox and Synology: labelled lines with a value, the first of a label.
FirstFields(mail) ==
    LET lines == Body(Usable(mail))
    IN  FoldLeft(LAMBDA fields, line : MergeFields(fields, With(NoFields, line.label, line.value)),
                 NoFields,
                 Keep(lines, {line \in ToSet(lines) :
                                  line.label \notin {"", DateLabel} /\ line.value # {}}))

Everything(fields) == UNION {fields[l] : l \in DOMAIN fields}

Courtesies == {"dear user", "sincerely", "synology diskstation", "this message was generated"}

\* The message of a Synology mail: a field, or else the first line of text, the
\* only one of them that counts.
EventMessage(mail) ==
    LET field == Field(FirstFields(mail),
                       <<"message", "event message", "event", "description", "details">>)
        lines == Body(Usable(mail))
        texts == Keep(lines, {line \in ToSet(lines) :
                                  line.label = "" /\ line.value \cap Courtesies = {}})
    IN  CASE field # {} -> field
          [] field = {} /\ texts # <<>> -> texts[1].value
          [] OTHER -> {}

\* The guests of a Proxmox backup: lines of a table in plain text, of the form
\* "guest" here.  In HTML the cells of such a row are lines of their own.
Guests(mail) ==
    LET lines == Body(Usable(mail))
    IN  Keep(lines, {line \in ToSet(lines) : line.form = "guest"})

\* A mail of hardware is read even where its plain part is empty.
HardwareBody(mail) ==
    LET plain == PartsOf(mail, "plain")
        html == PartsOf(mail, "html")
        lines(parts) == [i \in DOMAIN parts |-> parts[i].lines]
    IN  Body([plain |-> lines(plain), html |-> lines(html)])

HardwareLabels ==
    {"severity", "system", "host", "sensor", "message id", "event id", "message",
     "description", "action", "resolution", "event time", "date"}

\* A label at the end of its line takes the whole next line for its value, and
\* the last value of a label stays.
HardwareLine(state, line) ==
    CASE state.current # "" ->
            [fields |-> With(state.fields, state.current,
                             line.value \union IF line.label = "" THEN {} ELSE Idle),
             current |-> ""]
      [] state.current = "" /\ line.label \in HardwareLabels ->
            IF line.value = {}
            THEN [state EXCEPT !.current = line.label]
            ELSE [state EXCEPT !.fields = With(@, line.label, line.value)]
      [] OTHER -> state

HardwareSource(mail) == FoldLeft(HardwareLine, Start, HardwareBody(mail)).fields

=============================================================================
