--------------------------- MODULE MCPresentation ---------------------------
(* Mails of every sender with any two marks in the text, or one of some       *)
(* whole mails, and a quoted mail; events with up to three terms.               *)
EXTENDS Presentation

Terms ==
    {"failed", "degraded", "resolved", "restored", "successful", "unsuccessful",
     "not resolved"}

MCTexts ==
    {t \in SUBSET Terms : Cardinality(t) <= 3 /\ ("not resolved" \in t => "resolved" \in t)}

WholeMails ==
    {{}, WeakMarks, QnapFields \union QnapProduct, {"qnap", "severity", "category"},
     GrafanaFields, {"ruleurl", "labels", "values"}, {"truenas @ host", "new alert:"},
     {"idrac", "sensor"}, {"unifi drive", "backup task"}}

MCMails ==
    [from : {"xen orchestra", "zabbix", "proxmox", "qnap", "grafana", "synology", "idrac",
             "truenas", "notifications.ui.com", "other"},
     subject : {{}} \union {{m} : m \in {"qnap", "nas", "grafana", "firing", "synology",
                                         "truenas", "alerts", "proxmox"}},
     body : {{a, b} : a, b \in Marks} \union WholeMails,
     quoted : WholeMails]

\* One plain part of up to three lines; up to two entries of HTML beside one
\* line of plain text, with the first part attached or the second.
Values == {{}, {"warning"}, {"resolved"}, {"failed"}}

PlainLines ==
    {Text(v) : v \in Values}
        \union {Line(l, v) : l \in {"severity", "state", "message"}, v \in {{}, {"warning"}, {"resolved"}}}
        \union {Line(DateLabel, Idle), Line(LinkLabel, Idle),
                 [Text({"ok"}) EXCEPT !.form = "guest"], [Text({"failed"}) EXCEPT !.form = "guest"]}

HtmlLines ==
    {Text({"failed"})}
        \union {Entry(form, l, v, c) : form \in {"row", "bold"}, l \in {"severity", "state"},
                    v \in {{}, {"warning"}, {"resolved"}}, c \in BOOLEAN}
        \union {Entry("bold", "problem has been resolved", {}, TRUE),
                 Entry("term", "level", {"warning"}, FALSE)}

MCLabels ==
    {"", "severity", "level", "state", "message", "problem has been resolved", DateLabel,
     LinkLabel}

MCPhrases == {"warning", "resolved", "failed", "ok"} \union Idle

UpTo(lines, n) == UNION {[1..k -> lines] : k \in 0..n}

MCLetters ==
    [subject : {{}}, parts : {<<Part("plain", FALSE, p)>> : p \in UpTo(PlainLines, 3)}]
    \union [subject : {{"resolved: problem"}, {"firing", "resolved"}},
            parts : {<<Part("plain", FALSE, p)>> : p \in UpTo(PlainLines, 1)}]
    \union [subject : {{}},
            parts : {<<Part("plain", a[1], p), Part("html", a[2], h)>> :
                        p \in UpTo(PlainLines, 1), h \in UpTo(HtmlLines, 2),
                        a \in {<<FALSE, FALSE>>, <<TRUE, FALSE>>, <<FALSE, TRUE>>}}]
    \union [subject : {{"backup task failed"}},
            parts : {<<Part("html", FALSE, h)>> : h \in UpTo(HtmlLines, 1)}]

\* One part with up to three alerts, or two with up to two and up to one, in HTML or not, a
\* test or not; and parts that list none, with a first line.
Listing(n) == UNION {[1..k -> Sectioned] : k \in 0..n}
DigestPart(types, n) ==
    [type : types, attached : {FALSE}, test : BOOLEAN, listed : Listing(n)]
Lined(parts) ==
    [parts : parts,
     line : {""}] \union
    [parts : {p \in parts : \A i \in DOMAIN p : AlertsOf(p[i]) = <<>>}, line : Messages]

MCDigests ==
    Lined({<<p>> : p \in DigestPart({"plain"}, 3)})
    \union Lined({<<p, q>> : p \in DigestPart({"html", "plain"}, 2), q \in DigestPart({"html"}, 1)})
    \union Lined({<<p, q>> : p \in DigestPart({"plain"}, 1), q \in DigestPart({"plain"}, 2)})
    \union [parts : {<<[p EXCEPT !.attached = TRUE], q>> :
                        p \in DigestPart({"html"}, 1), q \in DigestPart({"plain"}, 1)},
            line : {""}]

\* Up to three guests, of two names; or two of each name.
A(outcome) == Guest("a", outcome, IF outcome = "success" THEN "" ELSE "error")
B(outcome) == Guest("b", outcome, "")

MCRuns ==
    UNION {[1..n -> {A(o) : o \in Outcomes} \union {B(o) : o \in Outcomes}] : n \in 1..3}
    \union {<<A(o[1]), B(o[2]), A(o[3]), B(o[4])>> : o \in [1..4 -> Outcomes]}

=============================================================================
