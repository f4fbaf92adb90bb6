---------------------------- MODULE Presentation ----------------------------
(* From an event as its sender words it to the colour of the cards: a parser  *)
(* (src/src/parsers) reduces what the sender says to a status and a severity, *)
(* and a formatter (src/src/formatters) chooses the look of a card from them. *)
(* Parsers and formatters keep no state; the steps below only take an event   *)
(* up and finish it, each source with its parser.                             *)
(*                                                                            *)
(* An event is the severity and the state its sender states, and its text as  *)
(* the set of terms that occur in it.  A term inside a longer one ("resolved" *)
(* in "not resolved") occurs too.                                             *)
EXTENDS Recognition, Extraction, Reports

CONSTANTS
    Mails,          \* the mails the dispatcher is asked about
    Texts,          \* the texts of events, sets of terms
    Letters,        \* the mails parsers read fields from
    Labels,         \* the labels of their lines
    Phrases,        \* the phrases their lines consist of
    Runs,           \* the runs of a backup, sequences of guests
    Digests         \* the digests of TrueNAS

ASSUME PresentationAssumption ==
    \A mail \in Mails : DOMAIN mail = {"from", "subject", "body", "quoted"}

\* What a line may say, any line, and any part of a mail.
Sayings == SUBSET Phrases
Lines == [form : Forms, label : Labels, value : Sayings, colon : BOOLEAN]
MailParts == [type : {"plain", "html", "other"}, attached : BOOLEAN, lines : Seq(Lines)]

ASSUME LettersAssumption ==
    /\ "" \in Labels /\ Idle \subseteq Phrases
    /\ \A mail \in Letters :
          /\ mail.parts \in Seq(MailParts)
          /\ \A part \in ToSet(mail.parts) : part.type = "html" =>
                 \A line \in ToSet(part.lines) : line.form # "guest"

ASSUME RunsAssumption ==
    \A run \in Runs :
        /\ run \in Seq(ToSet(run))
        /\ \A guest \in ToSet(run) :
              /\ DOMAIN guest = {"name", "outcome", "error"}
              /\ guest.name # "" /\ guest.outcome \in Outcomes

VARIABLES
    source,         \* whose event is being handled, "" for none
    event,          \* what came in
    notice          \* what the parser made of it: status, severity

vars == <<source, event, notice>>

None == "none"

-----------------------------------------------------------------------------
(* The words a sender uses.                                                   *)

Events(severities, states) ==
    [severity : severities, state : states, text : Texts]

Words(e) == {e.severity, e.state} \union e.text

\* Found by substring, "successful" is also found in "unsuccessful".
Substrings(words) ==
    words \union (IF "unsuccessful" \in words THEN {"successful"} ELSE {})

\* The first status of a list one of whose terms occurs.
FirstOf(list, words) ==
    LET hits == {i \in DOMAIN list : Has(words, list[i][2])}
    IN  IF hits = {} THEN "information" ELSE list[Min(hits)][1]

\* The status a table gives a word by itself, "" when it does not list it.
Exactly(table, word) ==
    LET hits == {i \in DOMAIN table : word \in table[i][2]}
    IN  IF hits = {} THEN "" ELSE table[Min(hits)][1]

Notice(status, severity) == [status |-> status, severity |-> severity]

-----------------------------------------------------------------------------
(* The parsers of webhooks.                                                   *)

Recovered == {"resolved", "recovered", "restored"}
Cleared == {"resolved", "clear", "cleared", "ok", "success"}

VendorSeverities == {"info", "warning", "error", "critical", "success"}
VendorStates == {"", "active", "resolved", "recovered"}
EventSeverities == {"info", "success", "warning", "critical", "fatal"}
EventStates == {"", "active", "firing", "resolved", "cleared", "ok"}

ProxmoxStatus(words) ==
    FirstOf(<< <<"failure", {"failed", "error", "critical", "unsuccessful"}>>,
               <<"warning", {"warning", "degraded"}>>,
               <<"success", {"resolved", "recovered", "successful", "success"}>> >>,
            Substrings(words))

ProxmoxWebhook(e) == Notice(ProxmoxStatus(Words(e)), e.severity)

SynologyStatus(words) ==
    FirstOf(<< <<"failure", {"failed", "error", "critical"}>>,
               <<"warning", {"warning", "degraded"}>>,
               <<"success", Recovered \union {"successful", "success"}>> >>,
            Substrings(words))

\* Mutant: the state is one word among others.
SynologyWebhookByWords(e) == Notice(SynologyStatus(Words(e)), e.severity)

SynologyWebhook(e) ==
    Notice(IF e.state \in Recovered THEN "success" ELSE SynologyStatus(Words(e)),
           e.severity)

PortainerStatus(state, severity) ==
    CASE state = "resolved" -> "success"
      [] state # "resolved" /\ severity \in {"critical", "error"} -> "failure"
      [] OTHER -> "warning"      \* the only other state of an alert is "firing"

PortainerAlert(e) ==
    Notice(PortainerStatus(e.state, e.severity),
           IF e.severity = "" THEN "information" ELSE e.severity)

\* The event API and Home Assistant share this decision.
EventStatus(state, severity) ==
    IF state \in Cleared
    THEN "success"
    ELSE CASE severity \in {"error", "critical", "fatal"} -> "failure"
           [] severity \in {"warning", "warn"} -> "warning"
           [] OTHER -> "information"

SubmittedEvent(e) == Notice(EventStatus(e.state, e.severity), e.severity)

\* Redfish states no state: the message tells that a condition is over.
RedfishStatus(severity, text) ==
    LET table == << <<"failure", {"critical"}>>, <<"warning", {"warning"}>>,
                    <<"success", {"ok"}>>, <<"information", {"informational"}>> >>
    IN  IF Has(text, Recovered \union {"cleared"})
        THEN "success"
        ELSE IF Exactly(table, severity) # ""
        THEN Exactly(table, severity)
        ELSE FirstOf(<< <<"failure", {"failed", "critical"}>>,
                        <<"warning", {"warning", "degraded"}>> >>, text)

RedfishEvent(e) ==
    LET status == RedfishStatus(e.severity, e.text)
    IN  Notice(status,
               IF e.severity # "" THEN e.severity
               ELSE CASE status = "success" -> "ok"
                      [] status = "failure" -> "critical"
                      [] OTHER -> status)

\* UniFi Network has a scale of numbers; there is no end of an alarm.
NetworkStatus(severity, text) ==
    CASE Has(text, {"failed"}) \/ severity = "4" -> "failure"
      [] ~Has(text, {"failed"}) /\ severity # "4"
            /\ (Has(text, {"degraded"}) \/ severity = "3") -> "warning"
      [] OTHER -> "information"

NetworkAlarm(e) ==
    LET status == NetworkStatus(e.severity, e.text)
    IN  Notice(status, IF status = "failure" THEN "critical" ELSE status)

-----------------------------------------------------------------------------
(* The parsers of mails.                                                      *)

\* A phrase says the shorter ones in it too.
Spoken(phrases) ==
    Substrings(phrases)
        \union (IF "not resolved" \in phrases THEN {"resolved"} ELSE {})
        \union (IF "resolved: problem" \in phrases THEN {"resolved"} ELSE {})

\* A value of one phrase is looked up as it is; one of several matches nothing.
Wording(value) ==
    CASE value = {} -> ""
      [] Cardinality(value) = 1 -> CHOOSE phrase \in value : TRUE
      [] OTHER -> "several phrases"

QnapTable ==
    << <<"failure", {"critical", "error", "failed", "unsuccessful"}>>,
       <<"warning", {"warning", "degraded"}>>,
       <<"success", {"ok", "resolved", "restored", "successful"}>>,
       <<"information", {"info"}>> >>

QnapStatus(severity, words) ==
    IF Exactly(QnapTable, severity) # ""
    THEN Exactly(QnapTable, severity)
    ELSE FirstOf(<< <<"failure", {"unsuccessful", "failed", "critical", "error"}>>,
                    <<"warning", {"degraded", "warning"}>>,
                    <<"success", {"resolved", "restored", "successful"}>>,
                    <<"information", {"info"}>> >>, words)

QnapAliases ==
    [severity |-> <<"severity", "level", "priority">>,
     message |-> <<"message", "event message", "description", "details", "detail", "content">>,
     application |-> <<"application", "application name", "app", "app name", "service",
                       "source application">>,
     category |-> <<"category", "event category", "notification category">>]

QnapNotice(mail, fields) ==
    LET severity == Field(fields, QnapAliases.severity)
        others == UNION {Field(fields, QnapAliases[name]) :
                            name \in {"message", "application", "category"}}
        status == QnapStatus(Wording(severity),
                             Spoken(mail.subject \union Said(Body(Parts(mail)))
                                    \union severity \union others))
        named == [failure |-> "error", warning |-> "warning",
                  success |-> "normal", information |-> "information"]
    IN  Notice(status, IF severity # {} THEN Wording(severity) ELSE named[status])

QnapMail(mail) == QnapNotice(mail, QnapSource(mail))

GrafanaTable ==
    << <<"failure", {"firing", "critical", "error", "failed", "unsuccessful", "not resolved"}>>,
       <<"warning", {"no data", "pending", "warning"}>>,
       <<"success", {"resolved", "restored", "successful", "normal"}>>,
       <<"information", {"info", "test"}>> >>

GrafanaStatus(state, severity, words) ==
    IF Exactly(GrafanaTable, state) # ""
    THEN Exactly(GrafanaTable, state)
    ELSE IF Exactly(GrafanaTable, severity) # ""
    THEN Exactly(GrafanaTable, severity)
    ELSE FirstOf(<< <<"failure", {"not resolved", "unsuccessful", "failed", "critical",
                                  "error", "firing"}>>,
                    <<"warning", {"no data", "pending", "warning"}>>,
                    <<"success", {"resolved", "restored", "successful", "normal"}>> >>, words)

\* The first of these in the subject, with "resolved" before "firing".
StateFromSubject(subject) ==
    LET found == Keep(<<"not resolved", "no data", "resolved", "pending", "firing", "error",
                        "test">>, Spoken(subject))
    IN  IF found = <<>> THEN {} ELSE {found[1]}

GrafanaAliases ==
    [state |-> <<"alert state", "state", "status">>,
     severity |-> <<"level", "priority", "severity">>,
     message |-> <<"message", "notification message", "summary", "title", "description",
                   "details">>]

GrafanaNotice(mail, fields) ==
    LET stated == Field(fields, GrafanaAliases.state)
        state == IF stated # {} THEN stated ELSE StateFromSubject(mail.subject)
        severity == Field(fields, GrafanaAliases.severity)
        message == Field(fields, GrafanaAliases.message)
        status == GrafanaStatus(Wording(state), Wording(severity),
                                Spoken(mail.subject \union Said(Body(Parts(mail))) \union state
                                       \union severity \union message))
        named == [failure |-> "critical", warning |-> "warning",
                  success |-> "normal", information |-> "information"]
    IN  Notice(status, IF severity # {} THEN Wording(severity) ELSE named[status])

GrafanaMail(mail) == GrafanaNotice(mail, GrafanaSource(mail))

\* A field or the start of the subject tells of the end, and nothing else counts.
ZabbixMail(mail) ==
    LET fields == ZabbixSource(mail)
    IN  Notice(IF \/ "problem has been resolved" \in DOMAIN fields
                  \/ "resolved: problem" \in mail.subject
               THEN "success" ELSE "failure",
               Wording(Value(fields, "severity")))

\* A severity found as a word, or else the one that goes with the status.
SeverityFrom(words, status) ==
    LET named == [failure |-> "error", warning |-> "warning", success |-> "success",
                  information |-> "info"]
        found == Keep(<<"critical", "error", "warning", "notice", "info">>, words)
    IN  IF found = <<>> THEN named[status] ELSE found[1]

\* A guest that is not OK makes the mail a failure, a warning included.
ProxmoxMail(mail) ==
    LET words == Spoken(mail.subject \union Said(Body(Usable(mail))))
        guests == Guests(mail)
        status == IF \E i \in DOMAIN guests : guests[i].value \cap {"ok", "success"} = {}
                  THEN "failure"
                  ELSE ProxmoxStatus(words)
    IN  Notice(status, SeverityFrom(words, status))

SynologyMail(mail) ==
    LET fields == FirstFields(mail)
        words == Spoken(mail.subject \union EventMessage(mail) \union Everything(fields))
        status == SynologyStatus(words)
        severity == Field(fields, <<"severity", "level", "priority">>)
    IN  Notice(status,
               IF severity # {} THEN Wording(severity) ELSE SeverityFrom(words, status))

HardwareMail(mail) ==
    LET fields == HardwareSource(mail)
        stated == Field(fields, <<"message", "description">>)
        message == IF stated # {} THEN stated ELSE Said(HardwareBody(mail))
    IN  RedfishEvent([severity |-> Wording(Value(fields, "severity")),
                      text |-> Spoken(mail.subject \union message)])

DriveRules ==
    << <<"failure", {"backup task failed", "encryption failure", "decryption failure",
                     "storage pool suspended", "drive failed", "shared drive full"}>>,
       <<"warning", {"backup task partially completed", "backup task paused",
                     "backup destination unavailable", "backup source unavailable",
                     "ssd cache not found"}>>,
       <<"success", {"backup task completed"}>>,
       <<"information", {"storage pool expanded", "drive decrypted", "setting changed",
                         "settings changed", "administrative change"}>> >>

\* The alarm of a webhook is classified by the same rules as a mail.
DriveNotice(words) ==
    LET status == FirstOf(DriveRules, words)
        severity == [failure |-> "critical", warning |-> "warning",
                     success |-> "information", information |-> "information"]
    IN  Notice(status, severity[status])

DriveMail(mail) == DriveNotice(mail.subject \union Said(Body(Usable(mail))))

XONotice(word) ==
    LET status == FirstOf(<< <<"failure", {"failed", "failure"}>>,
                             <<"skipped", {"skipped"}>>,
                             <<"success", {"success"}>> >>, {word})
    IN  Notice(IF status = "information" THEN "info" ELSE status, "")

-----------------------------------------------------------------------------
(* TrueNAS sends digests: sections of alerts that are new, current or cleared, *)
(* each alert with a message; a part that says it is a test is nothing else.  *)

Messages == {"pool failed", "pool degraded", "scrub"}
Sectioned == [type : {"new", "current", "cleared"}, message : Messages]

\* What is made of a mail: the alerts of its sections, a test, or its first line.
AlertTypes == {"new", "current", "cleared", "test", "unknown"}
Alerts == [type : AlertTypes, message : Messages \union {"test"}]

\* A part that is not blank; "test": a line of it says that this is a test alert.
DigestParts == [type : {"plain", "html", "other"}, attached : BOOLEAN, test : BOOLEAN,
                listed : Seq(Sectioned)]

\* Its parts, and the first line of what is read of them but the heading, if any.
ASSUME DigestsAssumption ==
    \A digest \in Digests :
        /\ digest.parts \in Seq(DigestParts)
        /\ digest.line \in Messages \union {""}

\* The parts in HTML, or the plain ones if there are none.
ReadParts(digest) ==
    IF PartsOf(digest, "html") # <<>> THEN PartsOf(digest, "html") ELSE PartsOf(digest, "plain")

TestAlert == [type |-> "test", message |-> "test"]

\* One line that says so, and whatever else the part lists is dropped.
AlertsOf(part) == IF part.test THEN <<TestAlert>> ELSE part.listed

AlertsIn(digest) ==
    LET parts == ReadParts(digest)
    IN  FlattenSeq([i \in DOMAIN parts |-> AlertsOf(parts[i])])

AlertState(alert) ==
    CASE alert.type = "cleared" -> Notice("success", "normal")
      [] alert.type = "test" -> Notice("information", "information")
      [] alert.type \notin {"cleared", "test"} /\ alert.message = "pool failed" ->
            Notice("failure", "critical")
      [] OTHER -> Notice("warning", "warning")

\* An alert that is new is listed as current too: both are one condition.
Condition(alert) ==
    <<IF alert.type \in {"new", "current"} THEN "active" ELSE alert.type, alert.message>>

\* The first alert of each condition stays; a "new" one replaces a "current" one.
Merge(unique, alert) ==
    LET same == {i \in DOMAIN unique : Condition(unique[i]) = Condition(alert)}
    IN  IF same = {}
        THEN Append(unique, alert)
        ELSE LET i == Min(same)
             IN  IF alert.type = "new" /\ unique[i].type = "current"
                 THEN [unique EXCEPT ![i] = alert]
                 ELSE unique

Deduplicated(alerts) == FoldLeft(Merge, <<>>, alerts)

Rank == [failure |-> 4, warning |-> 3, success |-> 2, information |-> 1]

\* Mutant: the latest alert instead of the worst.
PrimaryLatest(alerts) == alerts[Len(alerts)]

\* The alert that gives the digest its status: the worst, and of those the first.
Primary(alerts) ==
    LET rank(i) == Rank[AlertState(alerts[i]).status]
        worst == {i \in DOMAIN alerts : \A j \in DOMAIN alerts : rank(j) <= rank(i)}
    IN  alerts[Min(worst)]

\* Without an alert the first line stands for one.
TrueNASDigest(digest) ==
    LET alerts == Deduplicated(AlertsIn(digest))
    IN  IF alerts # <<>> THEN AlertState(Primary(alerts))
        ELSE IF digest.line # "" THEN AlertState([type |-> "unknown", message |-> digest.line])
        ELSE Notice("information", "information")

-----------------------------------------------------------------------------
(* The cards.                                                                 *)

Good == {"cleared", "normal", "ok", "recovered", "resolved", "success", "successful"}
Bad == {"critical", "danger", "disaster", "emergency", "error", "failed", "failure", "high"}
Uneasy == {"alert", "average", "caution", "degraded", "medium", "warn", "warning"}

\* What is current decides, and only when it says nothing the severity does.
DiscordStatus(status, severity) ==
    FirstOf(<< <<"resolved", Good>>, <<"critical", Bad>>, <<"warning", Uneasy>> >>, {status})

DiscordFamily(status, severity) ==
    LET current == DiscordStatus(status, severity)
    IN  IF current # "information"
        THEN current
        ELSE FirstOf(<< <<"critical", Bad>>, <<"warning", Uneasy>>, <<"resolved", Good>> >>,
                     {severity})

TeamsFamily(status, severity) ==
    CASE status \in Good -> "resolved"
      [] status \in Bad -> "critical"
      [] status \in Uneasy -> "warning"
      [] OTHER ->
            CASE severity \in Bad -> "critical"
              [] severity \in Uneasy -> "warning"
              [] severity \in Good -> "resolved"
              [] OTHER -> "information"

\* The severity a formatter passes on: an integration without one uses its status.
Severity(n) == IF n.severity = "" THEN n.status ELSE n.severity

DiscordCard(n) == DiscordFamily(n.status, Severity(n))
TeamsCard(n) == TeamsFamily(n.status, Severity(n))

-----------------------------------------------------------------------------
(* Steps: an event is taken up and finished.                                  *)

Init ==
    /\ source = ""
    /\ event = None
    /\ notice = None

Take(name, e, n) ==
    /\ source' = name
    /\ event' = e
    /\ notice' = n

ReceiveProxmox ==
    \E e \in Events(VendorSeverities, VendorStates) : Take("proxmox", e, ProxmoxWebhook(e))

ReceiveSynology ==
    \E e \in Events(VendorSeverities, VendorStates) : Take("synology", e, SynologyWebhook(e))

ReceivePortainer ==
    \E e \in Events({"", "info", "warning", "critical"}, {"firing", "resolved"}) :
        Take("portainer", e, PortainerAlert(e))

ReceiveEvent ==
    \E e \in Events(EventSeverities, EventStates), name \in {"event_api", "home_assistant"} :
        Take(name, e, SubmittedEvent(e))

ReceiveRedfish ==
    \E e \in Events({"", "critical", "warning", "ok", "informational"}, {""}) :
        Take("redfish", e, RedfishEvent(e))

ReceiveNetwork ==
    \E e \in Events({"2", "3", "4"}, {""}) : Take("unifi_network", e, NetworkAlarm(e))

ReceiveQnap == \E mail \in Letters : Take("qnap", mail, QnapMail(mail))

ReceiveGrafana == \E mail \in Letters : Take("grafana", mail, GrafanaMail(mail))

ReceiveZabbix == \E mail \in Letters : Take("zabbix", mail, ZabbixMail(mail))

ReceiveProxmoxMail == \E mail \in Letters : Take("proxmox_mail", mail, ProxmoxMail(mail))

ReceiveSynologyMail == \E mail \in Letters : Take("synology_mail", mail, SynologyMail(mail))

ReceiveHardware == \E mail \in Letters : Take("hardware", mail, HardwareMail(mail))

ReceiveDrive == \E mail \in Letters : Take("unifi_drive", mail, DriveMail(mail))

ReceiveDriveAlarm ==
    \E alarm \in UNION {DriveRules[i][2] : i \in DOMAIN DriveRules} :
        Take("unifi_drive_alarm", alarm, DriveNotice({alarm}))

\* The sections of a report may come in any order, and its status is one word.
ReceiveXO ==
    \E run \in Runs, order \in SetToSeqs(Outcomes), summarised, counted \in BOOLEAN :
        LET read == Counts(Report(run, order, summarised, counted))
        IN  \E status \in {"success", "failure", "skipped", "interrupted"} :
                Take("xo", [run |-> run, summarised |-> summarised, counted |-> counted],
                     [status |-> XONotice(status).status, severity |-> XONotice(status).severity,
                      count |-> read.count, total |-> read.total, names |-> read.names,
                      errors |-> read.errors])

ReceiveTrueNAS ==
    \E digest \in Digests : Take("truenas", digest, TrueNASDigest(digest))

\* Only the parser is chosen; what it makes of the mail is the step above.
Dispatch ==
    \E mail \in Mails : Take("mail", mail, Recognise(mail))

Finish ==
    /\ source # ""
    /\ source' = ""
    /\ event' = None
    /\ notice' = None

Next ==
    \/ /\ source = ""
       /\ \/ ReceiveProxmox \/ ReceiveSynology \/ ReceivePortainer \/ ReceiveEvent
          \/ ReceiveRedfish \/ ReceiveNetwork \/ ReceiveXO \/ ReceiveTrueNAS
          \/ ReceiveQnap \/ ReceiveGrafana \/ ReceiveZabbix \/ ReceiveProxmoxMail
          \/ ReceiveSynologyMail \/ ReceiveHardware \/ ReceiveDrive
          \/ ReceiveDriveAlarm \/ Dispatch
    \/ Finish

Spec == Init /\ [][Next]_vars

-----------------------------------------------------------------------------
(* Properties.                                                                *)

Cards == {DiscordCard(notice), TeamsCard(notice)}

\* The two platforms show an event with the same family of colours, whatever
\* its source: their formatters are separate programs that decide alike.
AdaptersAgree ==
    source \notin {"", "mail"} => Cardinality(Cards) = 1

StatesRecovery(e) == e.state \in Recovered \union Cleared

\* The lines of the readable parts of a mail, whatever its attachments say.
LinesOf(mail) == UNION {ToSet(p.lines) : p \in ToSet(PartsOf(mail, "plain") \o PartsOf(mail, "html"))}

\* A mail states a phrase under some labels in one way only.
OnlyStates(mail, labels, phrase) ==
    LET stated == {line \in LinesOf(mail) : line.label \in ToSet(labels)}
    IN  stated # {} /\ \A line \in stated : line.value = {phrase}

\* A source that states the present state of a condition has its recovery shown
\* as one, however severe the condition was and whatever the text remembers of
\* it; for Redfish it is the message that states it, for Zabbix a bold label.
RecoveryStated ==
    \/ /\ source \in {"synology", "portainer", "event_api", "home_assistant"}
       /\ StatesRecovery(event)
    \/ source = "redfish" /\ Has(event.text, Recovered)

WebhookRecoveryShown == RecoveryStated => Cards = {"resolved"}

RecoveryShown ==
    /\ WebhookRecoveryShown
    /\ source = "zabbix" /\ PartsOf(event, "html") # <<>>
            /\ (\E line \in ToSet(PartsOf(event, "html")[1].lines) :
                    line.form = "bold" /\ line.label = "problem has been resolved")
        => Cards = {"resolved"}

\* What a mail states in one way decides: the severity in a mail of QNAP, the
\* state in one of Grafana, in whichever part, line, row or order it stands,
\* whatever is written around it or attached.  A guest that failed is shown in
\* a mail of Proxmox, whatever the mail says of the others.
StatedDecides ==
    /\ source = "qnap" =>
            \A i \in DOMAIN QnapTable : \A phrase \in QnapTable[i][2] :
                OnlyStates(event, QnapAliases.severity, phrase)
                    => notice = Notice(QnapTable[i][1], phrase)
    /\ source = "grafana" =>
            \A i \in DOMAIN GrafanaTable : \A phrase \in GrafanaTable[i][2] :
                OnlyStates(event, GrafanaAliases.state, phrase) => notice.status = GrafanaTable[i][1]
    /\ source = "proxmox_mail" /\ PartsOf(event, "plain") # <<>> =>
            \A line \in UNION {ToSet(p.lines) : p \in ToSet(PartsOf(event, "plain"))} :
                line.form = "guest" /\ line.value = {"failed"} => Cards = {"critical"}

\* A report whose sections tell what became of each guest gives the numbers of
\* the run, guests of one name included.  Two cases are left out: numbers that
\* are nowhere in the report, and a summary beside a run in which guests were
\* skipped and none failed, which counts the skipped ones as failed too.
NumbersGiven(e) ==
    LET of(outcome) == {i \in DOMAIN e.run : e.run[i].outcome = outcome}
    IN  /\ \/ e.counted
           \/ \A i, j \in DOMAIN e.run : e.run[i].name = e.run[j].name => i = j
        /\ e.summarised /\ of("skipped") # {} => e.counted /\ of("failure") # {}

RunCounted ==
    source = "xo" /\ NumbersGiven(event) =>
        /\ \A outcome \in Outcomes :
                notice.count[outcome] =
                    Cardinality({i \in DOMAIN event.run : event.run[i].outcome = outcome})
        /\ notice.total = Len(event.run)

\* The numbers of a report add up: a guest that was skipped did not fail too.
NumbersAddUp ==
    source = "xo" /\ event.counted => notice.total =
        notice.count["failure"] + notice.count["skipped"] + notice.count["success"]

\* A date is text and no field: what is written after it belongs to the message
\* as if the date were any other words.
DatesAreText ==
    source = "qnap" =>
        LET written(line) == IF line.label = DateLabel THEN Text(line.value) ELSE line
            part(p) == [p EXCEPT !.lines = [i \in DOMAIN p.lines |-> written(p.lines[i])]]
            plain == [event EXCEPT !.parts = [i \in DOMAIN event.parts |-> part(event.parts[i])]]
        IN  Value(QnapSource(event), "message") = Value(QnapSource(plain), "message")

\* The same of the webhook of Proxmox, which the presentation contract does not
\* except: its parser looks for the word in one text with the severity.
RecoveryShownByProxmox ==
    source = "proxmox" /\ StatesRecovery(event) => Cards = {"resolved"}

\* What the parts list that are read and do not say that they are a test.
Listed(digest) == UNION {ToSet(p.listed) : p \in {q \in ToSet(ReadParts(digest)) : ~q.test}}

Active(alerts) == {alert \in alerts : alert.type \in {"new", "current"}}

\* A digest that lists an active alert in a part that is read is shown as a problem,
\* whatever else it lists, in that part or in others and in whatever order, and as a
\* critical one if the alert is critical; dropping repetitions loses no condition.
\* Not so in a part that says it is a test: there the parser drops every alert.
ActiveAlertShown ==
    source = "truenas" =>
        LET listed == Listed(event)
        IN  /\ Active(listed) # {} => Cards \subseteq {"warning", "critical"}
            /\ (\E alert \in Active(listed) : alert.message = "pool failed")
                    => Cards = {"critical"}
            /\ \A alert \in listed : \E kept \in ToSet(Deduplicated(AlertsIn(event))) :
                    /\ kept.message = alert.message
                    /\ kept.type = "cleared" <=> alert.type = "cleared"

\* A mail does not become a TrueNAS mail by what it quotes: without the quoted
\* text it is one too.
QuotedNeverSteals ==
    source = "mail" /\ notice = "truenas" => Recognise(Quoteless(event)) = "truenas"

\* Words that any sender may use do not make a mail one of a vendor's, not even
\* all of them together.
WeakNeverSuffices ==
    source = "mail" /\ event.from = "other"
            /\ event.subject \union WholeBody(event) \subseteq WeakMarks
        => notice = "generic"

=============================================================================
