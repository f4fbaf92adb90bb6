----------------------------- MODULE Recognition -----------------------------
(* Which parser a mail gets: src/src/dispatcher.py asks its detectors one     *)
(* after the other and takes the first that says yes.                         *)
(*                                                                            *)
(* A mail is what the detectors look for in it: who it says it is from, and   *)
(* the marks found in its subject, in the text its sender wrote and in the    *)
(* text it quotes or forwards.  A mark stands for one of the code's lists     *)
(* (a brand, a product, a field); for a list whose members are counted there  *)
(* are as many marks as the largest count that is asked for.                  *)
EXTENDS Integers, FiniteSets, FiniteSetsExt

QnapBrand == {"qnap"}
QnapProduct == {"hbs 3"}
QnapWeak == {"nas"}
QnapFields == {"severity", "application", "category", "message"}

\* "grafana folder" holds the word "grafana", and two lines of a TrueNAS mail
\* hold the word "alert", one of Grafana's weak marks.
GrafanaBrand == {"grafana", "grafana folder"}
GrafanaWeak == {"firing", "new alert:", "this is a test alert"}
GrafanaFields == {"grafana folder", "labels", "values"}
GrafanaUrl == {"ruleurl"}

TrueNASHeader == {"truenas @ host"}
TrueNASSection == {"new alert:", "current alerts:"}
TrueNASTest == {"this is a test alert"}

HardwareBrand == {"idrac"}
HardwareEvent == {"sensor"}
DriveBrand == {"unifi drive"}
DriveEvent == {"backup task"}

\* The words any sender may use: none of them tells who wrote the mail.
WeakMarks ==
    (QnapWeak \union QnapFields \union GrafanaWeak \union GrafanaFields
        \union TrueNASSection \union TrueNASTest \union HardwareEvent \union DriveEvent
        \union {"alerts"})
    \ GrafanaBrand

Marks ==
    WeakMarks \union QnapBrand \union QnapProduct \union GrafanaBrand
        \union GrafanaUrl \union TrueNASHeader \union HardwareBrand \union DriveBrand
        \union {"truenas", "proxmox", "synology"}

\* Most detectors read the whole text, TrueNAS's what is not quoted.
WholeBody(mail) == mail.body \union mail.quoted
VisibleBody(mail) == mail.body

Has(text, list) == text \intersect list # {}
Count(text, list) == Cardinality(text \intersect list)

IsProxmox(mail) == mail.from = "proxmox" \/ "proxmox" \in mail.subject

IsQnap(mail) ==
    LET body == WholeBody(mail)
        support == \/ Has(body, QnapProduct) \/ Has(body, QnapWeak)
                   \/ Has(mail.subject, QnapProduct) \/ Has(mail.subject, QnapWeak)
        fields == Count(body, QnapFields)
    IN  \/ mail.from = "qnap"
        \/ /\ Has(mail.subject, QnapBrand)
           /\ support \/ Has(body, QnapBrand) \/ fields >= 1
        \/ /\ Has(body, QnapBrand)
           /\ support \/ fields >= 2
        \/ /\ Has(mail.subject \union body, QnapProduct)
           /\ fields >= 4

IsGrafana(mail) ==
    LET body == WholeBody(mail)
        fields == Count(body, GrafanaFields)
        url == Has(body, GrafanaUrl)
    IN  \/ mail.from = "grafana"
        \/ /\ Has(mail.subject, GrafanaBrand)
           /\ Has(body, GrafanaBrand) \/ Has(body, GrafanaWeak) \/ fields >= 1 \/ url
        \/ /\ Has(body, GrafanaBrand)
           /\ Has(mail.subject, GrafanaWeak) \/ fields >= 2 \/ url
        \/ "grafana folder" \in body /\ fields >= 3
        \/ url /\ fields >= 2

IsSynology(mail) == mail.from = "synology" \/ "synology" \in mail.subject

IsHardware(mail) ==
    LET text == mail.subject \union WholeBody(mail)
    IN  /\ mail.from = "idrac" \/ Has(text, HardwareBrand)
        /\ Has(text, HardwareEvent)

IsTrueNASIn(mail, body) ==
    LET alerts == mail.subject = {"alerts"}
        header == Has(body, TrueNASHeader)
        content == Has(body, TrueNASTest) \/ Has(body, TrueNASSection)
    IN  \/ /\ mail.from = "truenas"
           /\ alerts \/ header \/ content
        \/ /\ header
           /\ alerts \/ "truenas" \in mail.subject \/ content

\* Mutant: quoted text counts.
IsTrueNASQuoted(mail) == IsTrueNASIn(mail, WholeBody(mail))
IsTrueNAS(mail) == IsTrueNASIn(mail, VisibleBody(mail))

IsUniFiDrive(mail) ==
    LET text == mail.subject \union WholeBody(mail)
    IN  /\ mail.from = "notifications.ui.com"
        /\ Has(text, DriveBrand)
        /\ Has(text, DriveEvent)

\* The detectors in the order they are asked.
Detectors ==
    <<"xo", "zabbix", "proxmox", "qnap", "grafana", "synology", "hardware", "truenas",
      "unifi_drive">>

Detects(detector, mail) ==
    CASE detector = "xo" -> mail.from = "xen orchestra"
      [] detector = "zabbix" -> mail.from = "zabbix"
      [] detector = "proxmox" -> IsProxmox(mail)
      [] detector = "qnap" -> IsQnap(mail)
      [] detector = "grafana" -> IsGrafana(mail)
      [] detector = "synology" -> IsSynology(mail)
      [] detector = "hardware" -> IsHardware(mail)
      [] detector = "truenas" -> IsTrueNAS(mail)
      [] detector = "unifi_drive" -> IsUniFiDrive(mail)

Recognise(mail) ==
    LET takers == {i \in DOMAIN Detectors : Detects(Detectors[i], mail)}
    IN  IF takers = {} THEN "generic" ELSE Detectors[Min(takers)]

Quoteless(mail) == [mail EXCEPT !.quoted = {}]

=============================================================================
