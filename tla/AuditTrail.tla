------------------------------- MODULE AuditTrail -------------------------------
(***************************************************************************)
(* The audit trail (src/internal/audit): what is written of the logins of  *)
(* the administrators and of the changes they make to the firms, and what  *)
(* is left out of it. A change finds the whole row, saves it whole and     *)
(* publishes the difference; an entry that cannot be written is given up.  *)
(***************************************************************************)
EXTENDS Integers, FiniteSets, Sequences

CONSTANTS
  Administrator,  \* accounts of administrators
  Lawfirm,        \* firms
  Title,          \* names a firm may have
  Editor,         \* requests that change a firm
  AuditFaults,    \* {"audit"}
  MaxEntries,     \* bound: entries written
  Absent

Status == {"active", "blocked", "inactive"}
FirmRow == [title : Title, status : Status, start : {"unset", "set"}]
ASSUME AuditAssumption ==
  /\ MaxEntries \in Nat /\ AuditFaults \subseteq {"audit"}
  /\ Absent \notin Administrator \cup Lawfirm \cup FirmRow

VARIABLES
  lawfirm,    \* rows
  entries,    \* audit_logs, oldest first
  editor,     \* changes in flight
  login,      \* how far each administrator is with logging in
  unlogged,   \* history: firms and administrators with an entry that was given up
  raced       \* history: firms saved from a stale copy, or with two entries due at a time

auditVars == <<lawfirm, entries, editor, login, unlogged, raced>>

NoEdit ==
  [phase |-> "none", actor |-> Absent, firm |-> Absent, action |-> "", before |-> Absent, copy |-> Absent]

AuditTypeOK ==
  /\ lawfirm \in [Lawfirm -> FirmRow \cup {Absent}]
  /\ Len(entries) <= MaxEntries
  /\ \A e \in Editor : editor[e].phase \in {"none", "found", "publish"}
  /\ login \in [Administrator -> {"out", "in", "publish"}]
  /\ unlogged \subseteq Lawfirm \cup Administrator /\ raced \subseteq Lawfirm

AuditInit ==
  /\ lawfirm = [t \in Lawfirm |-> Absent] /\ entries = <<>>
  /\ editor = [e \in Editor |-> NoEdit] /\ login = [a \in Administrator |-> "out"]
  /\ unlogged = {} /\ raced = {}

-----------------------------------------------------------------------------
(* Writing an entry.                                                        *)

\* What a snapshot holds of a firm: the first due date is not in it.
SnapshotTenant(row) == [c \in {"title", "status"} |-> row[c]]
IsDiffIgnored(c) == c \in {"password_hash", "updated_at"}
BuildDiff(before, after) ==
  [c \in {k \in DOMAIN after : ~IsDiffIgnored(k) /\ before[k] # after[k]} |->
     [antes |-> before[c], depois |-> after[c]]]

\* An entry without an actor is refused; what it carries is kept but for the
\* secrets, which none of these carries.
NewAuditLog(in) == IF in.actor = Absent THEN {} ELSE {in}
AuditLogs(in) == {Append(entries, log) : log \in NewAuditLog(in)}
\* The publisher swallows the error.
Publish(subject, in) ==
  /\ Len(entries) < MaxEntries
  /\ \/ entries' \in AuditLogs(in) /\ UNCHANGED unlogged
     \/ /\ "audit" \in AuditFaults \/ AuditLogs(in) = {}
        /\ unlogged' = unlogged \cup {subject} /\ UNCHANGED entries

-----------------------------------------------------------------------------
(* Logins. The entry comes first, then the cookie.                          *)

AdminLogin(a) ==
  /\ login[a] = "out" /\ login' = [login EXCEPT ![a] = "publish"]
  /\ UNCHANGED <<lawfirm, entries, editor, unlogged, raced>>
PublishLoginFailure(a) ==
  /\ login[a] = "out"
  /\ Publish(a, [actor |-> a, action |-> "login.failure", firm |-> Absent, diff |-> <<>>])
  /\ UNCHANGED <<lawfirm, editor, login, raced>>
\* Mutant: the cookie comes first.
CookieFirst(a) ==
  /\ login[a] = "publish" /\ login' = [login EXCEPT ![a] = "in"]
  /\ UNCHANGED <<lawfirm, entries, editor, unlogged, raced>>
PublishAuthEvent(a) ==
  /\ login[a] = "publish" /\ login' = [login EXCEPT ![a] = "in"]
  /\ Publish(a, [actor |-> a, action |-> "login.success", firm |-> Absent, diff |-> <<>>])
  /\ UNCHANGED <<lawfirm, editor, raced>>
AdminLogout(a) ==
  /\ login[a] = "in" /\ login' = [login EXCEPT ![a] = "out"]
  /\ Publish(a, [actor |-> a, action |-> "logout", firm |-> Absent, diff |-> <<>>])
  /\ UNCHANGED <<lawfirm, editor, raced>>

-----------------------------------------------------------------------------
(* Changes.                                                                 *)

CreateLawfirm(e, a, t, n) ==
  /\ login[a] = "in" /\ editor[e] = NoEdit /\ lawfirm[t] = Absent
  /\ LET row == [title |-> n, status |-> "active", start |-> "unset"] IN
       /\ lawfirm' = [lawfirm EXCEPT ![t] = row]
       /\ editor' = [editor EXCEPT ![e] = [phase |-> "publish", actor |-> a, firm |-> t,
                                           action |-> "tenant.created", before |-> Absent, copy |-> row]]
  /\ UNCHANGED <<entries, login, unlogged, raced>>
FindAndEdit(e, a, t, action, copy) ==
  /\ login[a] = "in" /\ editor[e] = NoEdit /\ lawfirm[t] # Absent
  /\ editor' = [editor EXCEPT ![e] = [phase |-> "found", actor |-> a, firm |-> t, action |-> action,
                                      before |-> lawfirm[t], copy |-> copy]]
  /\ UNCHANGED <<lawfirm, entries, login, unlogged, raced>>
UpdateLawfirm(e, a, t) ==
  \E n \in Title, s \in {"unset", "set"} :
    FindAndEdit(e, a, t, "tenant.updated", [lawfirm[t] EXCEPT !.title = n, !.start = s])
ChangeStatus(e, a, t) ==
  LET to(s) == [lawfirm[t] EXCEPT !.status = s] IN
  \/ lawfirm[t].status = "active" /\ FindAndEdit(e, a, t, "tenant.blocked", to("blocked"))
  \/ lawfirm[t].status = "blocked" /\ FindAndEdit(e, a, t, "tenant.unblocked", to("active"))
  \/ lawfirm[t].status # "inactive" /\ FindAndEdit(e, a, t, "tenant.deactivated", to("inactive"))
SaveLawfirm(e) ==
  LET q == editor[e] IN
  /\ q.phase = "found"
  /\ lawfirm' = [lawfirm EXCEPT ![q.firm] = q.copy]
  /\ raced' = IF lawfirm[q.firm] = q.before THEN raced ELSE raced \cup {q.firm}
  /\ editor' = [editor EXCEPT ![e] =
       IF q.action = "tenant.updated" /\ DOMAIN BuildDiff(SnapshotTenant(q.before), SnapshotTenant(q.copy)) = {}
       THEN NoEdit ELSE [q EXCEPT !.phase = "publish"]]
  /\ UNCHANGED <<entries, login, unlogged>>
PublishChange(e) ==
  LET q == editor[e] IN
  /\ q.phase = "publish"
  /\ Publish(q.firm, [actor |-> q.actor, action |-> q.action, firm |-> q.firm,
       diff |-> IF q.action = "tenant.updated" THEN BuildDiff(SnapshotTenant(q.before), SnapshotTenant(q.copy))
                ELSE [c \in {"title"} |-> [antes |-> Absent, depois |-> q.copy[c]]]])
  /\ raced' = IF \E d \in Editor \ {e} : editor[d].phase = "publish" /\ editor[d].firm = q.firm
              THEN raced \cup {q.firm} ELSE raced
  /\ editor' = [editor EXCEPT ![e] = NoEdit]
  /\ UNCHANGED <<lawfirm, login>>

AuditNext ==
  \/ \E a \in Administrator : AdminLogin(a) \/ PublishLoginFailure(a) \/ PublishAuthEvent(a) \/ AdminLogout(a)
  \/ \E e \in Editor, a \in Administrator, t \in Lawfirm :
       \/ \E n \in Title : CreateLawfirm(e, a, t, n)
       \/ lawfirm[t] # Absent /\ (UpdateLawfirm(e, a, t) \/ ChangeStatus(e, a, t))
  \/ \E e \in Editor : SaveLawfirm(e) \/ PublishChange(e)
AuditSpec == AuditInit /\ [][AuditNext]_auditVars
-----------------------------------------------------------------------------
About(t) == {i \in 1..Len(entries) : entries[i].firm = t}
LastOf(S) == CHOOSE i \in S : \A j \in S : j <= i
StatusTold ==
  [a \in {"tenant.created", "tenant.blocked", "tenant.unblocked", "tenant.deactivated"} |->
     CASE a = "tenant.blocked" -> "blocked" [] a = "tenant.deactivated" -> "inactive" [] OTHER -> "active"]
TellsTitle(i) ==
  \/ entries[i].action = "tenant.created"
  \/ entries[i].action = "tenant.updated" /\ "title" \in DOMAIN entries[i].diff
Chained(t) ==
  \A i \in About(t) : entries[i].action = "tenant.updated" =>
    \A c \in DOMAIN entries[i].diff :
      c = "title" =>
        entries[i].diff[c].antes = entries[LastOf({j \in About(t) : j < i /\ TellsTitle(j)})].diff.title.depois

\* The trail alone tells what every firm has come to: the last entries of its
\* name and of its status say what is stored, and each difference begins with
\* what the one before it ended with. Excepted are a firm with a change still
\* in flight, one with an entry that was given up, one where a stale copy was
\* saved, which undoes a change and says nothing of it, and one where two
\* entries were due at a time, which may be written in the wrong order
\* (publisher.go:45, update_tenant.go:51-80). And no change is told of whose
\* actor was not told to have logged in before (main.go:643-652).
TrailTellsState ==
  /\ AuditTypeOK
  /\ \A t \in Lawfirm \ (unlogged \cup raced) :
       lawfirm[t] # Absent /\ (\A e \in Editor : editor[e].phase = "publish" => editor[e].firm # t) =>
         /\ lawfirm[t].title = entries[LastOf({i \in About(t) : TellsTitle(i)})].diff.title.depois
         /\ LET told == {i \in About(t) : entries[i].action \in DOMAIN StatusTold}
            IN lawfirm[t].status = StatusTold[entries[LastOf(told)].action]
         /\ Chained(t)
  /\ \A i \in 1..Len(entries) :
       entries[i].firm # Absent /\ entries[i].actor \notin unlogged =>
         \E j \in 1..(i - 1) : entries[j].action = "login.success" /\ entries[j].actor = entries[i].actor
=============================================================================
