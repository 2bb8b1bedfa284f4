-------------------------- MODULE ChannelBookProofs --------------------------
(* The book of settings keeps what it promises, for every number of channels,  *)
(* writers, edits and documents: backups give back what was asked, writers of  *)
(* one row keep apart, and restoring restores.                                 *)
(*                                                                             *)
(* The invariant ties four things together.  Each row fits what is queued for  *)
(* it and what its user last asked for (ChannelsFit); the writer that holds a  *)
(* channel's lock is the only one and knows what the row says (LocksAgree);    *)
(* what an export has read of a channel that has not changed since is what is  *)
(* there (ExportAgrees); and so is what it wrote (DocumentsAgree).             *)
EXTENDS ChannelBook, Sequences, SequenceTheorems, TLAPS

RowNames == {"name", "headless", "box", "server", "password", "cfg", "on", "status", "rules"}
ConfigNames == {"server", "password", "note", "file"}
QueueNames == {"phase", "fields", "old", "was", "one"}
IsRow(r) == DOMAIN r = RowNames /\ DOMAIN r.cfg = ConfigNames

\* What the user last asked for is what the row and what is queued say together.
Pending(q) == IF q.phase \in {"queued", "applying"} THEN q.fields ELSE << >>
WishFits(r, fields, asked) ==
  /\ "server" \in DOMAIN fields => asked["server"] = fields["server"]
  /\ "server" \notin DOMAIN fields /\ OneServer(r) => asked["server"] = r.server
  /\ asked["password"] = IF "password" \in DOMAIN fields THEN fields["password"] ELSE r.cfg.password
  /\ asked["on"] = IF "on" \in DOMAIN fields THEN fields["on"] ELSE r.on

\* The old values of a replacement lead back to what the channel connected with.
LeadsBack(r, q) ==
  q.one => /\ Effective(Updated(r, q.old)).server = q.was.server
           /\ Effective(Updated(r, q.old)).on = q.was.on

\* A channel's row, its queue and its wish; a password a column knows is the config's.
QueueShaped(q) ==
  /\ q.phase \in {"none", "queued", "applying", "applied"} /\ (q.phase = "none" => q = NoQueue)
  /\ q.phase # "none" =>
       /\ DOMAIN q.fields \subseteq Fields
       /\ "password" \in DOMAIN q.fields => q.fields["password"] # ""
  /\ q.phase = "queued" => "on" \notin DOMAIN q.fields
  /\ q.phase \in {"applying", "applied"} =>
       DOMAIN q = QueueNames /\ DOMAIN q.old = DOMAIN q.fields /\ DOMAIN q.was = Fields
Fits(r, q, asked) ==
  /\ QueueShaped(q) /\ DOMAIN asked = Fields
  /\ r = NoRow => q.phase = "none"
  /\ r # NoRow => /\ IsRow(r) /\ r.password \in {"", r.cfg.password}
                  /\ WishFits(r, Pending(q), asked)
  /\ q.phase \in {"applying", "applied"} => LeadsBack(r, q)
ChannelsFit ==
  /\ DOMAIN book = Channels /\ DOMAIN queued = Channels /\ DOMAIN wish = Channels
  /\ \A c \in Channels : Fits(book[c], queued[c], wish[c])

\* The lock of a channel: one writer holds it, its channel is there, and only it
\* replaces; the routing it found is the row's as long as it replaces.
Holds(w) == work[w].at \notin {"idle", "page", "put"}
WriterFits(w) ==
  /\ work[w].at \in {"idle", "page", "put", "file", "creating", "replace", "reload"}
  /\ work[w].at # "idle" => work[w].id \in Channels
  /\ Holds(w) => Known(work[w].id)
  /\ work[w].at = "replace" =>
       queued[work[w].id].phase = "applying" /\ work[w].on = book[work[w].id].on
  /\ work[w].at \in {"creating", "file", "reload"} => queued[work[w].id].phase # "applying"
  /\ work[w].at = "reload" /\ queued[work[w].id].phase = "applied" =>
       "on" \in DOMAIN queued[work[w].id].old
LocksAgree ==
  /\ DOMAIN work = Writers /\ \A w \in Writers : WriterFits(w)
  /\ \A v, w \in Writers : Holds(v) /\ Holds(w) /\ work[v].id = work[w].id => v = w

\* What an export has read of a channel that has not changed since is what it is.
ExportNames ==
  {"at", "rows", "done", "changed", "doc"} \cup
    (IF exporter.at = "config" THEN {"id", "cfg"} ELSE IF exporter.at = "rules" THEN {"id", "row"} ELSE {})
Waiting(q) == IF q.phase = "queued" THEN q.fields ELSE << >>
RowRead(r, u) ==
  /\ r.server = u.server /\ r.cfg.server = u.cfg.server /\ r.on = u.on
  /\ r.headless = u.headless /\ r.cfg.note = ""
  /\ r.cfg.password = IF r.headless THEN u.cfg.password ELSE ""
ExportAgrees ==
  /\ exporter.at \in {"idle", "next", "config", "rules"}
  /\ exporter.at # "idle" =>
       /\ DOMAIN exporter = ExportNames /\ DOMAIN exporter.rows \subseteq Channels
       /\ \A c \in DOMAIN exporter.rows : IsRow(exporter.rows[c])
       /\ \A c \in DOMAIN exporter.rows \ exporter.changed : Known(c) /\ exporter.rows[c] = book[c]
  /\ exporter.at = "config" =>
       /\ exporter.id \in DOMAIN exporter.rows /\ DOMAIN exporter.cfg = ConfigNames
       /\ exporter.id \notin exporter.changed => exporter.cfg = book[exporter.id].cfg
  /\ exporter.at = "rules" =>
       /\ exporter.id \in DOMAIN exporter.rows /\ IsRow(exporter.row)
       /\ exporter.id \notin exporter.changed =>
            RowRead(exporter.row, Updated(book[exporter.id], Waiting(queued[exporter.id])))
DocumentsAgree ==
  /\ \A e \in exporter.doc : DOMAIN e.cfg = ConfigNames
  /\ importer.at \in {"idle", "planned"}
  /\ importer.at = "planned" => \A e \in importer.plans : DOMAIN e.cfg = ConfigNames
  /\ BackupRestores

BookInv == ChannelsFit /\ LocksAgree /\ ExportAgrees /\ DocumentsAgree

\* What an update of a row leaves and changes.
LEMMA UpdatedIs ==
  ASSUME NEW r, IsRow(r), NEW e
  PROVE  /\ IsRow(Updated(r, e)) /\ Updated(r, e) # NoRow
         /\ Updated(r, e).server = (IF "server" \in DOMAIN e THEN e["server"] ELSE r.server)
         /\ Updated(r, e).cfg.server = (IF "server" \in DOMAIN e THEN e["server"] ELSE r.cfg.server)
         /\ Updated(r, e).password = (IF "password" \in DOMAIN e THEN e["password"] ELSE r.password)
         /\ Updated(r, e).cfg.password = (IF "password" \in DOMAIN e THEN e["password"] ELSE r.cfg.password)
         /\ Updated(r, e).on = (IF "on" \in DOMAIN e THEN e["on"] ELSE r.on)
         /\ Updated(r, e).cfg.note = r.cfg.note /\ Updated(r, e).cfg.file = r.cfg.file
         /\ Updated(r, e).headless = r.headless /\ Updated(r, e).name = r.name
         /\ Updated(r, e).rules = r.rules /\ Updated(r, e).status = r.status /\ Updated(r, e).box = r.box
BY DEF IsRow, RowNames, ConfigNames, Updated, NoRow

\* A row is not the row of a channel that is not there.
LEMMA RowIsKnown == ASSUME NEW r, IsRow(r) PROVE r # NoRow
<1>1. "server" \in DOMAIN r
  BY DEF IsRow, RowNames
<1>2. DOMAIN NoRow = {"name"}
  BY DEF NoRow
<1> QED
  BY <1>1, <1>2

\* Two rows that connect alike.
Alike(r, s) ==
  /\ IsRow(s) /\ s.server = r.server /\ s.password = r.password /\ s.on = r.on
  /\ s.cfg.server = r.cfg.server /\ s.cfg.password = r.cfg.password

\* What a row connects with, field by field.
LEMMA EffectiveIs ==
  ASSUME NEW r
  PROVE  /\ DOMAIN Effective(r) = Fields
         /\ Effective(r).server = (IF r.cfg.server = "" THEN r.server ELSE r.cfg.server)
         /\ Effective(r).password = r.cfg.password /\ Effective(r).on = r.on
BY DEF Effective, Fields

\* A row that connects alike fits alike.
LEMMA AlikeFits ==
  ASSUME NEW r, NEW s, NEW q, NEW asked, Fits(r, q, asked), r # NoRow, Alike(r, s)
  PROVE  Fits(s, q, asked)
<1>1. s # NoRow
  BY RowIsKnown DEF Alike
<1>2. WishFits(s, Pending(q), asked)
  BY DEF Fits, WishFits, Alike, OneServer
<1>3. ASSUME LeadsBack(r, q) PROVE LeadsBack(s, q)
  <2>1. IsRow(r) /\ IsRow(s)
    BY DEF Fits, Alike
  <2>2. /\ Effective(Updated(s, q.old)).server = Effective(Updated(r, q.old)).server
        /\ Effective(Updated(s, q.old)).on = Effective(Updated(r, q.old)).on
    <3> DEFINE u == Updated(r, q.old)
               v == Updated(s, q.old)
    <3>1. u.server = v.server /\ u.cfg.server = v.cfg.server /\ u.on = v.on
      BY <2>1, UpdatedIs DEF Alike
    <3> HIDE DEF u, v
    <3>2. Effective(u).server = Effective(v).server /\ Effective(u).on = Effective(v).on
      BY <3>1, EffectiveIs
    <3> QED
      BY <3>2 DEF u, v
  <2> QED
    BY <1>3, <2>2 DEF LeadsBack
<1> QED
  BY <1>1, <1>2, <1>3 DEF Fits, Alike

\* No fields are named by an edit that asks nothing.
LEMMA NoFields == DOMAIN << >> = {}
BY EmptySeq, LenProperties

\* A row with nothing queued whose user asked for what it connects with.
LEMMA FreshFits ==
  ASSUME NEW r, IsRow(r), r.password \in {"", r.cfg.password}
  PROVE  Fits(r, NoQueue, Effective(r))
<1>1. r # NoRow
  BY RowIsKnown
<1>2. NoQueue.phase = "none" /\ Pending(NoQueue) = << >>
  BY DEF NoQueue, Pending
<1>3. WishFits(r, << >>, Effective(r))
  <2>1. DOMAIN << >> = {}
    BY NoFields
  <2> QED
    BY <2>1, EffectiveIs DEF WishFits, OneServer
<1> QED
  BY <1>1, <1>2, <1>3, EffectiveIs DEF Fits, QueueShaped

\* Nothing queued fits whenever nothing is pending.
LEMMA SettledFits ==
  ASSUME NEW r, NEW q, NEW asked, Fits(r, q, asked), q.phase \notin {"queued", "applying"}
  PROVE  Fits(r, NoQueue, asked)
<1>1. NoQueue.phase = "none" /\ Pending(NoQueue) = << >> /\ Pending(q) = << >>
  BY DEF NoQueue, Pending
<1> QED
  BY <1>1 DEF Fits, QueueShaped

\* What is asked with e, of a wish.
AskedWith(asked, e) == [f \in Fields |-> IF f \in DOMAIN e THEN e[f] ELSE asked[f]]

\* An edit that is applied at once.
LEMMA EditFits ==
  ASSUME NEW r, NEW q, NEW asked, Fits(r, q, asked), r # NoRow, q.phase = "none",
         NEW e, DOMAIN e \subseteq Fields, "password" \in DOMAIN e => e["password"] # ""
  PROVE  Fits(Updated(r, e), NoQueue, AskedWith(asked, e))
<1> DEFINE u == Updated(r, e)
<1>1. IsRow(r) /\ WishFits(r, << >>, asked)
  BY DEF Fits, Pending
<1>2. /\ IsRow(u) /\ u # NoRow
      /\ u.server = (IF "server" \in DOMAIN e THEN e["server"] ELSE r.server)
      /\ u.cfg.server = (IF "server" \in DOMAIN e THEN e["server"] ELSE r.cfg.server)
      /\ u.password = (IF "password" \in DOMAIN e THEN e["password"] ELSE r.password)
      /\ u.cfg.password = (IF "password" \in DOMAIN e THEN e["password"] ELSE r.cfg.password)
      /\ u.on = (IF "on" \in DOMAIN e THEN e["on"] ELSE r.on)
  BY ZenonT(40), <1>1, UpdatedIs
<1> HIDE DEF u
<1>3. WishFits(u, << >>, AskedWith(asked, e))
  <2> DEFINE a == AskedWith(asked, e)
  <2>1. DOMAIN << >> = {}
    BY NoFields
  <2>2. /\ a["server"] = (IF "server" \in DOMAIN e THEN e["server"] ELSE asked["server"])
        /\ a["password"] = (IF "password" \in DOMAIN e THEN e["password"] ELSE asked["password"])
        /\ a["on"] = (IF "on" \in DOMAIN e THEN e["on"] ELSE asked["on"])
    BY DEF AskedWith, Fields
  <2> HIDE DEF a
  <2>3. WishFits(u, << >>, a)
    BY <1>1, <1>2, <2>1, <2>2 DEF WishFits, OneServer
  <2> QED
    BY <2>3 DEF a
<1>4. u.password \in {"", u.cfg.password}
  BY <1>2 DEF Fits
<1>5. NoQueue.phase = "none" /\ Pending(NoQueue) = << >>
  BY DEF NoQueue, Pending
<1>6. Fits(u, NoQueue, AskedWith(asked, e))
  BY <1>2, <1>3, <1>4, <1>5 DEF Fits, QueueShaped, AskedWith
<1> QED
  BY <1>6 DEF u

\* An edit that waits for the next start.
LEMMA LaterFits ==
  ASSUME NEW r, NEW q, NEW asked, Fits(r, q, asked), r # NoRow, q.phase \in {"none", "queued"},
         NEW e, DOMAIN e \subseteq Fields, "password" \in DOMAIN e => e["password"] # "",
         NEW waiting, waiting = StillWanted(r, Merge(Pending(q), Connection(e))),
         NEW now, now = [f \in DOMAIN e \ DOMAIN Connection(e) |-> e[f]]
  PROVE  /\ Fits(Updated(r, now), [phase |-> "queued", fields |-> waiting], AskedWith(asked, e))
         /\ waiting = << >> => Fits(Updated(r, now), NoQueue, AskedWith(asked, e))
<1> DEFINE u == Updated(r, now)
           a == AskedWith(asked, e)
           had == Pending(q)
           all == Merge(had, Connection(e))
           p == [phase |-> "queued", fields |-> waiting]
<1>1. IsRow(r) /\ WishFits(r, had, asked) /\ r.password \in {"", r.cfg.password}
  BY DEF Fits
<1>2. /\ DOMAIN had \subseteq {"server", "password"}
      /\ "password" \in DOMAIN had => had["password"] # ""
  <2>1. CASE q.phase = "queued"
    BY <2>1 DEF Fits, QueueShaped, Pending, Fields
  <2>2. CASE q.phase = "none"
    <3>1. had = << >> /\ DOMAIN << >> = {}
      BY <2>2, NoFields DEF Pending
    <3> QED
      BY <3>1
  <2> QED
    BY <2>1, <2>2
<1> HIDE DEF had
<1>3. /\ DOMAIN Connection(e) = DOMAIN e \ {"on"} /\ \A f \in DOMAIN e \ {"on"} : Connection(e)[f] = e[f]
      /\ DOMAIN now = DOMAIN e \cap {"on"} /\ \A f \in DOMAIN now : now[f] = e[f]
  BY DEF Connection
<1>4. /\ DOMAIN all = DOMAIN had \cup (DOMAIN e \ {"on"})
      /\ \A f \in DOMAIN all : all[f] = IF f \in DOMAIN e THEN e[f] ELSE had[f]
  BY <1>2, <1>3 DEF Merge
<1>5. /\ DOMAIN all \subseteq {"server", "password"}
      /\ "password" \in DOMAIN all => all["password"] # ""
  BY <1>2, <1>4 DEF Fields
<1> HIDE DEF all
<1>6. /\ DOMAIN waiting = {f \in DOMAIN all : all[f] # Column(r, f)}
      /\ \A f \in DOMAIN waiting : waiting[f] = all[f]
  BY DEF StillWanted, all, had
<1>7. Column(r, "server") = r.server /\ Column(r, "password") = r.password
  BY DEF Column
<1>8. /\ IsRow(u) /\ u # NoRow
      /\ u.server = r.server /\ u.cfg.server = r.cfg.server
      /\ u.password = r.password /\ u.cfg.password = r.cfg.password
      /\ u.on = (IF "on" \in DOMAIN e THEN e["on"] ELSE r.on)
  <2>1. "server" \notin DOMAIN now /\ "password" \notin DOMAIN now /\ ("on" \in DOMAIN now <=> "on" \in DOMAIN e)
    BY <1>3
  <2>2. "on" \in DOMAIN now => now["on"] = e["on"]
    BY <1>3
  <2>3. IsRow(u) /\ u # NoRow
    BY <1>1, UpdatedIs
  <2>4. u.server = r.server /\ u.cfg.server = r.cfg.server
    BY <1>1, <2>1, UpdatedIs
  <2>5. u.password = r.password /\ u.cfg.password = r.cfg.password
    BY <1>1, <2>1, UpdatedIs
  <2>6. u.on = (IF "on" \in DOMAIN e THEN e["on"] ELSE r.on)
    BY ZenonT(40), <1>1, <2>1, <2>2, UpdatedIs
  <2> QED
    BY <2>3, <2>4, <2>5, <2>6
<1>9. /\ a["server"] = (IF "server" \in DOMAIN e THEN e["server"] ELSE asked["server"])
      /\ a["password"] = (IF "password" \in DOMAIN e THEN e["password"] ELSE asked["password"])
      /\ a["on"] = (IF "on" \in DOMAIN e THEN e["on"] ELSE asked["on"])
      /\ DOMAIN a = Fields
  BY DEF AskedWith, Fields
<1> HIDE DEF u, a
<1>10. WishFits(u, waiting, a)
  <2>1. "server" \in DOMAIN waiting => a["server"] = waiting["server"]
    BY <1>1, <1>3, <1>4, <1>6, <1>9 DEF WishFits
  <2>2. "server" \notin DOMAIN waiting /\ OneServer(u) => a["server"] = u.server
    <3>1. OneServer(u) <=> OneServer(r)
      BY <1>8 DEF OneServer
    <3>2. CASE "server" \in DOMAIN all
      <4>1. "server" \notin DOMAIN waiting => all["server"] = r.server
        BY <1>6, <1>7, <3>2
      <4>2. a["server"] = all["server"]
        BY <1>1, <1>4, <1>9, <3>2 DEF WishFits
      <4> QED
        BY <1>8, <4>1, <4>2
    <3>3. CASE "server" \notin DOMAIN all
      <4>1. "server" \notin DOMAIN had /\ "server" \notin DOMAIN e
        BY <1>4, <3>3
      <4> QED
        BY <1>1, <1>8, <1>9, <3>1, <4>1 DEF WishFits
    <3> QED
      BY <3>2, <3>3
  <2>3. a["password"] = IF "password" \in DOMAIN waiting THEN waiting["password"] ELSE u.cfg.password
    <3>1. CASE "password" \in DOMAIN all
      <4>1. a["password"] = all["password"]
        BY <1>1, <1>4, <1>9, <3>1 DEF WishFits
      <4>2. "password" \notin DOMAIN waiting => all["password"] = r.password
        BY <1>6, <1>7, <3>1
      <4>3. "password" \notin DOMAIN waiting => all["password"] = r.cfg.password
        BY <1>1, <1>5, <3>1, <4>2
      <4> QED
        BY <1>6, <1>8, <4>1, <4>3
    <3>2. CASE "password" \notin DOMAIN all
      <4>1. "password" \notin DOMAIN had /\ "password" \notin DOMAIN e /\ "password" \notin DOMAIN waiting
        BY <1>4, <1>6, <3>2
      <4> QED
        BY <1>1, <1>8, <1>9, <4>1 DEF WishFits
    <3> QED
      BY <3>1, <3>2
  <2>4. a["on"] = IF "on" \in DOMAIN waiting THEN waiting["on"] ELSE u.on
    <3>1. "on" \notin DOMAIN waiting /\ "on" \notin DOMAIN had
      BY <1>2, <1>5, <1>6
    <3> QED
      BY <1>1, <1>8, <1>9, <3>1 DEF WishFits
  <2> QED
    BY <2>1, <2>2, <2>3, <2>4 DEF WishFits
<1>11. Fits(u, p, a)
  <2>1. p.phase = "queued" /\ p.fields = waiting /\ Pending(p) = waiting
    BY DEF Pending
  <2>2. /\ DOMAIN waiting \subseteq {"server", "password"}
        /\ "password" \in DOMAIN waiting => waiting["password"] # ""
    BY <1>5, <1>6
  <2> HIDE DEF p
  <2>3. QueueShaped(p)
    BY <2>1, <2>2 DEF QueueShaped, Fields
  <2> QED
    BY <1>1, <1>8, <1>9, <1>10, <2>1, <2>3 DEF Fits
<1>12. ASSUME waiting = << >> PROVE Fits(u, NoQueue, a)
  <2>1. NoQueue.phase = "none" /\ Pending(NoQueue) = << >>
    BY DEF NoQueue, Pending
  <2> QED
    BY <1>1, <1>8, <1>9, <1>10, <1>12, <2>1 DEF Fits, QueueShaped
<1> QED
  BY <1>11, <1>12 DEF u, a

\* A replacement that begins: its old values are the columns'.
LEMMA ApplyingFits ==
  ASSUME NEW c \in Channels, NEW asked, NEW e, Known(c), IsRow(book[c]),
         book[c].password \in {"", book[c].cfg.password},
         DOMAIN e \subseteq Fields, "password" \in DOMAIN e => e["password"] # "",
         WishFits(book[c], e, asked), DOMAIN asked = Fields
  PROVE  Fits(book[c], Applying(c, e), asked)
<1> DEFINE q == Applying(c, e)
           u == Updated(book[c], q.old)
<1>1. /\ q.phase = "applying" /\ q.fields = e /\ DOMAIN q = QueueNames
      /\ DOMAIN q.old = DOMAIN e /\ \A f \in DOMAIN e : q.old[f] = Column(book[c], f)
      /\ q.was = Effective(book[c]) /\ q.one = OneServer(book[c])
  BY DEF Applying, QueueNames
<1> HIDE DEF q
<1>2. Column(book[c], "server") = book[c].server /\ Column(book[c], "on") = book[c].on
  BY DEF Column
<1>3. /\ u.server = book[c].server /\ u.on = book[c].on
      /\ u.cfg.server = IF "server" \in DOMAIN e THEN book[c].server ELSE book[c].cfg.server
  <2>1. u.server = (IF "server" \in DOMAIN q.old THEN q.old["server"] ELSE book[c].server)
    BY ZenonT(40), UpdatedIs
  <2>2. u.cfg.server = (IF "server" \in DOMAIN q.old THEN q.old["server"] ELSE book[c].cfg.server)
    BY ZenonT(40), UpdatedIs
  <2>3. u.on = (IF "on" \in DOMAIN q.old THEN q.old["on"] ELSE book[c].on)
    BY ZenonT(40), UpdatedIs
  <2> QED
    BY <1>1, <1>2, <2>1, <2>2, <2>3
<1> HIDE DEF u
<1>4. LeadsBack(book[c], q)
  <2>1. Effective(u).on = q.was.on
    BY <1>1, <1>3, EffectiveIs
  <2>2. OneServer(book[c]) => Effective(u).server = q.was.server
    <3>1. Effective(u).server = (IF u.cfg.server = "" THEN u.server ELSE u.cfg.server)
      BY EffectiveIs
    <3>2. q.was.server = (IF book[c].cfg.server = "" THEN book[c].server ELSE book[c].cfg.server)
      BY <1>1, EffectiveIs
    <3> QED
      BY <1>3, <3>1, <3>2 DEF OneServer
  <2> QED
    BY <1>1, <2>1, <2>2 DEF LeadsBack, u
<1>5. QueueShaped(q)
  BY <1>1, EffectiveIs DEF QueueShaped
<1>6. Pending(q) = e
  BY <1>1 DEF Pending
<1> QED
  BY <1>1, <1>4, <1>5, <1>6 DEF Fits, Known, q

\* The new container is accepted.
LEMMA AppliedFits ==
  ASSUME NEW r, NEW q, NEW asked, Fits(r, q, asked), q.phase = "applying"
  PROVE  /\ Fits(Updated(r, q.fields), [q EXCEPT !.phase = "applied"], asked)
         /\ Fits(Updated(r, q.fields), NoQueue, asked)
<1> DEFINE u == Updated(r, q.fields)
           p == [q EXCEPT !.phase = "applied"]
<1>1. IsRow(r) /\ WishFits(r, q.fields, asked) /\ LeadsBack(r, q) /\ QueueShaped(q) /\ DOMAIN asked = Fields
  BY DEF Fits, Pending
<1>2. /\ p.phase = "applied" /\ p.fields = q.fields /\ p.old = q.old /\ p.was = q.was /\ p.one = q.one
      /\ DOMAIN p = QueueNames
  BY <1>1 DEF QueueShaped, QueueNames
<1>3. /\ IsRow(u) /\ u # NoRow
      /\ u.server = (IF "server" \in DOMAIN q.fields THEN q.fields["server"] ELSE r.server)
      /\ u.cfg.server = (IF "server" \in DOMAIN q.fields THEN q.fields["server"] ELSE r.cfg.server)
      /\ u.password = (IF "password" \in DOMAIN q.fields THEN q.fields["password"] ELSE r.password)
      /\ u.cfg.password = (IF "password" \in DOMAIN q.fields THEN q.fields["password"] ELSE r.cfg.password)
      /\ u.on = (IF "on" \in DOMAIN q.fields THEN q.fields["on"] ELSE r.on)
  BY <1>1, UpdatedIs
<1> HIDE DEF u, p
<1>4. DOMAIN << >> = {}
  BY NoFields
<1>5. WishFits(u, << >>, asked)
  BY <1>1, <1>3, <1>4 DEF WishFits, OneServer
<1>6. LeadsBack(u, p)
  <2> DEFINE v == Updated(u, q.old)
             w == Updated(r, q.old)
  <2>1. DOMAIN q.old = DOMAIN q.fields
    BY <1>1 DEF QueueShaped
  <2>2. v.server = w.server /\ v.cfg.server = w.cfg.server /\ v.on = w.on
    BY <1>1, <1>3, <2>1, UpdatedIs
  <2> HIDE DEF v, w
  <2>3. Effective(v).server = Effective(w).server /\ Effective(v).on = Effective(w).on
    BY <2>2, EffectiveIs
  <2> QED
    BY <1>1, <1>2, <2>3 DEF LeadsBack, v, w
<1>7. u.password \in {"", u.cfg.password}
  BY <1>3 DEF Fits
<1>8. Fits(u, p, asked)
  <2>1. Pending(p) = << >>
    BY <1>2 DEF Pending
  <2>2. QueueShaped(p)
    BY <1>1, <1>2 DEF QueueShaped
  <2> QED
    BY <1>1, <1>3, <1>5, <1>6, <1>7, <2>1, <2>2 DEF Fits
<1>9. Fits(u, NoQueue, asked)
  BY <1>2, <1>8, SettledFits
<1> QED
  BY <1>8, <1>9 DEF u, p

\* The switch of the routing goes back.
LEMMA SwitchedFits ==
  ASSUME NEW r, NEW q, NEW asked, NEW v, Fits(r, q, asked), r # NoRow,
         q.phase # "applying", q.phase = "applied" => "on" \in DOMAIN q.old
  PROVE  Fits([r EXCEPT !.on = v], q, [asked EXCEPT !.on = v])
<1> DEFINE s == [r EXCEPT !.on = v]
           a == [asked EXCEPT !.on = v]
<1>1. IsRow(r) /\ WishFits(r, Pending(q), asked) /\ DOMAIN asked = Fields
  BY DEF Fits
<1>2. /\ IsRow(s) /\ s.server = r.server /\ s.password = r.password /\ s.on = v
      /\ s.cfg.server = r.cfg.server /\ s.cfg.password = r.cfg.password
  BY <1>1 DEF IsRow, RowNames
<1>3. DOMAIN a = Fields /\ a["server"] = asked["server"] /\ a["password"] = asked["password"] /\ a["on"] = v
  BY <1>1 DEF Fields
<1> HIDE DEF s, a
<1>4. s # NoRow
  BY <1>2, RowIsKnown
<1>5. "on" \notin DOMAIN Pending(q)
  <2>1. DOMAIN << >> = {}
    BY NoFields
  <2> QED
    BY <2>1 DEF Fits, QueueShaped, Pending
<1>6. WishFits(s, Pending(q), a)
  BY <1>1, <1>2, <1>3, <1>5 DEF WishFits, OneServer
<1>7. ASSUME q.phase = "applied" PROVE LeadsBack(s, q)
  <2> DEFINE u == Updated(r, q.old)
             w == Updated(s, q.old)
  <2>1. u.server = w.server /\ u.cfg.server = w.cfg.server /\ u.on = w.on
    BY <1>1, <1>2, <1>7, UpdatedIs
  <2> HIDE DEF u, w
  <2>2. Effective(u).server = Effective(w).server /\ Effective(u).on = Effective(w).on
    BY <2>1, EffectiveIs
  <2>3. LeadsBack(r, q)
    BY <1>7 DEF Fits
  <2> QED
    BY <2>2, <2>3 DEF LeadsBack, u, w
<1>8. Fits(s, q, a)
  BY <1>2, <1>3, <1>4, <1>6, <1>7 DEF Fits
<1> QED
  BY <1>8 DEF s, a

\* Nothing but channel d changes.
OnlyAt(d) ==
  /\ DOMAIN book' = DOMAIN book /\ DOMAIN queued' = DOMAIN queued /\ DOMAIN wish' = DOMAIN wish
  /\ \A c \in Channels \ {d} : book'[c] = book[c] /\ queued'[c] = queued[c] /\ wish'[c] = wish[c]

\* A writer's edit keeps its channel fitting.
LEMMA EditKeeps ==
  ASSUME ChannelsFit, NEW w \in Writers, NEW c \in Channels, NEW e \in Edits, NEW offline \in BOOLEAN,
         Edit(w, c, e, offline)
  PROVE  OnlyAt(c) /\ Fits(book'[c], queued'[c], wish'[c])
<1> DEFINE later == queued[c].phase = "queued" \/ (offline /\ book[c].box /\ Touched(book[c], e))
           waiting == StillWanted(book[c], Merge(Queued(c), Connection(e)))
           now == [f \in DOMAIN e \ DOMAIN Connection(e) |-> e[f]]
           replaces == ~later /\ book[c].box /\ Touched(book[c], e)
<1>1. /\ Known(c) /\ queued[c].phase \in {"none", "queued"} /\ Fits(book[c], queued[c], wish[c])
      /\ DOMAIN book = Channels /\ DOMAIN queued = Channels /\ DOMAIN wish = Channels
  BY DEF Edit, ChannelsFit
<1>2. DOMAIN e \subseteq Fields /\ ("password" \in DOMAIN e => e["password"] # "")
  BY BookAssumption DEF Fields
<1>3. wish'[c] = AskedWith(wish[c], e) /\ DOMAIN wish' = Channels /\ \A d \in Channels \ {c} : wish'[d] = wish[d]
  BY <1>1 DEF Edit, Asks, AskedWith
<1>4. CASE replaces
  <2>1. queued' = [queued EXCEPT ![c] = Applying(c, e)] /\ UNCHANGED book
    BY <1>4 DEF Edit
  <2>2. queued[c].phase = "none"
    BY <1>1, <1>4
  <2>3. IsRow(book[c]) /\ book[c].password \in {"", book[c].cfg.password} /\ WishFits(book[c], << >>, wish[c])
    BY <1>1, <2>2 DEF Fits, Known, Pending
  <2> DEFINE a == AskedWith(wish[c], e)
  <2>4. /\ a["server"] = (IF "server" \in DOMAIN e THEN e["server"] ELSE wish[c]["server"])
        /\ a["password"] = (IF "password" \in DOMAIN e THEN e["password"] ELSE wish[c]["password"])
        /\ a["on"] = (IF "on" \in DOMAIN e THEN e["on"] ELSE wish[c]["on"])
        /\ DOMAIN a = Fields
    BY DEF AskedWith, Fields
  <2> HIDE DEF a
  <2>5. WishFits(book[c], e, a)
    BY <2>3, <2>4, NoFields DEF WishFits
  <2>6. Fits(book[c], Applying(c, e), a)
    BY <1>1, <1>2, <2>3, <2>4, <2>5, ApplyingFits
  <2> QED
    BY <1>1, <1>3, <2>1, <2>6 DEF OnlyAt, a
<1>5. CASE ~replaces
  <2>1. /\ queued' = [queued EXCEPT ![c] =
              IF ~later \/ waiting = << >> THEN NoQueue ELSE [phase |-> "queued", fields |-> waiting]]
        /\ book' = [book EXCEPT ![c] = Updated(@, IF later THEN now ELSE e)]
    BY <1>5 DEF Edit
  <2>2. CASE ~later
    <3>1. queued[c].phase = "none"
      BY <1>1, <2>2
    <3>2. Fits(Updated(book[c], e), NoQueue, AskedWith(wish[c], e))
      BY <1>1, <1>2, <3>1, EditFits DEF Known
    <3> QED
      BY <1>1, <1>3, <2>1, <2>2, <3>2 DEF OnlyAt
  <2>3. CASE later
    <3>1. Queued(c) = Pending(queued[c])
      BY <1>1 DEF Queued, Pending
    <3> HIDE DEF now, later, replaces
    <3>2. waiting = StillWanted(book[c], Merge(Pending(queued[c]), Connection(e)))
      BY <3>1
    <3>3. now = [f \in DOMAIN e \ DOMAIN Connection(e) |-> e[f]]
      BY DEF now
    <3> HIDE DEF waiting
    <3>4. /\ Fits(Updated(book[c], now), [phase |-> "queued", fields |-> waiting], AskedWith(wish[c], e))
          /\ waiting = << >> => Fits(Updated(book[c], now), NoQueue, AskedWith(wish[c], e))
      BY <1>1, <1>2, <3>2, <3>3, LaterFits DEF Known
    <3> QED
      BY <1>1, <1>3, <2>1, <2>3, <3>4 DEF OnlyAt
  <2> QED
    BY <2>2, <2>3
<1> QED
  BY <1>4, <1>5

\* What was not there before is there with what its user asks, or as a backup has it.
LEMMA ArrivalKeeps ==
  ASSUME ChannelsFit, DocumentsAgree
  PROVE  /\ \A w \in Writers, c \in Channels, n \in Names, h \in BOOLEAN, s \in Servers, p \in Passwords :
              Create(w, c, n, h, s, p) => OnlyAt(c) /\ Fits(book'[c], queued'[c], wish'[c])
         /\ ImportSaves => ChannelsFit'
<1>1. ASSUME NEW c \in Channels, ~Known(c) PROVE queued[c] = NoQueue
  BY <1>1 DEF ChannelsFit, Fits, QueueShaped, Known
<1>2. ASSUME NEW w \in Writers, NEW c \in Channels, NEW n \in Names, NEW h \in BOOLEAN, NEW s \in Servers,
             NEW p \in Passwords, Create(w, c, n, h, s, p)
      PROVE  OnlyAt(c) /\ Fits(book'[c], queued'[c], wish'[c])
  <2> DEFINE r == [name |-> n, headless |-> h, box |-> FALSE, server |-> s, password |-> p,
                   cfg |-> [server |-> s, password |-> p, note |-> "", file |-> ""],
                   on |-> TRUE, status |-> "creating", rules |-> {}]
  <2>1. /\ book' = [book EXCEPT ![c] = r] /\ UNCHANGED queued /\ queued[c] = NoQueue
        /\ wish' = [wish EXCEPT ![c] = [server |-> s, password |-> p, on |-> TRUE]]
    BY <1>1, <1>2 DEF Create
  <2>2. IsRow(r) /\ r.password = r.cfg.password
    BY DEF IsRow, RowNames, ConfigNames
  <2>3. Effective(r) = [server |-> s, password |-> p, on |-> TRUE]
    BY DEF Effective
  <2> HIDE DEF r
  <2>4. Fits(r, NoQueue, Effective(r))
    BY <2>2, FreshFits
  <2> QED
    BY <2>1, <2>3, <2>4 DEF OnlyAt, ChannelsFit
<1>3. ASSUME ImportSaves PROVE ChannelsFit'
  <2>1. CASE UNCHANGED <<book, wish, queued>>
    BY <2>1 DEF ChannelsFit
  <2>2. CASE ~UNCHANGED <<book, wish, queued>>
    <3>1. PICK D \in SUBSET {c \in Channels : ~Known(c) /\ ~Held(c)} :
            \E id \in [importer.plans -> D] :
              /\ book' = [c \in Channels |->
                     IF \E e \in importer.plans : id[e] = c
                     THEN PlanRow(CHOOSE e \in importer.plans : id[e] = c) ELSE book[c]]
              /\ wish' = [c \in Channels |-> IF c \in D THEN Effective(book'[c]) ELSE wish[c]]
      BY <1>3, <2>2 DEF ImportSaves
    <3>2. PICK id \in [importer.plans -> D] :
              /\ book' = [c \in Channels |->
                     IF \E e \in importer.plans : id[e] = c
                     THEN PlanRow(CHOOSE e \in importer.plans : id[e] = c) ELSE book[c]]
              /\ wish' = [c \in Channels |-> IF c \in D THEN Effective(book'[c]) ELSE wish[c]]
      BY <3>1
    <3>3. UNCHANGED queued /\ importer.at = "planned"
      BY <1>3 DEF ImportSaves
    <3>4. ASSUME NEW c \in Channels PROVE Fits(book'[c], queued'[c], wish'[c])
      <4>1. CASE c \in D
        <5>1. book[c] = NoRow /\ queued'[c] = NoQueue /\ wish'[c] = Effective(book'[c])
          BY <1>1, <3>2, <3>3, <4>1 DEF Known
        <5>2. CASE \E e \in importer.plans : id[e] = c
          <6>1. PICK e \in importer.plans : book'[c] = PlanRow(e)
            BY <3>2, <5>2
          <6>2. DOMAIN e.cfg = ConfigNames
            BY <3>3 DEF DocumentsAgree
          <6>3. IsRow(PlanRow(e)) /\ PlanRow(e).password = ""
            BY <6>2 DEF PlanRow, IsRow, RowNames
          <6> QED
            BY <5>1, <6>1, <6>3, FreshFits
        <5>3. CASE ~\E e \in importer.plans : id[e] = c
          <6>1. book'[c] = NoRow
            BY <3>2, <5>1, <5>3
          <6>2. NoQueue.phase = "none"
            BY DEF NoQueue
          <6> QED
            BY <5>1, <6>1, <6>2, EffectiveIs DEF Fits, QueueShaped
        <5> QED
          BY <5>2, <5>3
      <4>2. CASE c \notin D
        <5>1. book'[c] = book[c] /\ wish'[c] = wish[c]
          BY <3>2, <4>2
        <5> QED
          BY <3>3, <5>1 DEF ChannelsFit
      <4> QED
        BY <4>1, <4>2
    <3> QED
      BY <3>2, <3>3, <3>4 DEF ChannelsFit
  <2> QED
    BY <2>1, <2>2
<1> QED
  BY <1>2, <1>3

\* A field of the config that is no part of the connection is saved.
LEMMA FieldFits ==
  ASSUME ChannelsFit, NEW c \in Channels, Known(c), NEW w, NEW f \in {"note", "file"}, NEW v
  PROVE  Alike(book[c], SetField(w, book[c], f, v))
<1>1. IsRow(book[c])
  BY DEF ChannelsFit, Fits, Known
<1> QED
  BY <1>1 DEF SetField, Present, Alike, IsRow, RowNames, ConfigNames


\* What a writer saves keeps its channel fitting.
LEMMA WriterSaves ==
  ASSUME ChannelsFit, LocksAgree, NEW w \in Writers, NEW c, c = work[w].id,
         \/ Created(w) \/ NoteSaved(w) \/ FileSaved(w) \/ NotApplied(w) \/ Reloaded(w)
         \/ \E waits \in BOOLEAN : Applied(w, waits)
  PROVE  c \in Channels /\ OnlyAt(c) /\ Fits(book'[c], queued'[c], wish'[c])
<1>1. work[w].at # "idle"
  BY DEF Created, NoteSaved, FileSaved, NotApplied, Reloaded, Applied
<1>2. c \in Channels /\ WriterFits(w)
  BY <1>1 DEF LocksAgree, WriterFits
<1>3. /\ Fits(book[c], queued[c], wish[c])
      /\ DOMAIN book = Channels /\ DOMAIN queued = Channels /\ DOMAIN wish = Channels
  BY <1>2 DEF ChannelsFit
<1>4. Known(c) => book[c] # NoRow /\ IsRow(book[c]) /\ book[c].password \in {"", book[c].cfg.password}
  BY <1>3 DEF Fits, Known
<1>5. ASSUME NEW s, Known(c), Alike(book[c], s) PROVE Fits(s, queued[c], wish[c])
  BY <1>3, <1>4, <1>5, AlikeFits
<1>6. CASE Created(w)
  <2>1. Known(c)
    BY <1>2, <1>6 DEF Created, WriterFits, Holds
  <2>2. CASE book' = [book EXCEPT ![c].box = TRUE, ![c].status = "running"]
    <3> DEFINE s == [book[c] EXCEPT !.box = TRUE, !.status = "running"]
    <3>1. book' = [book EXCEPT ![c] = s]
      BY <1>3, <2>2
    <3>2. Alike(book[c], s)
      BY <1>4, <2>1 DEF Alike, IsRow, RowNames
    <3> HIDE DEF s
    <3> QED
      BY <1>2, <1>3, <1>5, <1>6, <2>1, <3>1, <3>2 DEF Created, OnlyAt
  <2>3. CASE book' = [book EXCEPT ![c].status = "error"]
    <3> DEFINE s == [book[c] EXCEPT !.status = "error"]
    <3>1. book' = [book EXCEPT ![c] = s]
      BY <1>3, <2>3
    <3>2. Alike(book[c], s)
      BY <1>4, <2>1 DEF Alike, IsRow, RowNames
    <3> HIDE DEF s
    <3> QED
      BY <1>2, <1>3, <1>5, <1>6, <2>1, <3>1, <3>2 DEF Created, OnlyAt
  <2> QED
    BY <1>6, <2>2, <2>3 DEF Created
<1>7. CASE NoteSaved(w)
  <2>1. CASE Known(c) /\ (work[w].asks => work[w].shown = Present(w, book[c]).note)
    <3> DEFINE s == SetField(w, book[c], "note", work[w].text)
    <3>1. book' = [book EXCEPT ![c] = s] /\ UNCHANGED <<queued, wish>>
      BY <1>7, <2>1 DEF NoteSaved
    <3>2. Alike(book[c], s)
      BY <1>2, <2>1, FieldFits
    <3> HIDE DEF s
    <3> QED
      BY <1>2, <1>3, <1>5, <2>1, <3>1, <3>2 DEF OnlyAt
  <2>2. CASE ~(Known(c) /\ (work[w].asks => work[w].shown = Present(w, book[c]).note))
    <3>1. UNCHANGED <<book, queued, wish>>
      BY <1>7, <2>2 DEF NoteSaved
    <3> QED
      BY <1>2, <1>3, <3>1 DEF OnlyAt
  <2> QED
    BY <2>1, <2>2
<1>8. CASE FileSaved(w)
  <2> DEFINE s == SetField(w, book[c], "file", work[w].text)
  <2>1. book' = [book EXCEPT ![c] = s] /\ UNCHANGED <<queued, wish>>
    BY <1>8 DEF FileSaved
  <2>2. Known(c)
    BY <1>2, <1>8 DEF FileSaved, WriterFits, Holds
  <2>3. Alike(book[c], s)
    BY <1>2, <2>2, FieldFits
  <2> HIDE DEF s
  <2> QED
    BY <1>2, <1>3, <1>5, <2>1, <2>2, <2>3 DEF OnlyAt
<1>9. CASE NotApplied(w)
  <2>1. /\ UNCHANGED book /\ queued' = [queued EXCEPT ![c] = NoQueue]
        /\ wish' = [wish EXCEPT ![c] = Effective(book[c])] /\ Known(c)
    BY <1>2, <1>9 DEF NotApplied, WriterFits, Holds
  <2>2. Fits(book[c], NoQueue, Effective(book[c]))
    BY <1>4, <2>1, FreshFits
  <2> QED
    BY <1>2, <1>3, <2>1, <2>2 DEF OnlyAt
<1>10. CASE Reloaded(w)
  <2>1. CASE UNCHANGED <<book, wish, queued>>
    BY <1>2, <1>3, <2>1 DEF OnlyAt
  <2>2. CASE ~UNCHANGED <<book, wish, queued>>
    <3> DEFINE s == [book[c] EXCEPT !.on = work[w].on]
               a == [wish[c] EXCEPT !.on = work[w].on]
    <3>1. /\ book' = [book EXCEPT ![c].on = work[w].on] /\ wish' = [wish EXCEPT ![c].on = work[w].on]
          /\ UNCHANGED queued
      BY <1>10, <2>2 DEF Reloaded
    <3>2. book' = [book EXCEPT ![c] = s] /\ wish' = [wish EXCEPT ![c] = a]
      BY <1>3, <3>1
    <3>3. Known(c) /\ queued[c].phase # "applying" /\ (queued[c].phase = "applied" => "on" \in DOMAIN queued[c].old)
      BY <1>2, <1>10 DEF Reloaded, WriterFits, Holds
    <3>4. Fits(s, queued[c], a)
      BY <1>3, <1>4, <3>3, SwitchedFits
    <3> HIDE DEF s, a
    <3> QED
      BY <1>2, <1>3, <3>1, <3>2, <3>4 DEF OnlyAt
  <2> QED
    BY <2>1, <2>2
<1>11. ASSUME NEW waits \in BOOLEAN, Applied(w, waits) PROVE OnlyAt(c) /\ Fits(book'[c], queued'[c], wish'[c])
  <2> DEFINE u == Updated(book[c], queued[c].fields)
             s == [u EXCEPT !.box = TRUE, !.status = (IF work[w].start THEN "running" ELSE "stopped")]
             p == IF waits THEN [queued[c] EXCEPT !.phase = "applied"] ELSE NoQueue
  <2>1. book' = [book EXCEPT ![c] = s] /\ UNCHANGED wish
    BY <1>11 DEF Applied
  <2>2. queued' = [queued EXCEPT ![c] = p]
    BY <1>3, <1>11 DEF Applied
  <2>3. queued[c].phase = "applying" /\ Known(c)
    BY <1>2, <1>11 DEF Applied, WriterFits, Holds
  <2>4. Fits(u, p, wish[c])
    <3>1. /\ Fits(u, [queued[c] EXCEPT !.phase = "applied"], wish[c])
          /\ Fits(u, NoQueue, wish[c])
      BY <1>3, <2>3, AppliedFits
    <3> QED
      BY <3>1
  <2>5. IsRow(u) /\ u # NoRow
    <3>1. IsRow(book[c])
      BY <1>4, <2>3
    <3> HIDE DEF s, p
    <3> QED
      BY <3>1, UpdatedIs
  <2> HIDE DEF u
  <2>6. Alike(u, s)
    BY <2>5 DEF Alike, IsRow, RowNames
  <2> HIDE DEF p, s
  <2>7. Fits(s, p, wish[c])
    BY <2>4, <2>5, <2>6, AlikeFits
  <2> QED
    BY <1>2, <1>3, <2>1, <2>2, <2>7 DEF OnlyAt
<1> QED
  BY SMTT(30), <1>2, <1>6, <1>7, <1>8, <1>9, <1>10, <1>11

\* What happens to a channel without a writer keeps it fitting.
LEMMA ChannelKeeps ==
  ASSUME ChannelsFit, NEW c \in Channels, ChannelStep(c)
  PROVE  OnlyAt(c) /\ Fits(book'[c], queued'[c], wish'[c])
<1>1. /\ Fits(book[c], queued[c], wish[c])
      /\ DOMAIN book = Channels /\ DOMAIN queued = Channels /\ DOMAIN wish = Channels
  BY DEF ChannelsFit
<1>2. Known(c) => book[c] # NoRow /\ IsRow(book[c]) /\ book[c].password \in {"", book[c].cfg.password}
  BY <1>1 DEF Fits, Known
<1>3. CASE Cancelled(c)
  <2>1. /\ UNCHANGED book /\ queued' = [queued EXCEPT ![c] = NoQueue]
        /\ wish' = [wish EXCEPT ![c] = Effective(book[c])] /\ Known(c)
    BY <1>3 DEF Cancelled
  <2>2. Fits(book[c], NoQueue, Effective(book[c]))
    BY <1>2, <2>1, FreshFits
  <2> QED
    BY <1>1, <2>1, <2>2 DEF OnlyAt
<1>4. CASE Restored(c)
  <2> DEFINE u == Updated(book[c], queued[c].old)
  <2>1. book' = [book EXCEPT ![c] = u] /\ queued' = [queued EXCEPT ![c] = NoQueue] /\ Known(c)
    BY <1>4 DEF Restored
  <2>2. wish' = [wish EXCEPT ![c] = Effective(book'[c])]
    BY <1>4 DEF Restored
  <2>3. IsRow(u)
    BY <1>2, <2>1, UpdatedIs
  <2>4. u.password \in {"", u.cfg.password}
    <3>1. u.password = (IF "password" \in DOMAIN queued[c].old THEN queued[c].old["password"] ELSE book[c].password)
      BY <1>2, <2>1, UpdatedIs
    <3>2. u.cfg.password = (IF "password" \in DOMAIN queued[c].old THEN queued[c].old["password"] ELSE book[c].cfg.password)
      BY ZenonT(40), <1>2, <2>1, UpdatedIs
    <3> QED
      BY <1>2, <2>1, <3>1, <3>2
  <2> HIDE DEF u
  <2>5. Fits(u, NoQueue, Effective(u))
    BY <2>3, <2>4, FreshFits
  <2>6. book'[c] = u
    BY <1>1, <2>1
  <2> QED
    BY <1>1, <2>1, <2>2, <2>5, <2>6 DEF OnlyAt
<1>5. CASE LoginProved(c)
  <2>1. UNCHANGED <<book, wish>> /\ queued' = [queued EXCEPT ![c] = NoQueue] /\ queued[c].phase = "applied"
    BY <1>5 DEF LoginProved
  <2>2. Fits(book[c], NoQueue, wish[c])
    BY <1>1, <2>1, SettledFits
  <2> QED
    BY <1>1, <2>1, <2>2 DEF OnlyAt
<1>6. CASE Stopped(c)
  <2> DEFINE s == [book[c] EXCEPT !.status = "stopped"]
  <2>1. book' = [book EXCEPT ![c].status = "stopped"] /\ UNCHANGED <<queued, wish>> /\ Known(c)
    BY <1>6 DEF Stopped
  <2>2. book' = [book EXCEPT ![c] = s]
    BY <1>1, <2>1
  <2>3. Alike(book[c], s)
    BY <1>2, <2>1 DEF Alike, IsRow, RowNames
  <2> HIDE DEF s
  <2>4. Fits(s, queued[c], wish[c])
    BY <1>1, <1>2, <2>1, <2>3, AlikeFits
  <2> QED
    BY <1>1, <2>1, <2>2, <2>4 DEF OnlyAt
<1>7. CASE Deleted(c)
  <2>1. /\ book' = [book EXCEPT ![c] = NoRow] /\ queued' = [queued EXCEPT ![c] = NoQueue] /\ UNCHANGED wish
    BY <1>7 DEF Deleted
  <2>2. Fits(NoRow, NoQueue, wish[c])
    <3>1. NoQueue.phase = "none"
      BY DEF NoQueue
    <3> QED
      BY <1>1, <3>1 DEF Fits, QueueShaped
  <2> QED
    BY <1>1, <2>1, <2>2 DEF OnlyAt
<1> QED
  BY <1>3, <1>4, <1>5, <1>6, <1>7 DEF ChannelStep

\* A start keeps its channel fitting.
LEMMA StartFits ==
  ASSUME ChannelsFit, NEW w \in Writers, NEW c \in Channels, StartAsked(w, c)
  PROVE  OnlyAt(c) /\ Fits(book'[c], queued'[c], wish'[c])
<1>1. /\ Fits(book[c], queued[c], wish[c]) /\ Known(c) /\ queued[c].phase \in {"none", "queued"}
      /\ DOMAIN book = Channels /\ DOMAIN queued = Channels /\ DOMAIN wish = Channels
  BY DEF ChannelsFit, StartAsked
<1>2. queued' = [queued EXCEPT ![c] = Applying(c, Queued(c))] /\ UNCHANGED <<book, wish>>
  BY DEF StartAsked
<1> DEFINE e == Queued(c)
<1>3. e = Pending(queued[c])
  BY <1>1 DEF Queued, Pending
<1>4. DOMAIN e \subseteq Fields /\ ("password" \in DOMAIN e => e["password"] # "")
  BY <1>1, NoFields DEF Queued, Fits, QueueShaped
<1>5. /\ IsRow(book[c]) /\ book[c].password \in {"", book[c].cfg.password}
      /\ WishFits(book[c], e, wish[c]) /\ DOMAIN wish[c] = Fields
  BY <1>1, <1>3 DEF Fits, Known
<1> HIDE DEF e
<1>6. Fits(book[c], Applying(c, e), wish[c])
  BY <1>1, <1>4, <1>5, ApplyingFits
<1> QED
  BY <1>1, <1>2, <1>6 DEF OnlyAt, e

\* Every step of the book keeps the channels fitting.
LEMMA ChannelsKeep ==
  ASSUME ChannelsFit, LocksAgree, DocumentsAgree, [BookNext]_bookVars
  PROVE  ChannelsFit'
<1>1. ASSUME NEW c \in Channels, OnlyAt(c), Fits(book'[c], queued'[c], wish'[c]) PROVE ChannelsFit'
  BY <1>1 DEF ChannelsFit, OnlyAt
<1>2. ASSUME UNCHANGED <<book, queued, wish>> PROVE ChannelsFit'
  BY <1>2 DEF ChannelsFit
<1>3. ASSUME NEW w \in Writers, WriterStep(w) PROVE ChannelsFit'
  <2>1. ASSUME NEW c \in Channels, NEW n \in Names, NEW h \in BOOLEAN, NEW s \in Servers, NEW p \in Passwords,
               Create(w, c, n, h, s, p)
        PROVE  ChannelsFit'
    BY <1>1, <2>1, ArrivalKeeps
  <2>2. CASE \/ Created(w) \/ NoteSaved(w) \/ FileSaved(w) \/ NotApplied(w) \/ Reloaded(w)
             \/ \E waits \in BOOLEAN : Applied(w, waits)
    BY <1>1, <2>2, WriterSaves
  <2>3. CASE \E c \in Channels : NoteGet(w, c)
    BY <1>2, <2>3 DEF NoteGet
  <2>4. CASE \E c \in Channels : StartAsked(w, c)
    BY <1>1, <2>4, StartFits
  <2>5. CASE \E t \in Texts, given \in BOOLEAN : NotePut(w, t, given)
    BY <1>2, <2>5 DEF NotePut
  <2>6. CASE \E c \in Channels, t \in Texts : FileAsked(w, c, t)
    BY <1>2, <2>6 DEF FileAsked
  <2>7. CASE \E c \in Channels, e \in Edits, offline \in BOOLEAN : Edit(w, c, e, offline)
    BY <1>1, <2>7, EditKeeps
  <2> QED
    BY <1>3, <2>1, <2>2, <2>3, <2>4, <2>5, <2>6, <2>7 DEF WriterStep
<1>4. ASSUME NEW c \in Channels, ChannelStep(c) PROVE ChannelsFit'
  BY <1>1, <1>4, ChannelKeeps
<1>5. CASE Export
  BY <1>2, <1>5 DEF Export, ExportLists, ExportQueue, ExportRules, ExportConfig
<1>6. CASE Import
  <2>1. CASE ImportSaves
    BY <2>1, ArrivalKeeps
  <2>2. CASE ~ImportSaves
    BY <1>2, <1>6, <2>2 DEF Import, ImportReads
  <2> QED
    BY <2>1, <2>2
<1>7. CASE UNCHANGED bookVars
  BY <1>2, <1>7 DEF bookVars
<1> QED
  BY <1>3, <1>4, <1>5, <1>6, <1>7 DEF BookNext

\* A step that changes one channel leaves alone who does not hold it.
LEMMA OthersStand ==
  ASSUME LocksAgree, NEW c, OnlyAt(c), NEW v \in Writers, work'[v] = work[v], Holds(v) => work[v].id # c
  PROVE  WriterFits(v)'
<1>1. WriterFits(v)
  BY DEF LocksAgree
<1>2. Holds(v)' <=> Holds(v)
  BY DEF Holds
<1>3. CASE ~Holds(v)
  <2>1. work[v].at \in {"idle", "page", "put"} /\ work'[v].at = work[v].at /\ work'[v].id = work[v].id
    BY <1>3 DEF Holds
  <2> QED
    BY <1>1, <1>2, <1>3, <2>1 DEF WriterFits
<1>4. CASE Holds(v)
  <2>1. work[v].id \in Channels \ {c}
    BY <1>1, <1>4 DEF WriterFits, Holds
  <2>2. book'[work[v].id] = book[work[v].id] /\ queued'[work[v].id] = queued[work[v].id]
    BY <2>1 DEF OnlyAt
  <2> QED
    BY <1>1, <1>2, <2>1, <2>2 DEF WriterFits, Known
<1> QED
  BY <1>3, <1>4

\* A writer alone at a channel keeps the locks agreeing.
LEMMA LockKept ==
  ASSUME LocksAgree, NEW c, OnlyAt(c), NEW w \in Writers, NEW to, work' = [work EXCEPT ![w] = to],
         \A v \in Writers \ {w} : Holds(v) => work[v].id # c,
         WriterFits(w)', Holds(w)' => to.id = c
  PROVE  LocksAgree'
<1>1. DOMAIN work' = Writers /\ work'[w] = to /\ \A v \in Writers \ {w} : work'[v] = work[v]
  BY DEF LocksAgree
<1>2. \A v \in Writers : WriterFits(v)'
  BY <1>1, OthersStand
<1>3. \A v \in Writers \ {w} : Holds(v)' <=> Holds(v)
  BY <1>1 DEF Holds
<1>4. ASSUME NEW u \in Writers, NEW v \in Writers, Holds(u)', Holds(v)', work'[u].id = work'[v].id PROVE u = v
  <2>1. CASE u # w /\ v # w
    BY <1>1, <1>3, <1>4, <2>1 DEF LocksAgree
  <2>2. CASE u = w /\ v # w
    BY <1>1, <1>3, <1>4, <2>2
  <2>3. CASE u # w /\ v = w
    BY <1>1, <1>3, <1>4, <2>3
  <2> QED
    BY <2>1, <2>2, <2>3
<1> QED
  BY <1>1, <1>2, <1>4 DEF LocksAgree

\* Who does not hold a channel that nobody holds, or that somebody else does.
LEMMA NobodyElse ==
  ASSUME LocksAgree, NEW c
  PROVE  /\ ~Held(c) => \A v \in Writers : Holds(v) => work[v].id # c
         /\ \A w \in Writers : Holds(w) /\ work[w].id = c =>
              \A v \in Writers \ {w} : Holds(v) => work[v].id # c
BY DEF LocksAgree, Held, Holds

\* An import changes no channel that is there.
LEMMA ImportAdds ==
  ASSUME ChannelsFit, ImportSaves, NEW c \in Channels, Known(c)
  PROVE  book'[c] = book[c] /\ queued'[c] = queued[c]
<1>1. UNCHANGED queued
  BY DEF ImportSaves
<1>2. CASE UNCHANGED book
  BY <1>1, <1>2
<1>3. CASE ~UNCHANGED book
  <2>1. PICK D \in SUBSET {d \in Channels : ~Known(d) /\ ~Held(d)} :
          \E id \in [importer.plans -> D] :
             book' = [d \in Channels |->
                   IF \E e \in importer.plans : id[e] = d
                   THEN PlanRow(CHOOSE e \in importer.plans : id[e] = d) ELSE book[d]]
    BY <1>3 DEF ImportSaves
  <2>2. c \notin D
    BY <2>1
  <2> QED
    BY <1>1, <2>1, <2>2
<1> QED
  BY <1>2, <1>3

\* An edit, and a start, take the lock of a channel or leave it free.
LEMMA EditLocks ==
  ASSUME ChannelsFit, LocksAgree, NEW w \in Writers, NEW c \in Channels, NEW e \in Edits,
         NEW offline \in BOOLEAN, Edit(w, c, e, offline)
  PROVE  LocksAgree'
<1> DEFINE later == queued[c].phase = "queued" \/ (offline /\ book[c].box /\ Touched(book[c], e))
           waiting == StillWanted(book[c], Merge(Queued(c), Connection(e)))
           now == [f \in DOMAIN e \ DOMAIN Connection(e) |-> e[f]]
           replaces == ~later /\ book[c].box /\ Touched(book[c], e)
<1>1. OnlyAt(c) /\ ~Held(c) /\ Known(c) /\ DOMAIN book = Channels /\ DOMAIN queued = Channels /\ DOMAIN work = Writers
  BY EditKeeps DEF Edit, ChannelsFit, LocksAgree
<1>2. \A v \in Writers \ {w} : Holds(v) => work[v].id # c
  BY <1>1, NobodyElse
<1>3. CASE replaces
  <2> DEFINE to == [at |-> "replace", id |-> c, on |-> book[c].on, start |-> book[c].status # "stopped"]
  <2>1. /\ queued' = [queued EXCEPT ![c] = Applying(c, e)] /\ UNCHANGED book
        /\ work' = [work EXCEPT ![w] = to]
    BY <1>3 DEF Edit
  <2>2. queued'[c].phase = "applying"
    BY <1>1, <2>1 DEF Applying
  <2>3. work'[w] = to /\ to.at = "replace" /\ to.id = c /\ to.on = book[c].on
    BY <1>1, <2>1
  <2> HIDE DEF to, later, replaces
  <2>4. WriterFits(w)'
    BY <1>1, <2>1, <2>2, <2>3 DEF WriterFits, Known
  <2> QED
    BY <1>1, <1>2, <2>1, <2>3, <2>4, LockKept
<1>4. CASE ~replaces
  <2>1. PICK to \in {[at |-> "reload", id |-> c, on |-> book[c].on], AtRest} : work' = [work EXCEPT ![w] = to]
    BY <1>4 DEF Edit
  <2>2. work'[w] = to /\ (to.at # "idle" => to.at = "reload" /\ to.id = c)
    BY <1>1, <2>1 DEF AtRest
  <2>3. book' = [book EXCEPT ![c] = Updated(@, IF later THEN now ELSE e)]
    BY <1>4 DEF Edit
  <2>4. queued' = [queued EXCEPT ![c] =
              IF ~later \/ waiting = << >> THEN NoQueue ELSE [phase |-> "queued", fields |-> waiting]]
    BY <1>4 DEF Edit
  <2> HIDE DEF later, now, waiting, replaces
  <2>5. queued'[c].phase \in {"none", "queued"}
    BY <1>1, <2>4 DEF NoQueue
  <2>6. book'[c] # NoRow
    <3>1. IsRow(book[c])
      BY <1>1 DEF ChannelsFit, Fits, Known
    <3>2. \A x : Updated(book[c], x) # NoRow
      BY <3>1, UpdatedIs
    <3> QED
      BY <1>1, <2>3, <3>2
  <2>7. WriterFits(w)'
    <3>1. CASE to.at = "idle"
      BY <2>2, <3>1 DEF WriterFits, Holds
    <3>2. CASE to.at # "idle"
      BY <2>2, <2>5, <2>6, <3>2 DEF WriterFits, Known
    <3> QED
      BY <3>1, <3>2
  <2>8. Holds(w)' => to.id = c
    BY <2>2 DEF Holds
  <2> QED
    BY <1>1, <1>2, <2>1, <2>7, <2>8, LockKept
<1> QED
  BY <1>3, <1>4

\* A replacement that is accepted leaves its writer the routing to reload, or nothing.
LEMMA AppliedLocks ==
  ASSUME ChannelsFit, LocksAgree, NEW w \in Writers, NEW waits \in BOOLEAN, Applied(w, waits)
  PROVE  LocksAgree'
<1> DEFINE c == work[w].id
           u == Updated(book[c], queued[c].fields)
           p == IF waits THEN [queued[c] EXCEPT !.phase = "applied"] ELSE NoQueue
<1>1. /\ work[w].at = "replace" /\ WriterFits(w) /\ Holds(w) /\ c \in Channels /\ OnlyAt(c)
      /\ DOMAIN book = Channels /\ DOMAIN queued = Channels /\ DOMAIN work = Writers
  BY WriterSaves DEF Applied, LocksAgree, WriterFits, Holds, ChannelsFit
<1>2. \A v \in Writers \ {w} : Holds(v) => work[v].id # c
  BY <1>1, NobodyElse
<1>3. /\ book[c] # NoRow /\ queued[c].phase = "applying" /\ work[w].on = book[c].on
      /\ IsRow(book[c]) /\ QueueShaped(queued[c])
  BY <1>1 DEF WriterFits, ChannelsFit, Fits, Known
<1>4. /\ book' = [book EXCEPT ![c] = [u EXCEPT !.box = TRUE,
                       !.status = (IF work[w].start THEN "running" ELSE "stopped")]]
      /\ queued' = [queued EXCEPT ![c] = p]
      /\ work' = [work EXCEPT ![w] = IF u.on # work[w].on THEN [at |-> "reload", id |-> c, on |-> work[w].on] ELSE AtRest]
  BY <1>1 DEF Applied
<1>5. IsRow(u) /\ u.on = (IF "on" \in DOMAIN queued[c].fields THEN queued[c].fields["on"] ELSE book[c].on)
  BY <1>3, UpdatedIs
<1> HIDE DEF u
<1>6. book'[c] # NoRow
  <2>1. IsRow([u EXCEPT !.box = TRUE, !.status = (IF work[w].start THEN "running" ELSE "stopped")])
    BY <1>5 DEF IsRow, RowNames
  <2> QED
    BY <1>1, <1>4, <2>1, RowIsKnown
<1>7. p.phase # "applying" /\ (p.phase = "applied" => p.old = queued[c].old)
  BY <1>3 DEF NoQueue, QueueShaped, QueueNames
<1>8. queued'[c] = p
  BY <1>1, <1>4
<1> HIDE DEF p
<1>9. CASE u.on # work[w].on
  <2> DEFINE to == [at |-> "reload", id |-> c, on |-> work[w].on]
  <2>1. work' = [work EXCEPT ![w] = to]
    BY <1>4, <1>9
  <2>2. work'[w] = to /\ to.at = "reload" /\ to.id = c
    BY <1>1, <2>1
  <2>3. "on" \in DOMAIN queued[c].old
    BY <1>3, <1>5, <1>9 DEF QueueShaped
  <2> HIDE DEF to, c
  <2>4. WriterFits(w)'
    BY <1>1, <1>6, <1>7, <1>8, <2>2, <2>3 DEF WriterFits, Known
  <2> QED
    BY <1>1, <1>2, <2>1, <2>2, <2>4, LockKept
<1>10. CASE u.on = work[w].on
  <2>1. work' = [work EXCEPT ![w] = AtRest]
    BY <1>4, <1>10
  <2>2. WriterFits(w)' /\ ~Holds(w)'
    BY <1>1, <2>1 DEF WriterFits, Holds, AtRest
  <2> HIDE DEF c
  <2> QED
    BY <1>1, <1>2, <2>1, <2>2, LockKept
<1> QED
  BY <1>9, <1>10

\* Every step of the book keeps the locks agreeing.
LEMMA LocksKeep ==
  ASSUME ChannelsFit, LocksAgree, DocumentsAgree, [BookNext]_bookVars
  PROVE  LocksAgree'
<1>1. ASSUME UNCHANGED <<book, queued, work>> PROVE LocksAgree'
  BY <1>1 DEF LocksAgree, WriterFits, Holds, Known
<1>2. /\ DOMAIN book = Channels /\ DOMAIN queued = Channels /\ DOMAIN wish = Channels /\ DOMAIN work = Writers
  BY DEF ChannelsFit, LocksAgree
<1>3. ASSUME NEW c \in Channels, Known(c) PROVE IsRow(book[c]) /\ book[c] # NoRow
  BY <1>3 DEF ChannelsFit, Fits, Known
<1>4. ASSUME NEW c \in Channels, OnlyAt(c), ~Held(c), UNCHANGED work PROVE LocksAgree'
  <2>1. \A v \in Writers : WriterFits(v)'
    BY <1>4, NobodyElse, OthersStand
  <2> QED
    BY <1>4, <2>1 DEF LocksAgree, Holds
<1>5. ASSUME NEW w \in Writers, NEW c \in Channels, OnlyAt(c),
             ~Held(c) \/ (Holds(w) /\ work[w].id = c), work' = [work EXCEPT ![w] = AtRest]
      PROVE  LocksAgree'
  <2>1. WriterFits(w)' /\ ~Holds(w)'
    BY <1>2, <1>5 DEF WriterFits, Holds, AtRest
  <2>2. \A v \in Writers \ {w} : Holds(v) => work[v].id # c
    BY <1>5, NobodyElse
  <2> QED
    BY <1>5, <2>1, <2>2, LockKept
<1>6. ASSUME NEW w \in Writers, WriterStep(w) PROVE LocksAgree'
  <2>1. ASSUME NEW c \in Channels, NEW n \in Names, NEW h \in BOOLEAN, NEW s \in Servers, NEW p \in Passwords,
               Create(w, c, n, h, s, p)
        PROVE  LocksAgree'
    <3> DEFINE r == [name |-> n, headless |-> h, box |-> FALSE, server |-> s, password |-> p,
                     cfg |-> [server |-> s, password |-> p, note |-> "", file |-> ""],
                     on |-> TRUE, status |-> "creating", rules |-> {}]
               to == [at |-> "creating", id |-> c]
    <3>1. /\ OnlyAt(c) /\ ~Held(c) /\ book' = [book EXCEPT ![c] = r] /\ work' = [work EXCEPT ![w] = to]
          /\ UNCHANGED queued /\ ~Known(c)
      BY <2>1, ArrivalKeeps DEF Create
    <3>2. book'[c] # NoRow
      <4>1. IsRow(r)
        BY DEF IsRow, RowNames, ConfigNames
      <4> HIDE DEF r
      <4> QED
        BY <1>2, <3>1, <4>1, RowIsKnown
    <3>3. queued'[c].phase = "none"
      BY <3>1 DEF ChannelsFit, Fits, Known
    <3>4. work'[w] = to /\ to.at = "creating" /\ to.id = c
      BY <1>2, <3>1
    <3> HIDE DEF r, to
    <3>5. WriterFits(w)'
      BY <3>2, <3>3, <3>4 DEF WriterFits, Known
    <3> QED
      BY <3>1, <3>4, <3>5, NobodyElse, LockKept
  <2>2. CASE Created(w) \/ FileSaved(w) \/ NotApplied(w) \/ Reloaded(w)
    <3> DEFINE c == work[w].id
    <3>1. c \in Channels /\ OnlyAt(c)
      BY <2>2, WriterSaves
    <3>2. Holds(w) /\ work' = [work EXCEPT ![w] = AtRest]
      BY <2>2 DEF Created, FileSaved, NotApplied, Reloaded, Holds
    <3> HIDE DEF c
    <3> QED
      BY <1>5, <3>1, <3>2 DEF c
  <2>3. CASE NoteSaved(w)
    <3> DEFINE c == work[w].id
    <3>1. c \in Channels /\ OnlyAt(c) /\ work' = [work EXCEPT ![w] = AtRest] /\ UNCHANGED queued
      BY <2>3, WriterSaves DEF NoteSaved
    <3>2. Known(c) => book'[c] # NoRow /\ book'[c].on = book[c].on
      <4>1. CASE UNCHANGED book
        BY <4>1 DEF Known
      <4>2. CASE ~UNCHANGED book
        <5>1. Known(c) /\ book' = [book EXCEPT ![c] = SetField(w, @, "note", work[w].text)]
          BY <2>3, <4>2 DEF NoteSaved
        <5>2. Alike(book[c], SetField(w, book[c], "note", work[w].text))
          BY <3>1, <5>1, FieldFits
        <5>3. book'[c] = SetField(w, book[c], "note", work[w].text)
          BY <1>2, <3>1, <5>1
        <5> QED
          BY <5>2, <5>3, RowIsKnown DEF Alike
      <4> QED
        BY <4>1, <4>2
    <3> HIDE DEF c
    <3>3. ASSUME NEW v \in Writers, v # w PROVE WriterFits(v)' /\ (Holds(v)' <=> Holds(v)) /\ work'[v] = work[v]
      <4>1. work'[v] = work[v]
        BY <1>2, <3>1, <3>3
      <4>2. CASE Holds(v) => work[v].id # c
        BY <3>1, <4>1, <4>2, OthersStand DEF Holds
      <4>3. CASE Holds(v) /\ work[v].id = c
        BY <3>1, <3>2, <4>1, <4>3 DEF LocksAgree, WriterFits, Holds, Known
      <4> QED
        BY <4>1, <4>2, <4>3
    <3>4. WriterFits(w)' /\ ~Holds(w)'
      BY <1>2, <3>1 DEF WriterFits, Holds, AtRest
    <3> QED
      BY <1>2, <3>1, <3>3, <3>4 DEF LocksAgree
  <2>4. ASSUME NEW waits \in BOOLEAN, Applied(w, waits) PROVE LocksAgree'
    BY <2>4, AppliedLocks
  <2>5. ASSUME NEW c \in Channels, NEW to, UNCHANGED <<book, queued, wish>>, work' = [work EXCEPT ![w] = to],
               to.at \in {"idle", "page", "put"}, to.at # "idle" => to.id \in Channels, ~Holds(w)
        PROVE  LocksAgree'
    <3>1. work'[w] = to
      BY <1>2, <2>5
    <3>2. WriterFits(w)' /\ ~Holds(w)'
      BY <2>5, <3>1 DEF WriterFits, Holds
    <3>3. \A v \in Writers \ {w} : work'[v] = work[v] /\ (Holds(v)' <=> Holds(v))
      BY <1>2, <2>5 DEF Holds
    <3>4. \A v \in Writers \ {w} : WriterFits(v)'
      BY <2>5, <3>3 DEF LocksAgree, WriterFits, Known
    <3> QED
      BY <1>2, <2>5, <3>2, <3>3, <3>4 DEF LocksAgree
  <2>6. ASSUME NEW c \in Channels, NoteGet(w, c) PROVE LocksAgree'
    <3> DEFINE to == [at |-> "page", id |-> c, shown |-> book[c].cfg.note]
    <3>1. /\ UNCHANGED <<book, queued, wish>> /\ work' = [work EXCEPT ![w] = to]
          /\ to.at = "page" /\ to.id = c /\ ~Holds(w)
      BY <2>6 DEF NoteGet, Holds, AtRest
    <3> HIDE DEF to
    <3> QED
      BY <2>5, <3>1
  <2>7. ASSUME NEW c \in Channels, StartAsked(w, c) PROVE LocksAgree'
    <3> DEFINE to == [at |-> "replace", id |-> c, on |-> book[c].on, start |-> TRUE]
    <3>1. /\ queued' = [queued EXCEPT ![c] = Applying(c, Queued(c))] /\ UNCHANGED book
          /\ work' = [work EXCEPT ![w] = to] /\ ~Held(c) /\ Known(c) /\ OnlyAt(c)
      BY <2>7, StartFits DEF StartAsked
    <3>2. queued'[c].phase = "applying"
      BY <1>2, <3>1 DEF Applying
    <3>3. work'[w] = to /\ to.at = "replace" /\ to.id = c /\ to.on = book[c].on
      BY <1>2, <3>1
    <3> HIDE DEF to
    <3>4. WriterFits(w)'
      BY <3>1, <3>2, <3>3 DEF WriterFits, Known
    <3> QED
      BY <3>1, <3>3, <3>4, NobodyElse, LockKept
  <2>8. ASSUME NEW t \in Texts, NEW given \in BOOLEAN, NotePut(w, t, given) PROVE LocksAgree'
    <3> DEFINE c == work[w].id
    <3>1. work[w].at = "put" \/ work[w].at = "page"
      BY <2>8 DEF NotePut
    <3>2. c \in Channels /\ ~Holds(w)
      BY <3>1 DEF LocksAgree, WriterFits, Holds
    <3>3. PICK to \in {[at |-> "put", id |-> c, shown |-> work[w].shown, asks |-> given, text |-> t,
                        seen |-> book[c].cfg], AtRest} : work' = [work EXCEPT ![w] = to]
      BY <1>2, <2>8 DEF NotePut
    <3>4. to.at \in {"idle", "page", "put"} /\ (to.at # "idle" => to.id = c)
      BY <3>3 DEF AtRest
    <3>5. UNCHANGED <<book, queued, wish>>
      BY <2>8 DEF NotePut
    <3> HIDE DEF c
    <3> QED
      BY <2>5, <3>2, <3>3, <3>4, <3>5
  <2>9. ASSUME NEW c \in Channels, NEW t \in Texts, FileAsked(w, c, t) PROVE LocksAgree'
    <3> DEFINE to == [at |-> "file", id |-> c, text |-> t, seen |-> book[c].cfg]
    <3>1. /\ UNCHANGED <<book, queued, wish>> /\ work' = [work EXCEPT ![w] = to] /\ ~Held(c) /\ Known(c)
          /\ queued[c].phase \in {"none", "queued"}
      BY <2>9 DEF FileAsked
    <3>2. OnlyAt(c)
      BY <3>1 DEF OnlyAt
    <3>3. work'[w] = to /\ to.at = "file" /\ to.id = c
      BY <1>2, <3>1
    <3> HIDE DEF to
    <3>4. WriterFits(w)'
      BY <3>1, <3>3 DEF WriterFits, Known
    <3> QED
      BY <3>1, <3>2, <3>3, <3>4, NobodyElse, LockKept
  <2>10. ASSUME NEW c \in Channels, NEW e \in Edits, NEW offline \in BOOLEAN, Edit(w, c, e, offline)
         PROVE  LocksAgree'
    BY <2>10, EditLocks
  <2> QED
    BY <1>6, <2>1, <2>2, <2>3, <2>4, <2>6, <2>7, <2>8, <2>9, <2>10 DEF WriterStep
<1>7. ASSUME NEW c \in Channels, ChannelStep(c) PROVE LocksAgree'
  <2>1. OnlyAt(c)
    BY <1>7, ChannelKeeps
  <2>2. ~Held(c) /\ UNCHANGED work
    BY <1>7 DEF ChannelStep, Cancelled, Restored, LoginProved, Stopped, Deleted
  <2> QED
    BY <1>4, <2>1, <2>2
<1>8. CASE Export
  BY <1>1, <1>8 DEF Export, ExportLists, ExportQueue, ExportRules, ExportConfig
<1>9. CASE Import
  <2>1. CASE ImportSaves
    <3>1. \A c \in Channels : Known(c) => book'[c] = book[c] /\ queued'[c] = queued[c]
      BY <2>1, ImportAdds
    <3>2. UNCHANGED <<work, queued>>
      BY <2>1 DEF ImportSaves
    <3>3. ASSUME NEW v \in Writers PROVE WriterFits(v)' /\ (Holds(v)' <=> Holds(v))
      <4>1. WriterFits(v) /\ (Holds(v)' <=> Holds(v))
        BY <3>2 DEF LocksAgree, Holds
      <4>2. CASE Holds(v)
        <5>1. work[v].id \in Channels /\ Known(work[v].id) /\ book'[work[v].id] = book[work[v].id]
          BY <3>1, <4>1, <4>2 DEF WriterFits, Holds
        <5> QED
          BY <3>2, <4>1, <5>1 DEF WriterFits, Known
      <4>3. CASE ~Holds(v)
        BY <3>2, <4>1, <4>3 DEF WriterFits, Holds
      <4> QED
        BY <4>1, <4>2, <4>3
    <3> QED
      BY <3>2, <3>3 DEF LocksAgree
  <2>2. CASE ~ImportSaves
    BY <1>1, <1>9, <2>2 DEF Import, ImportReads
  <2> QED
    BY <2>1, <2>2
<1>10. CASE UNCHANGED bookVars
  BY <1>1, <1>10 DEF bookVars
<1> QED
  BY <1>6, <1>7, <1>8, <1>9, <1>10 DEF BookNext

\* What an export has read stands while nothing it does not notice changes.
LEMMA ExportStands ==
  ASSUME ExportAgrees,
         \/ exporter' = exporter
         \/ exporter.at # "idle" /\ \E c \in Channels : exporter' = [exporter EXCEPT !.changed = @ \cup {c}],
         \A d \in Channels : exporter.at # "idle" /\ Known(d) /\ d \notin exporter'.changed =>
             book'[d] = book[d] /\ queued'[d] = queued[d]
  PROVE  ExportAgrees' /\ exporter'.doc = exporter.doc
<1>1. CASE exporter.at = "idle"
  BY <1>1 DEF ExportAgrees
<1>2. CASE exporter.at # "idle"
  <2>1. DOMAIN exporter = ExportNames /\ {"at", "rows", "done", "changed", "doc"} \subseteq ExportNames
    BY <1>2 DEF ExportAgrees, ExportNames
  <2>2. /\ DOMAIN exporter' = DOMAIN exporter /\ exporter.changed \subseteq exporter'.changed
        /\ exporter'.at = exporter.at /\ exporter'.rows = exporter.rows /\ exporter'.doc = exporter.doc
    BY <1>2, <2>1
  <2>3. /\ exporter.at = "config" => exporter'.id = exporter.id /\ exporter'.cfg = exporter.cfg
        /\ exporter.at = "rules" => exporter'.id = exporter.id /\ exporter'.row = exporter.row
    <3>1. exporter.at = "config" => "id" \in DOMAIN exporter /\ "cfg" \in DOMAIN exporter
      BY <2>1 DEF ExportNames
    <3>2. exporter.at = "rules" => "id" \in DOMAIN exporter /\ "row" \in DOMAIN exporter
      BY <2>1 DEF ExportNames
    <3> QED
      BY <1>2, <3>1, <3>2
  <2>4. ExportNames' = ExportNames
    BY <2>2 DEF ExportNames
  <2>5. ASSUME NEW d \in DOMAIN exporter.rows \ exporter'.changed
        PROVE  /\ Known(d) /\ exporter.rows[d] = book[d] /\ book'[d] = book[d] /\ queued'[d] = queued[d]
               /\ Known(d)'
    <3>1. d \in Channels /\ Known(d) /\ exporter.rows[d] = book[d]
      BY <1>2, <2>2 DEF ExportAgrees
    <3>2. book'[d] = book[d] /\ queued'[d] = queued[d]
      BY <1>2, <3>1
    <3> QED
      BY <3>1, <3>2 DEF Known
  <2>6. /\ DOMAIN exporter' = ExportNames' /\ DOMAIN exporter'.rows \subseteq Channels
        /\ \A c \in DOMAIN exporter'.rows : IsRow(exporter'.rows[c])
    BY <1>2, <2>1, <2>2, <2>4 DEF ExportAgrees
  <2>7. \A c \in DOMAIN exporter'.rows \ exporter'.changed : Known(c)' /\ exporter'.rows[c] = book'[c]
    BY <2>2, <2>5
  <2>8. ASSUME exporter.at = "config"
        PROVE  /\ exporter'.id \in DOMAIN exporter'.rows /\ DOMAIN exporter'.cfg = ConfigNames
               /\ exporter'.id \notin exporter'.changed => exporter'.cfg = book'[exporter'.id].cfg
    <3>1. /\ exporter.id \in DOMAIN exporter.rows /\ DOMAIN exporter.cfg = ConfigNames
          /\ exporter.id \notin exporter.changed => exporter.cfg = book[exporter.id].cfg
      BY <2>8 DEF ExportAgrees
    <3> QED
      BY <2>2, <2>3, <2>5, <2>8, <3>1
  <2>9. ASSUME exporter.at = "rules"
        PROVE  /\ exporter'.id \in DOMAIN exporter'.rows /\ IsRow(exporter'.row)
               /\ exporter'.id \notin exporter'.changed =>
                    RowRead(exporter'.row, Updated(book'[exporter'.id], Waiting(queued'[exporter'.id])))
    <3>1. /\ exporter.id \in DOMAIN exporter.rows /\ IsRow(exporter.row)
          /\ exporter.id \notin exporter.changed =>
               RowRead(exporter.row, Updated(book[exporter.id], Waiting(queued[exporter.id])))
      BY <2>9 DEF ExportAgrees
    <3>2. exporter'.id = exporter.id /\ exporter'.row = exporter.row
      BY <2>3, <2>9
    <3>3. CASE exporter.id \in exporter'.changed
      BY <2>2, <3>1, <3>2, <3>3
    <3>4. CASE exporter.id \notin exporter'.changed
      <4>1. book'[exporter.id] = book[exporter.id] /\ queued'[exporter.id] = queued[exporter.id]
        BY <2>5, <3>1, <3>4
      <4> QED
        BY <2>2, <3>1, <3>2, <3>4, <4>1
    <3> QED
      BY <3>3, <3>4
  <2> QED
    BY <1>2, <2>2, <2>6, <2>7, <2>8, <2>9 DEF ExportAgrees
<1> QED
  BY <1>1, <1>2

\* Documents stand when nothing is added to them and no import reads them.
LEMMA DocumentsStand ==
  ASSUME DocumentsAgree, exporter'.doc = exporter.doc, UNCHANGED importer
  PROVE  DocumentsAgree'
BY DEF DocumentsAgree, BackupRestores

\* A list of the channels, and the config of one, are what they are.
LEMMA ExportReads ==
  ASSUME ChannelsFit, ExportAgrees, DocumentsAgree, ExportLists \/ \E c \in Channels : ExportConfig(c)
  PROVE  ExportAgrees' /\ DocumentsAgree'
<1>1. \A c \in Channels : Known(c) => IsRow(book[c])
  BY DEF ChannelsFit, Fits, Known
<1>2. CASE ExportLists
  <2> DEFINE known == {d \in Channels : Known(d)}
             list == [c \in known |-> book[c]]
  <2>1. /\ exporter' = [at |-> "next", rows |-> list, done |-> {}, changed |-> {}, doc |-> {}]
        /\ exporter.doc = {} /\ UNCHANGED <<book, queued, importer>>
    BY <1>2 DEF ExportLists
  <2>2. DOMAIN list = known /\ \A c \in known : list[c] = book[c]
    OBVIOUS
  <2> HIDE DEF list
  <2>3. /\ exporter'.at = "next" /\ exporter'.rows = list /\ exporter'.doc = {}
        /\ DOMAIN exporter' = {"at", "rows", "done", "changed", "doc"}
    BY <2>1
  <2>4. ExportNames' = {"at", "rows", "done", "changed", "doc"}
    BY <2>3 DEF ExportNames
  <2>5. ExportAgrees'
    BY <1>1, <2>1, <2>2, <2>3, <2>4 DEF ExportAgrees, Known
  <2>6. exporter'.doc = exporter.doc
    BY <2>1, <2>3
  <2> QED
    BY <2>1, <2>5, <2>6, DocumentsStand
<1>3. ASSUME NEW c \in Channels, ExportConfig(c) PROVE ExportAgrees' /\ DocumentsAgree'
  <2> DEFINE read == IF Known(c) THEN book[c].cfg ELSE [server |-> "", password |-> "", note |-> "", file |-> ""]
  <2>1. /\ exporter' = [at |-> "config", id |-> c, cfg |-> read, rows |-> exporter.rows,
                        done |-> exporter.done, changed |-> exporter.changed, doc |-> exporter.doc]
        /\ exporter.at = "next" /\ c \in DOMAIN exporter.rows /\ UNCHANGED <<book, queued, importer>>
    BY <1>3 DEF ExportConfig
  <2>2. DOMAIN read = ConfigNames /\ (Known(c) => read = book[c].cfg)
    BY <1>1 DEF IsRow, ConfigNames
  <2> HIDE DEF read
  <2>3. /\ exporter'.at = "config" /\ exporter'.id = c /\ exporter'.cfg = read /\ exporter'.rows = exporter.rows
        /\ exporter'.changed = exporter.changed /\ exporter'.doc = exporter.doc
        /\ DOMAIN exporter' = {"at", "rows", "done", "changed", "doc", "id", "cfg"}
    BY <2>1
  <2>4. ExportNames' = {"at", "rows", "done", "changed", "doc", "id", "cfg"}
    BY <2>3 DEF ExportNames
  <2>5. ExportAgrees'
    BY <2>1, <2>2, <2>3, <2>4 DEF ExportAgrees, Known
  <2> QED
    BY <2>1, <2>3, <2>5, DocumentsStand
<1> QED
  BY <1>2, <1>3

\* What an export makes of a row with what is queued for it.
LEMMA ExportStrips ==
  ASSUME ChannelsFit, ExportAgrees, DocumentsAgree, ExportQueue
  PROVE  ExportAgrees' /\ DocumentsAgree'
<1> DEFINE c == exporter.id
           r == [exporter.rows[c] EXCEPT !.cfg = exporter.cfg]
           u == Updated(r, Queued(c))
           s == Stripped(u)
<1>1. /\ exporter' = [at |-> "rules", id |-> c, row |-> s, rows |-> exporter.rows, done |-> exporter.done,
                      changed |-> exporter.changed, doc |-> exporter.doc]
      /\ exporter.at = "config" /\ UNCHANGED <<book, queued, importer>>
  BY DEF ExportQueue, Overlaid
<1>2. /\ c \in DOMAIN exporter.rows /\ DOMAIN exporter.cfg = ConfigNames /\ IsRow(exporter.rows[c])
      /\ c \notin exporter.changed =>
           exporter.cfg = book[c].cfg /\ exporter.rows[c] = book[c] /\ IsRow(book[c])
      /\ DOMAIN exporter.rows \subseteq Channels
  BY <1>1 DEF ExportAgrees
<1>3. /\ IsRow(r) /\ r.cfg = exporter.cfg /\ r.server = exporter.rows[c].server /\ r.on = exporter.rows[c].on
      /\ r.headless = exporter.rows[c].headless
  BY <1>2 DEF IsRow, RowNames
<1> HIDE DEF r
<1>4. IsRow(u)
  BY <1>3, UpdatedIs
<1>5. ASSUME c \notin exporter.changed
      PROVE  LET v == Updated(book[c], Queued(c))
             IN  /\ u.server = v.server /\ u.cfg.server = v.cfg.server /\ u.on = v.on
                 /\ u.cfg.password = v.cfg.password /\ u.headless = v.headless
  <2> DEFINE v == Updated(book[c], Queued(c))
  <2>1. /\ r.cfg = book[c].cfg /\ r.server = book[c].server /\ r.on = book[c].on
        /\ r.headless = book[c].headless /\ IsRow(book[c])
    BY <1>2, <1>3, <1>5
  <2>2. u.server = v.server
    BY <1>3, <2>1, UpdatedIs
  <2>3. u.cfg.server = v.cfg.server
    BY <1>3, <2>1, UpdatedIs
  <2>4. u.on = v.on /\ u.headless = v.headless
    BY <1>3, <2>1, UpdatedIs
  <2>5. u.cfg.password = v.cfg.password
    BY <1>3, <2>1, UpdatedIs
  <2> QED
    BY <2>2, <2>3, <2>4, <2>5
<1> HIDE DEF u
<1>6. /\ IsRow(s) /\ s.server = u.server /\ s.cfg.server = u.cfg.server /\ s.on = u.on
      /\ s.headless = u.headless /\ s.cfg.note = ""
      /\ s.cfg.password = IF s.headless THEN u.cfg.password ELSE ""
  BY <1>4 DEF Stripped, IsRow, RowNames, ConfigNames
<1> HIDE DEF s
<1>7. c \notin exporter.changed => RowRead(s, Updated(book[c], Waiting(queued[c])))
  BY <1>5, <1>6 DEF RowRead, Queued, Waiting
<1>8. /\ exporter'.at = "rules" /\ exporter'.id = c /\ exporter'.row = s /\ exporter'.rows = exporter.rows
      /\ exporter'.changed = exporter.changed /\ exporter'.doc = exporter.doc
      /\ DOMAIN exporter' = {"at", "rows", "done", "changed", "doc", "id", "row"}
  BY <1>1
<1>9. ExportNames' = {"at", "rows", "done", "changed", "doc", "id", "row"}
  BY <1>8 DEF ExportNames
<1> HIDE DEF c
<1>10. (\A d : Known(d)' = Known(d)) /\ UNCHANGED <<book, queued>>
  BY <1>1 DEF Known
<1>11. /\ \A d \in DOMAIN exporter.rows : IsRow(exporter.rows[d])
       /\ \A d \in DOMAIN exporter.rows \ exporter.changed : Known(d) /\ exporter.rows[d] = book[d]
  BY <1>1 DEF ExportAgrees
<1>12. c \notin exporter'.changed => RowRead(exporter'.row, Updated(book'[exporter'.id], Waiting(queued'[exporter'.id])))
  BY <1>7, <1>8, <1>10
<1>13. ExportAgrees'
  BY <1>2, <1>6, <1>8, <1>9, <1>10, <1>11, <1>12 DEF ExportAgrees
<1> QED
  BY <1>1, <1>8, <1>13, DocumentsStand

\* The entry that an export writes brings back what was asked.
LEMMA ExportWrites ==
  ASSUME ChannelsFit, ExportAgrees, DocumentsAgree, ExportRules
  PROVE  ExportAgrees' /\ DocumentsAgree'
<1> DEFINE c == exporter.id
           r == exporter.row
           made == [name |-> r.name, headless |-> r.headless, server |-> r.server,
                    cfg |-> r.cfg, on |-> r.on,
                    rules |-> IF Known(c) THEN book[c].rules ELSE {}, faults |-> {},
                    settled |-> c \notin exporter.changed /\ queued[c].phase # "applying"
                                 /\ OneServer(book[c]),
                    asked |-> wish[c]]
           last == exporter.done \cup {c} = DOMAIN exporter.rows
<1>1. /\ exporter' = [at |-> IF last THEN "idle" ELSE "next", rows |-> IF last THEN << >> ELSE exporter.rows,
                      done |-> IF last THEN {} ELSE exporter.done \cup {c},
                      changed |-> IF last THEN {} ELSE exporter.changed,
                      doc |-> exporter.doc \cup {made}]
      /\ exporter.at = "rules" /\ UNCHANGED <<book, queued, importer>>
  BY DEF ExportRules
<1>2. /\ c \in Channels /\ IsRow(r)
      /\ c \notin exporter.changed => Known(c) /\ RowRead(r, Updated(book[c], Waiting(queued[c])))
      /\ DOMAIN exporter.rows \subseteq Channels /\ \A d \in DOMAIN exporter.rows : IsRow(exporter.rows[d])
      /\ \A d \in DOMAIN exporter.rows \ exporter.changed : Known(d) /\ exporter.rows[d] = book[d]
  BY <1>1 DEF ExportAgrees
<1>3. /\ made.cfg = r.cfg /\ made.server = r.server /\ made.on = r.on /\ made.headless = r.headless
      /\ made.asked = wish[c]
      /\ made.settled <=> c \notin exporter.changed /\ queued[c].phase # "applying" /\ OneServer(book[c])
  OBVIOUS
<1> HIDE DEF made, last
<1>4. ExportAgrees'
  <2>1. /\ exporter'.at = (IF last THEN "idle" ELSE "next")
        /\ ~last => exporter'.rows = exporter.rows /\ exporter'.changed = exporter.changed
        /\ DOMAIN exporter' = {"at", "rows", "done", "changed", "doc"}
    BY <1>1
  <2>2. ExportNames' = {"at", "rows", "done", "changed", "doc"}
    BY <2>1 DEF ExportNames
  <2>3. \A d : Known(d)' = Known(d)
    BY <1>1 DEF Known
  <2> QED
    BY <1>1, <1>2, <2>1, <2>2, <2>3 DEF ExportAgrees
<1>5. ASSUME made.settled
      PROVE  /\ Effective(PlanRow(made)) = [made.asked EXCEPT !.password = IF made.headless THEN @ ELSE ""]
             /\ PlanRow(made).cfg.note = "" /\ PlanRow(made).status = "stopped"
  <2> DEFINE q == Waiting(queued[c])
             u == Updated(book[c], q)
             x == PlanRow(made)
  <2>1. Known(c) /\ RowRead(r, u) /\ OneServer(book[c]) /\ queued[c].phase # "applying"
    BY <1>2, <1>3, <1>5
  <2>2. IsRow(book[c]) /\ WishFits(book[c], q, wish[c]) /\ DOMAIN wish[c] = Fields
    <3>1. q = Pending(queued[c])
      BY <2>1 DEF Waiting, Pending
    <3> HIDE DEF q, u
    <3> QED
      BY <1>2, <2>1, <3>1 DEF ChannelsFit, Fits, Known
  <2> HIDE DEF q
  <2>3. /\ u.server = (IF "server" \in DOMAIN q THEN q["server"] ELSE book[c].server)
        /\ u.cfg.server = (IF "server" \in DOMAIN q THEN q["server"] ELSE book[c].cfg.server)
    BY <2>2, UpdatedIs
  <2>4. u.cfg.password = (IF "password" \in DOMAIN q THEN q["password"] ELSE book[c].cfg.password)
    BY <2>2, UpdatedIs
  <2>5. u.on = (IF "on" \in DOMAIN q THEN q["on"] ELSE book[c].on)
    BY <2>2, UpdatedIs
  <2> HIDE DEF u
  <2>6. /\ x.server = (IF made.server = "" THEN made.cfg.server ELSE made.server) /\ x.cfg = made.cfg
        /\ x.on = made.on /\ x.status = "stopped"
    BY DEF PlanRow
  <2> HIDE DEF x
  <2>7. Effective(x).server = wish[c]["server"]
    <3>1. Effective(x).server = (IF u.cfg.server = "" THEN u.server ELSE u.cfg.server)
      <4>1. Effective(x).server = (IF x.cfg.server = "" THEN x.server ELSE x.cfg.server)
        BY EffectiveIs
      <4>2. made.cfg.server = u.cfg.server /\ made.server = u.server
        BY <1>3, <2>1 DEF RowRead
      <4> QED
        BY <2>6, <4>1, <4>2
    <3> QED
      BY <2>1, <2>2, <2>3, <3>1 DEF WishFits, OneServer
  <2>8. Effective(x).password = IF made.headless THEN wish[c]["password"] ELSE ""
    <3>1. Effective(x).password = IF made.headless THEN u.cfg.password ELSE ""
      <4>1. Effective(x).password = x.cfg.password
        BY EffectiveIs
      <4>2. made.cfg.password = IF made.headless THEN u.cfg.password ELSE ""
        BY <1>3, <2>1 DEF RowRead
      <4> QED
        BY <2>6, <4>1, <4>2
    <3> QED
      BY <2>2, <2>4, <3>1 DEF WishFits
  <2>9. Effective(x).on = wish[c]["on"]
    BY ZenonT(40), <1>3, <2>1, <2>2, <2>5, <2>6, EffectiveIs DEF RowRead, WishFits
  <2>10. Effective(x) = [wish[c] EXCEPT !.password = IF made.headless THEN @ ELSE ""]
    <3> DEFINE y == [wish[c] EXCEPT !.password = IF made.headless THEN @ ELSE ""]
    <3>1. /\ DOMAIN y = Fields /\ y["server"] = wish[c]["server"] /\ y["on"] = wish[c]["on"]
          /\ y["password"] = IF made.headless THEN wish[c]["password"] ELSE ""
      BY <2>2 DEF Fields
    <3>2. y = [f \in Fields |-> y[f]]
      BY <3>1
    <3> HIDE DEF y
    <3>3. \A f \in Fields : Effective(x)[f] = y[f]
      BY <2>7, <2>8, <2>9, <3>1 DEF Fields
    <3>4. Effective(x) = [f \in Fields |-> Effective(x)[f]]
      BY DEF Effective, Fields
    <3>5. Effective(x) = y
      BY <3>2, <3>3, <3>4
    <3> QED
      BY <3>5 DEF y
  <2>11. x.cfg.note = ""
    BY <1>3, <2>1, <2>6 DEF RowRead
  <2> QED
    BY <1>3, <2>6, <2>10, <2>11 DEF x
<1>6. exporter'.doc = exporter.doc \cup {made}
  BY <1>1
<1>7. DOMAIN made.cfg = ConfigNames
  BY <1>2, <1>3 DEF IsRow
<1> HIDE DEF c, r
<1>8. \A e \in exporter'.doc : DOMAIN e.cfg = ConfigNames
  BY <1>6, <1>7 DEF DocumentsAgree
<1>9. BackupRestores'
  <2> SUFFICES ASSUME NEW e \in exporter'.doc, e.settled
               PROVE  /\ Effective(PlanRow(e)) = [e.asked EXCEPT !.password = IF e.headless THEN @ ELSE ""]
                      /\ PlanRow(e).cfg.note = "" /\ PlanRow(e).status = "stopped"
    BY DEF BackupRestores
  <2>1. CASE e = made
    BY <1>5, <2>1
  <2>2. CASE e \in exporter.doc
    BY <2>2 DEF DocumentsAgree, BackupRestores
  <2> QED
    BY <1>6, <2>1, <2>2
<1>10. DocumentsAgree'
  BY <1>1, <1>8, <1>9 DEF DocumentsAgree
<1> QED
  BY <1>4, <1>10

\* Every step of the book keeps what an export has read and what documents say.
LEMMA ExportsKeep ==
  ASSUME BookInv, [BookNext]_bookVars
  PROVE  ExportAgrees' /\ DocumentsAgree'
<1>1. ChannelsFit /\ LocksAgree /\ ExportAgrees /\ DocumentsAgree
  BY DEF BookInv
<1>2. ASSUME UNCHANGED <<book, queued, exporter, importer>> PROVE ExportAgrees' /\ DocumentsAgree'
  BY <1>1, <1>2, ExportStands, DocumentsStand
<1>3. ASSUME NEW c \in Channels, OnlyAt(c), Notice(c), UNCHANGED importer PROVE ExportAgrees' /\ DocumentsAgree'
  <2>1. \/ exporter' = exporter /\ exporter.at = "idle"
        \/ exporter.at # "idle" /\ exporter' = [exporter EXCEPT !.changed = @ \cup {c}]
    BY <1>3 DEF Notice
  <2>2. \A d \in Channels : exporter.at # "idle" /\ Known(d) /\ d \notin exporter'.changed =>
            book'[d] = book[d] /\ queued'[d] = queued[d]
    <3>1. exporter.at # "idle" => "changed" \in DOMAIN exporter
      BY <1>1 DEF ExportAgrees, ExportNames
    <3>2. exporter.at # "idle" => c \in exporter'.changed
      BY <2>1, <3>1
    <3> QED
      BY <1>3, <3>2 DEF OnlyAt
  <2>3. ExportAgrees' /\ exporter'.doc = exporter.doc
    BY <1>1, <2>1, <2>2, ExportStands
  <2> QED
    BY <1>1, <1>3, <2>3, DocumentsStand
<1>4. ASSUME NEW w \in Writers, WriterStep(w) PROVE ExportAgrees' /\ DocumentsAgree'
  <2>1. ASSUME NEW c \in Channels, NEW n \in Names, NEW h \in BOOLEAN, NEW s \in Servers, NEW p \in Passwords,
               Create(w, c, n, h, s, p)
        PROVE  ExportAgrees' /\ DocumentsAgree'
    <3>1. OnlyAt(c) /\ Notice(c) /\ UNCHANGED importer
      BY <1>1, <2>1, ArrivalKeeps DEF Create
    <3> QED
      BY <1>3, <3>1
  <2>2. CASE \/ Created(w) \/ NoteSaved(w) \/ FileSaved(w) \/ NotApplied(w) \/ Reloaded(w)
             \/ \E waits \in BOOLEAN : Applied(w, waits)
    <3> DEFINE c == work[w].id
    <3>1. c \in Channels /\ OnlyAt(c)
      BY <1>1, <2>2, WriterSaves
    <3>2. UNCHANGED importer /\ (Notice(c) \/ UNCHANGED <<book, queued, exporter>>)
      BY <2>2 DEF Created, NoteSaved, FileSaved, NotApplied, Reloaded, Applied
    <3> HIDE DEF c
    <3> QED
      BY <1>2, <1>3, <3>1, <3>2
  <2>3. CASE \E c \in Channels : NoteGet(w, c)
    BY <1>2, <2>3 DEF NoteGet
  <2>4. ASSUME NEW c \in Channels, StartAsked(w, c) PROVE ExportAgrees' /\ DocumentsAgree'
    <3>1. OnlyAt(c) /\ Notice(c) /\ UNCHANGED importer
      BY <1>1, <2>4, StartFits DEF StartAsked
    <3> QED
      BY <1>3, <3>1
  <2>5. CASE \E t \in Texts, given \in BOOLEAN : NotePut(w, t, given)
    BY <1>2, <2>5 DEF NotePut
  <2>6. CASE \E c \in Channels, t \in Texts : FileAsked(w, c, t)
    BY <1>2, <2>6 DEF FileAsked
  <2>7. ASSUME NEW c \in Channels, NEW e \in Edits, NEW offline \in BOOLEAN, Edit(w, c, e, offline)
        PROVE  ExportAgrees' /\ DocumentsAgree'
    <3>1. OnlyAt(c) /\ Notice(c) /\ UNCHANGED importer
      BY <1>1, <2>7, EditKeeps DEF Edit
    <3> QED
      BY <1>3, <3>1
  <2> QED
    BY <1>4, <2>1, <2>2, <2>3, <2>4, <2>5, <2>6, <2>7 DEF WriterStep
<1>5. ASSUME NEW c \in Channels, ChannelStep(c) PROVE ExportAgrees' /\ DocumentsAgree'
  <2>1. OnlyAt(c) /\ Notice(c) /\ UNCHANGED importer
    BY <1>1, <1>5, ChannelKeeps DEF ChannelStep, Cancelled, Restored, LoginProved, Stopped, Deleted
  <2> QED
    BY <1>3, <2>1
<1>6. CASE Export
  BY <1>1, <1>6, ExportReads, ExportStrips, ExportWrites DEF Export
<1>7. CASE ImportSaves
  <2>1. /\ exporter' = exporter /\ importer' = AtRest
        /\ \A d \in Channels : Known(d) => book'[d] = book[d] /\ queued'[d] = queued[d]
    BY <1>1, <1>7, ImportAdds DEF ImportSaves
  <2>2. ExportAgrees'
    BY <1>1, <2>1, ExportStands
  <2>3. DocumentsAgree'
    BY <1>1, <2>1 DEF DocumentsAgree, BackupRestores, AtRest
  <2> QED
    BY <2>2, <2>3
<1>8. ASSUME NEW doc, ImportReads(doc), \A e \in doc : DOMAIN e.cfg = ConfigNames
      PROVE  ExportAgrees' /\ DocumentsAgree'
  <2>1. UNCHANGED <<book, queued, exporter>>
    BY <1>8 DEF ImportReads
  <2>2. importer'.at = "planned" /\ importer'.plans \subseteq doc
    BY <1>8 DEF ImportReads
  <2>3. ExportAgrees'
    BY <1>1, <2>1, ExportStands
  <2>4. DocumentsAgree'
    BY <1>1, <1>8, <2>1, <2>2 DEF DocumentsAgree, BackupRestores
  <2> QED
    BY <2>3, <2>4
<1>9. CASE Import
  <2>1. \A e \in exporter.doc : DOMAIN e.cfg = ConfigNames
    BY <1>1 DEF DocumentsAgree
  <2>2. \A e \in Foreign : DOMAIN e.cfg = ConfigNames
    BY BookAssumption DEF ConfigNames
  <2> QED
    BY <1>7, <1>8, <1>9, <2>1, <2>2 DEF Import
<1>10. CASE UNCHANGED bookVars
  BY <1>2, <1>10 DEF bookVars
<1> QED
  BY <1>4, <1>5, <1>6, <1>9, <1>10 DEF BookNext

\* The empty book satisfies the invariant.
LEMMA BookInvInit == BookInit => BookInv
<1> SUFFICES ASSUME BookInit PROVE BookInv
  OBVIOUS
<1>1. ChannelsFit
  <2>1. /\ book = [c \in Channels |-> NoRow] /\ queued = [c \in Channels |-> NoQueue]
        /\ wish = [c \in Channels |-> [server |-> "", password |-> "", on |-> TRUE]]
    BY DEF BookInit
  <2>2. NoQueue.phase = "none"
    BY DEF NoQueue
  <2>3. \A c \in Channels : Fits(NoRow, NoQueue, [server |-> "", password |-> "", on |-> TRUE])
    BY <2>2 DEF Fits, QueueShaped, Fields
  <2> QED
    BY <2>1, <2>3 DEF ChannelsFit
<1>2. LocksAgree
  BY DEF BookInit, LocksAgree, WriterFits, Holds, AtRest
<1>3. ExportAgrees
  BY DEF BookInit, ExportAgrees
<1>4. DocumentsAgree
  BY DEF BookInit, DocumentsAgree, BackupRestores, AtRest
<1> QED
  BY <1>1, <1>2, <1>3, <1>4 DEF BookInv

\* Only a save of the note changes it, and only a save of the file that.
LEMMA WritersApart ==
  ASSUME BookInv, [BookNext]_bookVars, NEW c \in Channels, Known(c), Known(c)'
  PROVE  /\ book'[c].cfg.note # book[c].cfg.note =>
              \E w \in Writers : /\ work[w].at = "put" /\ work[w].id = c /\ work'[w] = AtRest
                                 /\ book'[c].cfg.note = work[w].text
                                 /\ work[w].asks => work[w].shown = book[c].cfg.note
         /\ book'[c].cfg.file # book[c].cfg.file =>
              \E w \in Writers : work[w].at = "file" /\ work[w].id = c /\ work'[w] = AtRest
<1> DEFINE Same == book'[c].cfg.note = book[c].cfg.note /\ book'[c].cfg.file = book[c].cfg.file
           ByNote == \E w \in Writers : /\ work[w].at = "put" /\ work[w].id = c /\ work'[w] = AtRest
                                        /\ book'[c].cfg.note = work[w].text
                                        /\ work[w].asks => work[w].shown = book[c].cfg.note
                                        /\ book'[c].cfg.file = book[c].cfg.file
           ByFile == \E w \in Writers : /\ work[w].at = "file" /\ work[w].id = c /\ work'[w] = AtRest
                                        /\ book'[c].cfg.note = book[c].cfg.note
<1> SUFFICES Same \/ ByNote \/ ByFile
  OBVIOUS
<1>1. /\ ChannelsFit /\ LocksAgree /\ DocumentsAgree /\ DOMAIN book = Channels /\ DOMAIN work = Writers
      /\ IsRow(book[c])
  BY DEF BookInv, ChannelsFit, LocksAgree, Fits, Known
<1>2. ASSUME NEW d, OnlyAt(d), d # c PROVE Same
  BY <1>2 DEF OnlyAt
<1>3. ASSUME NEW e, book'[c] = Updated(book[c], e) PROVE Same
  BY <1>1, <1>3, UpdatedIs
<1>4. ASSUME NEW w \in Writers, WriterStep(w) PROVE Same \/ ByNote \/ ByFile
  <2>1. ASSUME NEW d \in Channels, NEW n \in Names, NEW h \in BOOLEAN, NEW s \in Servers, NEW p \in Passwords,
               Create(w, d, n, h, s, p)
        PROVE  Same
    BY <1>1, <1>2, <2>1, ArrivalKeeps DEF Create
  <2>2. CASE Created(w)
    <3>1. book'[c].cfg = book[c].cfg
      BY <1>1, <2>2 DEF Created, IsRow, RowNames
    <3> QED
      BY <3>1
  <2>3. CASE NoteSaved(w)
    <3>1. CASE UNCHANGED book
      BY <3>1
    <3>2. CASE ~UNCHANGED book
      <4>1. /\ book' = [book EXCEPT ![work[w].id] = SetField(w, @, "note", work[w].text)]
            /\ work[w].asks => work[w].shown = book[work[w].id].cfg.note
            /\ work[w].at = "put" /\ work' = [work EXCEPT ![w] = AtRest]
        BY <2>3, <3>2 DEF NoteSaved, Present
      <4>2. CASE work[w].id = c
        <5>1. book'[c] = [book[c] EXCEPT !.cfg = [book[c].cfg EXCEPT !["note"] = work[w].text]]
          BY <1>1, <4>1, <4>2 DEF SetField, Present
        <5>2. book'[c].cfg.note = work[w].text /\ book'[c].cfg.file = book[c].cfg.file
          BY <1>1, <5>1 DEF IsRow, RowNames, ConfigNames
        <5> QED
          BY <1>1, <4>1, <4>2, <5>2
      <4>3. CASE work[w].id # c
        BY <1>1, <4>1, <4>3
      <4> QED
        BY <4>2, <4>3
    <3> QED
      BY <3>1, <3>2
  <2>4. CASE FileSaved(w)
    <3>1. /\ book' = [book EXCEPT ![work[w].id] = SetField(w, @, "file", work[w].text)]
          /\ work[w].at = "file" /\ work' = [work EXCEPT ![w] = AtRest]
      BY <2>4 DEF FileSaved
    <3>2. CASE work[w].id = c
      <4>1. book'[c] = [book[c] EXCEPT !.cfg = [book[c].cfg EXCEPT !["file"] = work[w].text]]
        BY <1>1, <3>1, <3>2 DEF SetField, Present
      <4>2. book'[c].cfg.note = book[c].cfg.note
        BY <1>1, <4>1 DEF IsRow, RowNames, ConfigNames
      <4> QED
        BY <1>1, <3>1, <3>2, <4>2
    <3>3. CASE work[w].id # c
      BY <1>1, <3>1, <3>3
    <3> QED
      BY <3>2, <3>3
  <2>5. CASE Reloaded(w)
    <3>1. book'[c].cfg = book[c].cfg
      BY <1>1, <2>5 DEF Reloaded, IsRow, RowNames
    <3> QED
      BY <3>1
  <2>6. ASSUME NEW waits \in BOOLEAN, Applied(w, waits) PROVE Same
    <3> DEFINE u == Updated(book[work[w].id], queued[work[w].id].fields)
    <3>1. book' = [book EXCEPT ![work[w].id] =
              [u EXCEPT !.box = TRUE, !.status = (IF work[w].start THEN "running" ELSE "stopped")]]
      BY <2>6 DEF Applied
    <3>2. CASE work[w].id = c
      <4>1. IsRow(u) /\ u.cfg.note = book[c].cfg.note /\ u.cfg.file = book[c].cfg.file
        BY <1>1, <3>2, UpdatedIs
      <4> HIDE DEF u
      <4>2. book'[c].cfg = u.cfg
        BY <1>1, <3>1, <3>2, <4>1 DEF IsRow, RowNames
      <4> QED
        BY <4>1, <4>2
    <3>3. CASE work[w].id # c
      BY <1>1, <3>1, <3>3
    <3> QED
      BY <3>2, <3>3
  <2>7. ASSUME NEW d \in Channels, NEW e \in Edits, NEW offline \in BOOLEAN, Edit(w, d, e, offline) PROVE Same
    <3>1. book'[c] = book[c] \/ \E x : book'[c] = Updated(book[c], x)
      <4>1. CASE UNCHANGED book
        BY <4>1
      <4>2. CASE ~UNCHANGED book
        <5>1. \E x : book' = [book EXCEPT ![d] = Updated(@, x)]
          BY <2>7, <4>2 DEF Edit
        <5> QED
          BY <1>1, <5>1
      <4> QED
        BY <4>1, <4>2
    <3> QED
      BY <1>3, <3>1
  <2>8. CASE UNCHANGED book
    BY <2>8
  <2>9. \/ \E d \in Channels, n \in Names, h \in BOOLEAN, s \in Servers, p \in Passwords : Create(w, d, n, h, s, p)
        \/ Created(w) \/ NoteSaved(w) \/ FileSaved(w) \/ Reloaded(w)
        \/ \E waits \in BOOLEAN : Applied(w, waits)
        \/ \E d \in Channels, e \in Edits, offline \in BOOLEAN : Edit(w, d, e, offline)
        \/ UNCHANGED book
    BY <1>4 DEF WriterStep, NotApplied, NoteGet, StartAsked, NotePut, FileAsked
  <2> QED
    BY <2>1, <2>2, <2>3, <2>4, <2>5, <2>6, <2>7, <2>8, <2>9
<1>5. ASSUME NEW d \in Channels, ChannelStep(d) PROVE Same
  <2>1. CASE d # c
    BY <1>1, <1>2, <1>5, <2>1, ChannelKeeps
  <2>2. CASE d = c
    <3>1. CASE Cancelled(c) \/ LoginProved(c)
      BY <3>1 DEF Cancelled, LoginProved
    <3>2. CASE Restored(c)
      <4>1. book'[c] = Updated(book[c], queued[c].old)
        BY <1>1, <3>2 DEF Restored
      <4> QED
        BY <1>3, <4>1
    <3>3. CASE Stopped(c)
      <4>1. book'[c].cfg = book[c].cfg
        BY <1>1, <3>3 DEF Stopped, IsRow, RowNames
      <4> QED
        BY <4>1
    <3>4. CASE Deleted(c)
      BY <1>1, <3>4 DEF Deleted, Known
    <3> QED
      BY <1>5, <2>2, <3>1, <3>2, <3>3, <3>4 DEF ChannelStep
  <2> QED
    BY <2>1, <2>2
<1>6. CASE ImportSaves
  BY <1>1, <1>6, ImportAdds
<1>7. CASE UNCHANGED book
  BY <1>7
<1>8. \/ \E w \in Writers : WriterStep(w)
      \/ \E d \in Channels : ChannelStep(d)
      \/ ImportSaves \/ UNCHANGED book
  BY DEF BookNext, Export, ExportLists, ExportConfig, ExportQueue, ExportRules, Import, ImportReads, bookVars
<1> QED
  BY <1>4, <1>5, <1>6, <1>7, <1>8

\* What is taken back goes to what it was.
LEMMA RestoringLeadsBack ==
  ASSUME BookInv, NEW c \in Channels, Restored(c), queued[c].one
  PROVE  [Effective(book'[c]) EXCEPT !.password = ""] = [queued[c].was EXCEPT !.password = ""]
<1> DEFINE u == Updated(book[c], queued[c].old)
           q == queued[c]
<1>1. DOMAIN book = Channels /\ q.phase = "applied" /\ Fits(book[c], q, wish[c])
  BY DEF BookInv, ChannelsFit, Restored
<1>2. book'[c] = u
  BY <1>1 DEF Restored
<1>3. Effective(u).server = q.was.server /\ Effective(u).on = q.was.on /\ DOMAIN q.was = Fields
  BY <1>1 DEF Fits, LeadsBack, QueueShaped
<1> HIDE DEF u, q
<1> DEFINE x == [Effective(u) EXCEPT !.password = ""]
           y == [q.was EXCEPT !.password = ""]
<1>4. /\ DOMAIN x = Fields /\ x["server"] = Effective(u).server /\ x["on"] = Effective(u).on /\ x["password"] = ""
  BY EffectiveIs DEF Fields
<1>5. /\ DOMAIN y = Fields /\ y["server"] = q.was.server /\ y["on"] = q.was.on /\ y["password"] = ""
  BY <1>3 DEF Fields
<1>6. x = [f \in Fields |-> x[f]] /\ y = [f \in Fields |-> y[f]]
  BY <1>4, <1>5
<1> HIDE DEF x, y
<1>7. \A f \in Fields : x[f] = y[f]
  BY <1>3, <1>4, <1>5 DEF Fields
<1>8. x = y
  BY <1>6, <1>7
<1> QED
  BY <1>2, <1>8 DEF x, y, q

\* Every step of the book keeps its invariant.
LEMMA BookKeeps ==
  ASSUME BookInv, [BookNext]_bookVars
  PROVE  BookInv'
BY ChannelsKeep, LocksKeep, ExportsKeep DEF BookInv

\* Every row fits its queue and its wish, the locks agree, and an export under
\* way has read what is there, in every state.
THEOREM BookInvariance == BookSpec => []BookInv
<1>1. BookInv /\ [BookNext]_bookVars => BookInv'
  BY BookKeeps
<1> QED
  BY <1>1, BookInvInit, PTL DEF BookSpec

\* A backup that nothing disturbed gives back what each user last asked for;
\* notes and files change only by their own saves; and a change that is taken
\* back leaves a channel with one server as it connected before, but for its
\* password (config_export and config_import in api.rs, set_config_field in
\* store.rs, restore in replacement_store.rs).
THEOREM SettingsAreKept == BookSpec => SettingsKept
<1>1. BookInv => BackupRestores
  BY DEF BookInv, DocumentsAgree
<1>2. BookSpec => []BackupRestores
  BY <1>1, BookInvariance, PTL
<1> DEFINE Apart(c) ==
             /\ book'[c].cfg.note # book[c].cfg.note =>
                  \E w \in Writers : /\ work[w].at = "put" /\ work[w].id = c /\ work'[w] = AtRest
                                     /\ book'[c].cfg.note = work[w].text
                                     /\ work[w].asks => work[w].shown = book[c].cfg.note
             /\ book'[c].cfg.file # book[c].cfg.file =>
                  \E w \in Writers : work[w].at = "file" /\ work[w].id = c /\ work'[w] = AtRest
           Back(c) == Restored(c) /\ queued[c].one =>
             [Effective(book'[c]) EXCEPT !.password = ""] = [queued[c].was EXCEPT !.password = ""]
<1>3. BookInv /\ [BookNext]_bookVars => [\A c \in Channels : Known(c) /\ Known(c)' => Apart(c)]_bookVars
  BY WritersApart
<1>4. BookInv /\ [BookNext]_bookVars => [\A c \in Channels : Back(c)]_bookVars
  BY RestoringLeadsBack
<1>5. BookSpec => WritersKeepApart
  BY <1>3, BookInvariance, PTL DEF BookSpec, WritersKeepApart
<1>6. BookSpec => RestoreGivesBack
  BY <1>4, BookInvariance, PTL DEF BookSpec, RestoreGivesBack
<1> QED
  BY <1>2, <1>5, <1>6 DEF SettingsKept

\* Somebody carries out every replacement that is under way, and what waits for a
\* start waits at a channel that has a container.
Attended(c) == queued[c].phase = "applying" => \E w \in Writers : work[w].at = "replace" /\ work[w].id = c
Boxed(c) == queued[c].phase = "queued" => book[c].box
QueuesServed == \A c \in Channels : Attended(c) /\ Boxed(c)

\* With it the book has its types.
LEMMA BookTypes == BookInv /\ QueuesServed => BookTypeOK
<1> SUFFICES ASSUME BookInv, QueuesServed PROVE BookTypeOK
  OBVIOUS
<1>1. \A w \in Writers : WriterFits(w)
  BY DEF BookInv, LocksAgree
<1>2. \A c \in Channels : QueueShaped(queued[c]) /\ (book[c] = NoRow => queued[c].phase = "none")
  BY DEF BookInv, ChannelsFit, Fits
<1>3. \A w \in Writers : work[w].at \in {"idle", "page", "put", "file", "creating", "replace", "reload"}
  BY <1>1 DEF WriterFits
<1>4. ASSUME NEW c \in Channels
      PROVE  /\ queued[c].phase \in {"none", "queued", "applying", "applied"}
             /\ queued[c].phase = "applying" <=> \E w \in Writers : work[w].at = "replace" /\ work[w].id = c
             /\ queued[c] # NoQueue => Known(c)
             /\ queued[c].phase = "queued" => book[c].box
  <2>1. QueueShaped(queued[c]) /\ (book[c] = NoRow => queued[c].phase = "none")
    BY <1>2
  <2>2. queued[c].phase \in {"none", "queued", "applying", "applied"} /\ (queued[c] # NoQueue => Known(c))
    BY <2>1 DEF QueueShaped, Known
  <2>3. Attended(c) /\ Boxed(c)
    BY DEF QueuesServed
  <2>4. (\E w \in Writers : work[w].at = "replace" /\ work[w].id = c) => queued[c].phase = "applying"
    BY <1>1 DEF WriterFits
  <2> QED
    BY <2>2, <2>3, <2>4 DEF Attended, Boxed
<1>5. exporter.at \in {"idle", "next", "config", "rules"} /\ importer.at \in {"idle", "planned"}
  BY DEF BookInv, ExportAgrees, DocumentsAgree
<1> QED
  BY <1>3, <1>4, <1>5 DEF BookTypeOK

\* A row that stays, or that is updated, keeps its container.
LEMMA BoxStays ==
  ASSUME NEW r, IsRow(r), NEW e, NEW w, NEW f \in {"note", "file"}, NEW v
  PROVE  Updated(r, e).box = r.box /\ SetField(w, r, f, v).box = r.box
BY DEF IsRow, RowNames, Updated, SetField

\* What a writer finishes.
LEMMA FinishServes ==
  ASSUME ChannelsFit, LocksAgree, QueuesServed, NEW w \in Writers, NEW c, c = work[w].id,
         \/ Created(w) \/ NoteSaved(w) \/ FileSaved(w) \/ NotApplied(w) \/ Reloaded(w)
         \/ \E waits \in BOOLEAN : Applied(w, waits)
  PROVE  QueuesServed'
<1>1. work[w].at # "idle" /\ work[w].at # "page"
  BY DEF Created, NoteSaved, FileSaved, NotApplied, Reloaded, Applied
<1>2. c \in Channels /\ WriterFits(w)
  BY <1>1 DEF LocksAgree, WriterFits
<1>3. OnlyAt(c)
  BY WriterSaves
<1>4. /\ Fits(book[c], queued[c], wish[c]) /\ DOMAIN work = Writers
      /\ DOMAIN book = Channels /\ DOMAIN queued = Channels
  BY <1>2 DEF ChannelsFit, LocksAgree
<1>5. Known(c) => IsRow(book[c])
  BY <1>4 DEF Fits, Known
<1>6. \A v \in Writers \ {w} : work'[v] = work[v]
  BY <1>4 DEF Created, NoteSaved, FileSaved, NotApplied, Reloaded, Applied
<1>7. Attended(c)' /\ Boxed(c)'
  <2>1. CASE NotApplied(w) \/ \E waits \in BOOLEAN : Applied(w, waits)
    <3>1. queued'[c].phase \notin {"queued", "applying"}
      <4>1. queued[c].phase = "applying"
        BY <1>2, <2>1 DEF NotApplied, Applied, WriterFits
      <4>2. DOMAIN queued[c] = QueueNames
        BY <1>4, <4>1 DEF Fits, QueueShaped
      <4> DEFINE p == [queued[c] EXCEPT !.phase = "applied"]
      <4>3. p.phase = "applied" /\ NoQueue.phase = "none"
        BY SMTT(30), <4>2 DEF QueueNames, NoQueue
      <4>4. queued'[c] = NoQueue \/ queued'[c] = p
        BY <1>2, <1>4, <2>1 DEF NotApplied, Applied
      <4> HIDE DEF p
      <4> QED
        BY SMTT(30), <4>3, <4>4
    <3> QED
      BY <3>1 DEF Attended, Boxed
  <2>2. CASE Created(w) \/ FileSaved(w) \/ Reloaded(w)
    <3>1. queued'[c] = queued[c] /\ work[w].at \in {"creating", "file", "reload"}
      BY <2>2 DEF Created, FileSaved, Reloaded
    <3>2. queued[c].phase # "applying" /\ Known(c)
      BY <1>2, <3>1 DEF WriterFits, Holds
    <3>3. book[c].box => book'[c].box
      <4>1. IsRow(book[c])
        BY <1>5, <3>2
      <4>2. CASE Created(w)
        BY <1>2, <1>4, <4>1, <4>2 DEF Created, IsRow, RowNames
      <4>3. CASE FileSaved(w)
        <5>1. book'[c] = SetField(w, book[c], "file", work[w].text)
          BY <1>2, <1>4, <4>3 DEF FileSaved
        <5> QED
          BY <4>1, <5>1, BoxStays
      <4>4. CASE Reloaded(w)
        BY <1>2, <1>4, <4>1, <4>4 DEF Reloaded, IsRow, RowNames
      <4> QED
        BY <2>2, <4>2, <4>3, <4>4
    <3> QED
      BY <1>2, <3>1, <3>2, <3>3 DEF Attended, Boxed, QueuesServed
  <2>3. CASE NoteSaved(w)
    <3>1. queued' = queued /\ work[w].at = "put"
      BY <2>3 DEF NoteSaved
    <3>2. Attended(c)'
      BY <1>2, <1>6, <3>1 DEF Attended, QueuesServed
    <3>3. Boxed(c)'
      <4>1. CASE UNCHANGED book
        BY <1>2, <3>1, <4>1 DEF Boxed, QueuesServed
      <4>2. CASE Known(c) /\ book'[c] = SetField(w, book[c], "note", work[w].text)
        BY <1>2, <1>5, <3>1, <4>2, BoxStays DEF Boxed, QueuesServed
      <4> QED
        BY <1>2, <1>4, <2>3, <4>1, <4>2 DEF NoteSaved
    <3> QED
      BY <3>2, <3>3
  <2> QED
    BY <2>1, <2>2, <2>3
<1>8. ASSUME NEW d \in Channels, d # c PROVE Attended(d)' /\ Boxed(d)'
  <2>1. book'[d] = book[d] /\ queued'[d] = queued[d]
    BY <1>3, <1>8 DEF OnlyAt
  <2>2. Boxed(d)'
    BY <2>1 DEF Boxed, QueuesServed
  <2>3. ASSUME NEW v \in Writers, work[v].at = "replace", work[v].id = d
        PROVE  work'[v].at = "replace" /\ work'[v].id = d
    BY <1>6, <1>8, <2>3
  <2>4. Attended(d)'
    BY <2>1, <2>3 DEF Attended, QueuesServed
  <2> QED
    BY <2>2, <2>4
<1> QED
  BY SMTT(30), <1>7, <1>8 DEF QueuesServed

\* A writer that was at rest, and one that is not and replaces nothing.
LEMMA BeginningServes ==
  ASSUME QueuesServed, NEW w \in Writers, DOMAIN work = Writers, work[w].at # "replace",
         NEW to, work' = [work EXCEPT ![w] = to],
         NEW c \in Channels, OnlyAt(c), Attended(c)', Boxed(c)'
  PROVE  QueuesServed'
<1>1. \A v \in Writers : work[v].at = "replace" => work'[v] = work[v]
  BY DEF Attended
<1>2. ASSUME NEW d \in Channels, d # c PROVE Attended(d)' /\ Boxed(d)'
  <2>1. book'[d] = book[d] /\ queued'[d] = queued[d] /\ Attended(d) /\ Boxed(d)
    BY <1>2 DEF OnlyAt, QueuesServed
  <2> QED
    BY <1>1, <2>1 DEF Attended, Boxed
<1> QED
  BY <1>2 DEF QueuesServed

\* A writer's step.
LEMMA WriterServes ==
  ASSUME ChannelsFit, LocksAgree, DocumentsAgree, QueuesServed, NEW w \in Writers, WriterStep(w)
  PROVE  QueuesServed'
<1>1. DOMAIN work = Writers
  BY DEF LocksAgree
<1>2. ASSUME NEW c \in Channels
      PROVE  /\ Fits(book[c], queued[c], wish[c]) /\ QueueShaped(queued[c]) /\ Attended(c) /\ Boxed(c)
             /\ Known(c) => IsRow(book[c])
             /\ ~Known(c) => queued[c] = NoQueue
             /\ DOMAIN book = Channels /\ DOMAIN queued = Channels
  BY DEF ChannelsFit, Fits, QueueShaped, Known, QueuesServed
<1>3. ASSUME UNCHANGED <<book, queued>>, work[w].at # "replace", NEW to, work' = [work EXCEPT ![w] = to]
      PROVE  QueuesServed'
  <2>1. \A v \in Writers : work[v].at = "replace" => work'[v] = work[v]
    BY <1>1, <1>3
  <2> QED
    BY <1>3, <2>1 DEF QueuesServed, Attended, Boxed
<1>4. ASSUME NEW c \in Channels, NEW n \in Names, NEW h \in BOOLEAN, NEW s \in Servers, NEW p \in Passwords,
             Create(w, c, n, h, s, p)
      PROVE  QueuesServed'
  <2>1. OnlyAt(c)
    BY <1>4, ArrivalKeeps
  <2>2. queued' = queued /\ queued[c] = NoQueue
    BY <1>2, <1>4 DEF Create
  <2>3. work' = [work EXCEPT ![w] = [at |-> "creating", id |-> c]] /\ work[w].at # "replace"
    <3>1. AtRest.at = "idle" /\ work[w] = AtRest
      BY <1>4 DEF Create, AtRest
    <3> QED
      BY <1>4, <3>1 DEF Create
  <2>4. Attended(c)' /\ Boxed(c)'
    BY <2>2 DEF Attended, Boxed, NoQueue
  <2> QED
    BY <1>1, <2>1, <2>3, <2>4, BeginningServes
<1>5. CASE \/ Created(w) \/ NoteSaved(w) \/ FileSaved(w) \/ NotApplied(w) \/ Reloaded(w)
           \/ \E waits \in BOOLEAN : Applied(w, waits)
  BY <1>5, FinishServes
<1>6. ASSUME NEW c \in Channels, NoteGet(w, c) PROVE QueuesServed'
  <2>1. work[w].at # "replace"
    BY <1>6 DEF NoteGet, AtRest
  <2> QED
    BY <1>3, <1>6, <2>1 DEF NoteGet
<1>7. ASSUME NEW t \in Texts, NEW given \in BOOLEAN, NotePut(w, t, given) PROVE QueuesServed'
  <2> DEFINE c == work[w].id
             to == IF Known(c) THEN [at |-> "put", id |-> c, shown |-> work[w].shown, asks |-> given, text |-> t,
                                     seen |-> book[c].cfg]
                   ELSE AtRest
  <2>1. work' = [work EXCEPT ![w] = to]
    BY <1>1, <1>7 DEF NotePut
  <2> HIDE DEF to
  <2> QED
    BY <1>3, <1>7, <2>1 DEF NotePut
<1>8. ASSUME NEW c \in Channels, NEW t \in Texts, FileAsked(w, c, t) PROVE QueuesServed'
  <2>1. work[w].at # "replace"
    BY <1>8 DEF FileAsked, AtRest
  <2> QED
    BY <1>3, <1>8, <2>1 DEF FileAsked
<1>9. ASSUME NEW c \in Channels, StartAsked(w, c) PROVE QueuesServed'
  <2>1. OnlyAt(c)
    BY <1>9, StartFits
  <2> DEFINE to == [at |-> "replace", id |-> c, on |-> book[c].on, start |-> TRUE]
  <2>2. work' = [work EXCEPT ![w] = to] /\ queued'[c] = Applying(c, Queued(c)) /\ work[w].at # "replace"
    BY <1>2, <1>9 DEF StartAsked, AtRest
  <2>3. work'[w].at = "replace" /\ work'[w].id = c /\ queued'[c].phase = "applying"
    BY <1>1, <2>2 DEF Applying
  <2>4. Attended(c)' /\ Boxed(c)'
    BY <2>3 DEF Attended, Boxed
  <2> HIDE DEF to
  <2> QED
    BY <1>1, <2>1, <2>2, <2>4, BeginningServes
<1>10. ASSUME NEW c \in Channels, NEW e \in Edits, NEW offline \in BOOLEAN, Edit(w, c, e, offline)
       PROVE  QueuesServed'
  <2> DEFINE later == queued[c].phase = "queued" \/ (offline /\ book[c].box /\ Touched(book[c], e))
             waiting == StillWanted(book[c], Merge(Queued(c), Connection(e)))
             now == [f \in DOMAIN e \ DOMAIN Connection(e) |-> e[f]]
             flips == "on" \in DOMAIN e /\ e["on"] # book[c].on
  <2>1. OnlyAt(c) /\ work[w].at # "replace" /\ Known(c) /\ queued[c].phase \in {"none", "queued"}
    <3>1. AtRest.at = "idle" /\ work[w] = AtRest /\ Known(c) /\ queued[c].phase \in {"none", "queued"}
      BY <1>10 DEF Edit, AtRest
    <3>2. OnlyAt(c)
      BY <1>10, EditKeeps
    <3> QED
      BY <3>1, <3>2
  <2>2. CASE ~later /\ book[c].box /\ Touched(book[c], e)
    <3> DEFINE to == [at |-> "replace", id |-> c, on |-> book[c].on, start |-> book[c].status # "stopped"]
    <3>1. work' = [work EXCEPT ![w] = to] /\ queued'[c] = Applying(c, e)
      BY <1>2, <1>10, <2>2 DEF Edit
    <3>2. work'[w].at = "replace" /\ work'[w].id = c /\ queued'[c].phase = "applying"
      BY <1>1, <3>1 DEF Applying
    <3>3. Attended(c)' /\ Boxed(c)'
      BY <3>2 DEF Attended, Boxed
    <3> HIDE DEF to
    <3> QED
      BY <1>1, <2>1, <3>1, <3>3, BeginningServes
  <2>3. CASE ~(~later /\ book[c].box /\ Touched(book[c], e))
    <3> DEFINE to == IF flips THEN [at |-> "reload", id |-> c, on |-> book[c].on] ELSE AtRest
    <3>1. /\ work' = [work EXCEPT ![w] = to]
          /\ queued'[c] = IF ~later \/ waiting = << >> THEN NoQueue ELSE [phase |-> "queued", fields |-> waiting]
          /\ book'[c] = Updated(book[c], IF later THEN now ELSE e)
      BY <1>2, <1>10, <2>3 DEF Edit
    <3> HIDE DEF to, flips
    <3>2. queued'[c].phase # "applying"
      BY <3>1 DEF NoQueue
    <3>3. book'[c].box = book[c].box
      BY <1>2, <2>1, <3>1, UpdatedIs
    <3>4. queued'[c].phase = "queued" => later
      BY <3>1 DEF NoQueue
    <3>5. later => book[c].box
      BY <1>2 DEF Boxed
    <3>6. Attended(c)' /\ Boxed(c)'
      BY <3>2, <3>3, <3>4, <3>5 DEF Attended, Boxed
    <3> QED
      BY <1>1, <2>1, <3>1, <3>6, BeginningServes
  <2> QED
    BY <2>2, <2>3
<1> QED
  BY <1>4, <1>5, <1>6, <1>7, <1>8, <1>9, <1>10 DEF WriterStep

\* Every step serves the queues.
LEMMA QueuesKeep ==
  ASSUME ChannelsFit, LocksAgree, DocumentsAgree, QueuesServed, [BookNext]_bookVars
  PROVE  QueuesServed'
<1>1. ASSUME NEW c \in Channels
      PROVE  /\ Fits(book[c], queued[c], wish[c]) /\ Attended(c) /\ Boxed(c)
             /\ Known(c) => IsRow(book[c])
             /\ ~Known(c) => queued[c] = NoQueue
             /\ DOMAIN book = Channels /\ DOMAIN queued = Channels
  BY DEF ChannelsFit, Fits, QueueShaped, Known, QueuesServed
<1>2. ASSUME UNCHANGED <<book, queued, work>> PROVE QueuesServed'
  BY <1>2 DEF QueuesServed, Attended, Boxed
<1>3. ASSUME NEW w \in Writers, WriterStep(w) PROVE QueuesServed'
  BY <1>3, WriterServes
<1>4. ASSUME NEW c \in Channels, ChannelStep(c) PROVE QueuesServed'
  <2>1. OnlyAt(c) /\ UNCHANGED work
    BY <1>4, ChannelKeeps DEF ChannelStep, Cancelled, Restored, LoginProved, Stopped, Deleted
  <2>2. Attended(c)' /\ Boxed(c)'
    <3>1. CASE Cancelled(c) \/ Restored(c) \/ LoginProved(c) \/ Deleted(c)
      <4>1. queued'[c] = NoQueue
        BY <1>1, <3>1 DEF Cancelled, Restored, LoginProved, Deleted
      <4> QED
        BY <4>1 DEF Attended, Boxed, NoQueue
    <3>2. CASE Stopped(c)
      <4>1. queued' = queued /\ book'[c] = [book[c] EXCEPT !.status = "stopped"] /\ Known(c)
        BY <1>1, <3>2 DEF Stopped
      <4>2. book'[c].box = book[c].box
        BY <1>1, <4>1 DEF IsRow, RowNames
      <4> QED
        BY <1>1, <2>1, <4>1, <4>2 DEF Attended, Boxed
    <3> QED
      BY <1>4, <3>1, <3>2 DEF ChannelStep
  <2> QED
    BY <2>1, <2>2 DEF OnlyAt, QueuesServed, Attended, Boxed
<1>5. CASE Export
  BY <1>2, <1>5 DEF Export, ExportLists, ExportQueue, ExportRules, ExportConfig
<1>6. CASE Import
  <2>1. CASE ImportSaves
    <3>1. UNCHANGED <<queued, work>>
      BY <2>1 DEF ImportSaves
    <3>2. ASSUME NEW c \in Channels PROVE Boxed(c)'
      <4>1. CASE Known(c)
        BY <1>1, <2>1, <4>1, ImportAdds DEF Boxed
      <4>2. CASE ~Known(c)
        BY <1>1, <3>1, <4>2 DEF Boxed, NoQueue
      <4> QED
        BY <4>1, <4>2
    <3> QED
      BY <3>1, <3>2 DEF QueuesServed, Attended
  <2>2. CASE ~ImportSaves
    BY <1>2, <1>6, <2>2 DEF Import, ImportReads
  <2> QED
    BY <2>1, <2>2
<1>7. CASE UNCHANGED bookVars
  BY <1>2, <1>7 DEF bookVars
<1> QED
  BY <1>3, <1>4, <1>5, <1>6, <1>7 DEF BookNext

\* At first nothing waits.
LEMMA QueuesBegin == BookInit => QueuesServed
<1>1. NoQueue.phase = "none"
  BY DEF NoQueue
<1>2. BookInit => \A c \in Channels : queued[c] = NoQueue
  BY DEF BookInit
<1> QED
  BY <1>1, <1>2 DEF QueuesServed, Attended, Boxed

\* Places, phases and containers of the book fit each other, for any writers and channels.
THEOREM BookTypesAreKept == BookSpec => []BookTypeOK
<1>1. BookInit => QueuesServed
  BY QueuesBegin
<1>2. BookInv /\ QueuesServed /\ [BookNext]_bookVars => QueuesServed'
  BY QueuesKeep DEF BookInv
<1>3. BookSpec => []QueuesServed
  BY <1>1, <1>2, BookInvariance, PTL DEF BookSpec
<1>4. BookInv /\ QueuesServed => BookTypeOK
  BY BookTypes
<1> QED
  BY <1>3, <1>4, BookInvariance, PTL
=============================================================================
