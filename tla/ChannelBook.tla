----------------------------- MODULE ChannelBook -----------------------------
(* What the core keeps of a channel's settings and who writes it: creating,    *)
(* editing and deleting channels (api.rs), settings queued for the next start  *)
(* (replacement_store.rs), the note and the configuration file of a channel    *)
(* (store.rs set_config_field), and the backup: an export that reads channel   *)
(* after channel while the others go on, and an import that adds what it does  *)
(* not know.  Replacement is the module about the containers; here a           *)
(* replacement is only the time between saving its record and its outcome.     *)
EXTENDS Naturals, FiniteSets

CONSTANTS
    Channels,       \* the ids a channel can get
    Names,          \* names of channels
    Servers,        \* server addresses
    Passwords,      \* passwords, never empty: the edit page leaves out an empty one
    Texts,          \* notes and configuration files
    Patterns,       \* rules, of which these are well formed:
    WellFormed,
    Edits,          \* bodies of a PUT on a channel: the fields each names
    Writers,        \* pages with a request under way
    Foreign,        \* documents written by hand
    MaxChanges,     \* bound: requests that change a channel, starts excepted
    MaxImports,     \* bound: imports
    MaxBookFaults   \* bound: transactions and replacements that fail

ASSUME BookAssumption ==
    /\ \A e \in Edits : /\ DOMAIN e \subseteq {"server", "password", "on"}
                        /\ "password" \in DOMAIN e => e["password"] # ""
    /\ \A e \in Foreign : DOMAIN e.cfg = {"server", "password", "note", "file"}
    /\ MaxChanges \in Nat /\ MaxImports \in Nat /\ MaxBookFaults \in Nat
    /\ "" \notin Names \cup Servers \cup Passwords \cup Texts

VARIABLES
    book,       \* the rows of `channels` with their rules
    queued,      \* the rows of `channel_replacements`
    work,       \* what each writer is doing
    exporter,   \* the export under way, or the last one
    importer,   \* the import under way
    wish,       \* ghost: the settings its user last asked for, per channel
    changes, imports, bookFaults

bookVars == <<book, queued, work, exporter, importer, wish, changes, imports, bookFaults>>

Fields == {"server", "password", "on"}
NoRow == [name |-> ""]
NoQueue == [phase |-> "none"]
AtRest == [at |-> "idle"]
Connection(e) == [f \in DOMAIN e \ {"on"} |-> e[f]]
Merge(e, d) == [f \in DOMAIN e \cup DOMAIN d |-> IF f \in DOMAIN d THEN d[f] ELSE e[f]]

Known(c) == book[c] # NoRow
\* The operation lock of a channel: notes, exports and imports do not take it.
Held(c) == \E w \in Writers : work[w].at \notin {"idle", "page", "put"} /\ work[w].id = c
Column(row, f) == IF f = "server" THEN row.server ELSE IF f = "on" THEN row.on ELSE row.password
Touched(row, e) == \E f \in DOMAIN Connection(e) : e[f] # Column(row, f)
\* What the channel connects with: the decrypted config, and the column as the
\* server's last resort.
Effective(row) == [server |-> IF row.cfg.server = "" THEN row.server ELSE row.cfg.server,
                   password |-> row.cfg.password, on |-> row.on]

\* A backup that was read while the server was edited, or written by hand, can
\* bring in a channel whose column and config name two.
OneServer(row) == row.cfg.server \in {"", row.server}

\* The config a writer changes is read inside its transaction.
PresentAtStart(w, row) == work[w].seen
Present(w, row) == row.cfg
SetField(w, row, f, v) == [row EXCEPT !.cfg = [Present(w, row) EXCEPT ![f] = v]]
\* update_channel: the columns, and server and password once more in the config.
Updated(row, e) ==
    [row EXCEPT
        !.server = (IF "server" \in DOMAIN e THEN e["server"] ELSE @),
        !.password = (IF "password" \in DOMAIN e THEN e["password"] ELSE @),
        !.on = (IF "on" \in DOMAIN e THEN e["on"] ELSE @),
        !.cfg.server = (IF "server" \in DOMAIN e THEN e["server"] ELSE @),
        !.cfg.password = (IF "password" \in DOMAIN e THEN e["password"] ELSE @)]

\* An export under way reads this channel before and after a change.
Notice(c) ==
    exporter' = IF exporter.at = "idle" THEN exporter ELSE [exporter EXCEPT !.changed = @ \cup {c}]
Change == changes < MaxChanges /\ changes' = changes + 1
Falters == bookFaults < MaxBookFaults /\ bookFaults' = bookFaults + 1

-----------------------------------------------------------------------------
\* add_channel: the password the page sends is in the column and in the config.
Create(w, c, name, headless, s, p) ==
    /\ Change /\ work[w] = AtRest /\ ~Known(c) /\ ~Held(c)
    /\ book' = [book EXCEPT ![c] =
           [name |-> name, headless |-> headless, box |-> FALSE, server |-> s, password |-> p,
            cfg |-> [server |-> s, password |-> p, note |-> "", file |-> ""],
            on |-> TRUE, status |-> "creating", rules |-> {}]]
    /\ wish' = [wish EXCEPT ![c] = [server |-> s, password |-> p, on |-> TRUE]]
    /\ work' = [work EXCEPT ![w] = [at |-> "creating", id |-> c]]
    /\ Notice(c) /\ UNCHANGED <<queued, importer, imports, bookFaults>>

\* The first container is there, or was not to be had.
Created(w) ==
    /\ work[w].at = "creating"
    /\ \/ /\ book' = [book EXCEPT ![work[w].id].box = TRUE, ![work[w].id].status = "running"]
          /\ UNCHANGED bookFaults
       \/ Falters /\ book' = [book EXCEPT ![work[w].id].status = "error"]
    /\ work' = [work EXCEPT ![w] = AtRest]
    /\ Notice(work[w].id) /\ UNCHANGED <<queued, importer, wish, changes, imports>>

\* The note a page shows, and its save: `expected_note` is what it showed, left
\* out by older pages.
NoteGet(w, c) ==
    /\ work[w] = AtRest /\ Known(c)
    /\ work' = [work EXCEPT ![w] = [at |-> "page", id |-> c, shown |-> book[c].cfg.note]]
    /\ UNCHANGED <<book, queued, exporter, importer, wish, changes, imports, bookFaults>>
NotePut(w, text, asks) ==
    /\ Change /\ work[w].at = "page"
    /\ work' = [work EXCEPT ![w] =
           IF Known(@.id)
           THEN [at |-> "put", id |-> @.id, shown |-> @.shown, asks |-> asks, text |-> text,
                 seen |-> book[@.id].cfg]
           ELSE AtRest]
    /\ UNCHANGED <<book, queued, exporter, importer, wish, imports, bookFaults>>
\* Compare and save in one transaction: a conflict leaves the draft on the page.
NoteSaved(w) ==
    /\ work[w].at = "put"
    /\ LET c == work[w].id
       IN  IF Known(c) /\ (work[w].asks => work[w].shown = Present(w, book[c]).note)
           THEN /\ book' = [book EXCEPT ![c] = SetField(w, @, "note", work[w].text)]
                /\ Notice(c)
           ELSE UNCHANGED <<book, exporter>>
    /\ work' = [work EXCEPT ![w] = AtRest]
    /\ UNCHANGED <<queued, importer, wish, changes, imports, bookFaults>>

\* A new configuration file waits for a replacement to be settled.
FileAsked(w, c, text) ==
    /\ Change /\ work[w] = AtRest /\ Known(c) /\ ~Held(c) /\ queued[c].phase \in {"none", "queued"}
    /\ work' = [work EXCEPT ![w] = [at |-> "file", id |-> c, text |-> text, seen |-> book[c].cfg]]
    /\ UNCHANGED <<book, queued, exporter, importer, wish, imports, bookFaults>>
FileSaved(w) ==
    /\ work[w].at = "file"
    /\ book' = [book EXCEPT ![work[w].id] = SetField(w, @, "file", work[w].text)]
    /\ work' = [work EXCEPT ![w] = AtRest]
    /\ Notice(work[w].id) /\ UNCHANGED <<queued, importer, wish, changes, imports, bookFaults>>

-----------------------------------------------------------------------------
\* The fields still to be applied: what the queue had and what is asked, less
\* what the columns say already.
StillWanted(row, e) ==
    LET kept == {f \in DOMAIN e : e[f] # Column(row, f)} IN [f \in kept |-> e[f]]
Queued(c) == IF queued[c].phase = "queued" THEN queued[c].fields ELSE << >>
Applying(c, e) ==
    [phase |-> "applying", fields |-> e, old |-> [f \in DOMAIN e |-> Column(book[c], f)],
     was |-> Effective(book[c]), one |-> OneServer(book[c])]
Asks(c, e) == wish' = [wish EXCEPT ![c] = [f \in Fields |-> IF f \in DOMAIN e THEN e[f] ELSE @[f]]]

\* update_inner.  Without the VM, or while a stop is pending, the connection's
\* settings of a channel with a container wait for the next start.
Edit(w, c, e, offline) ==
    /\ Change /\ work[w] = AtRest /\ Known(c) /\ ~Held(c) /\ queued[c].phase \in {"none", "queued"}
    /\ Asks(c, e) /\ Notice(c)
    /\ LET row == book[c]
           later == queued[c].phase = "queued" \/ (offline /\ row.box /\ Touched(row, e))
           wanted == StillWanted(row, Merge(Queued(c), Connection(e)))
           now == [f \in DOMAIN e \ DOMAIN Connection(e) |-> e[f]]
           flips == "on" \in DOMAIN e /\ e["on"] # row.on
       IN  IF ~later /\ row.box /\ Touched(row, e)
           THEN /\ queued' = [queued EXCEPT ![c] = Applying(c, e)]
                /\ work' = [work EXCEPT ![w] = [at |-> "replace", id |-> c, on |-> row.on,
                                                start |-> row.status # "stopped"]]
                /\ UNCHANGED book
           ELSE /\ queued' = [queued EXCEPT ![c] =
                       IF ~later \/ wanted = << >> THEN NoQueue ELSE [phase |-> "queued", fields |-> wanted]]
                /\ book' = [book EXCEPT ![c] = Updated(@, IF later THEN now ELSE e)]
                /\ work' = [work EXCEPT ![w] =
                       IF flips THEN [at |-> "reload", id |-> c, on |-> row.on] ELSE AtRest]
    /\ UNCHANGED <<importer, imports, bookFaults>>

\* A start applies what is queued and rebuilds the container.
StartAsked(w, c) ==
    /\ work[w] = AtRest /\ Known(c) /\ ~Held(c) /\ queued[c].phase \in {"none", "queued"}
    /\ queued' = [queued EXCEPT ![c] = Applying(c, Queued(c))]
    /\ work' = [work EXCEPT ![w] = [at |-> "replace", id |-> c, on |-> book[c].on, start |-> TRUE]]
    /\ Notice(c) /\ UNCHANGED <<book, importer, wish, changes, imports, bookFaults>>

\* The new container is accepted, at once or until a login proves it; a client
\* that logs in by itself and was started is proved before.
Applied(w, waits) ==
    /\ work[w].at = "replace"
    /\ LET c == work[w].id
           row == Updated(book[c], queued[c].fields)
       IN  /\ waits => queued[c].fields # << >> /\ ~(row.headless /\ work[w].start)
           /\ book' = [book EXCEPT ![c] = [row EXCEPT !.box = TRUE,
                          !.status = (IF work[w].start THEN "running" ELSE "stopped")]]
           /\ queued' = [queued EXCEPT ![c] = IF waits THEN [@ EXCEPT !.phase = "applied"] ELSE NoQueue]
           /\ work' = [work EXCEPT ![w] =
                  IF row.on # work[w].on THEN [at |-> "reload", id |-> c, on |-> work[w].on] ELSE AtRest]
           /\ Notice(c)
    /\ UNCHANGED <<importer, wish, changes, imports, bookFaults>>
\* It is not, and the settings stay as they were.
NotApplied(w) ==
    /\ Falters /\ work[w].at = "replace"
    /\ LET c == work[w].id
       IN  /\ queued' = [queued EXCEPT ![c] = NoQueue]
           /\ wish' = [wish EXCEPT ![c] = Effective(book[c])]
           /\ Notice(c)
    /\ work' = [work EXCEPT ![w] = AtRest]
    /\ UNCHANGED <<book, importer, changes, imports>>
\* The kernel takes the switched routing, or the switch goes back.
Reloaded(w) ==
    /\ work[w].at = "reload"
    /\ LET c == work[w].id
       IN  \/ UNCHANGED <<book, wish, bookFaults, exporter>>
           \/ /\ Falters /\ Notice(c)
              /\ book' = [book EXCEPT ![c].on = work[w].on]
              /\ wish' = [wish EXCEPT ![c].on = work[w].on]
    /\ work' = [work EXCEPT ![w] = AtRest]
    /\ UNCHANGED <<queued, importer, changes, imports>>

\* restore_channel with settings queued: they are dropped.
Cancelled(c) ==
    /\ Change /\ Known(c) /\ ~Held(c) /\ queued[c].phase = "queued"
    /\ queued' = [queued EXCEPT ![c] = NoQueue]
    /\ wish' = [wish EXCEPT ![c] = Effective(book[c])]
    /\ Notice(c) /\ UNCHANGED <<book, work, importer, imports, bookFaults>>
\* restore_channel after a replacement: its fields go back, a note does not.
Restored(c) ==
    /\ Known(c) /\ ~Held(c) /\ queued[c].phase = "applied"
    /\ book' = [book EXCEPT ![c] = Updated(@, queued[c].old)]
    /\ queued' = [queued EXCEPT ![c] = NoQueue]
    /\ wish' = [wish EXCEPT ![c] = Effective(book'[c])]
    /\ Notice(c) /\ UNCHANGED <<work, importer, changes, imports, bookFaults>>
\* A probe proves the login: the replacement is over.
LoginProved(c) ==
    /\ ~Held(c) /\ queued[c].phase = "applied"
    /\ queued' = [queued EXCEPT ![c] = NoQueue]
    /\ Notice(c) /\ UNCHANGED <<book, work, importer, wish, changes, imports, bookFaults>>
Stopped(c) ==
    /\ Change /\ Known(c) /\ ~Held(c) /\ book[c].box /\ book[c].status # "stopped"
    /\ queued[c].phase \in {"none", "queued"}
    /\ book' = [book EXCEPT ![c].status = "stopped"]
    /\ Notice(c) /\ UNCHANGED <<queued, work, importer, wish, imports, bookFaults>>
Deleted(c) ==
    /\ Change /\ Known(c) /\ ~Held(c)
    /\ book' = [book EXCEPT ![c] = NoRow] /\ queued' = [queued EXCEPT ![c] = NoQueue]
    /\ Notice(c) /\ UNCHANGED <<work, importer, wish, imports, bookFaults>>

-----------------------------------------------------------------------------
\* config_export: the list once, then each channel's config, queue and rules.
\* One export is followed.
ExportLists ==
    /\ exporter.at = "idle" /\ exporter.doc = {} /\ \E c \in Channels : Known(c)
    /\ exporter' = [at |-> "next", rows |-> [c \in {d \in Channels : Known(d)} |-> book[c]],
                    done |-> {}, changed |-> {}, doc |-> {}]
    /\ UNCHANGED <<book, queued, work, importer, wish, changes, imports, bookFaults>>
ExportConfig(c) ==
    /\ exporter.at = "next" /\ c \in DOMAIN exporter.rows \ exporter.done
    /\ exporter' = [at |-> "config", id |-> c,
                    cfg |-> IF Known(c) THEN book[c].cfg
                            ELSE [server |-> "", password |-> "", note |-> "", file |-> ""],
                    rows |-> exporter.rows, done |-> exporter.done, changed |-> exporter.changed,
                    doc |-> exporter.doc]
    /\ UNCHANGED <<book, queued, work, importer, wish, changes, imports, bookFaults>>

\* Settings still queued count as saved: the columns and the config say them.
Overlaid(row, fields) == Updated(row, fields)
\* Only a client that logs in by itself takes its password along, no note ever.
Stripped(row) ==
    [row EXCEPT !.cfg.password = (IF row.headless THEN @ ELSE ""), !.cfg.note = ""]
ExportQueue ==
    /\ exporter.at = "config"
    /\ LET c == exporter.id
           row == Stripped(Overlaid([exporter.rows[c] EXCEPT !.cfg = exporter.cfg], Queued(c)))
       IN  exporter' = [at |-> "rules", id |-> c, row |-> row,
                        rows |-> exporter.rows, done |-> exporter.done, changed |-> exporter.changed,
                        doc |-> exporter.doc]
    /\ UNCHANGED <<book, queued, work, importer, wish, changes, imports, bookFaults>>
\* `settled` is a ghost: nothing changed this channel since the list was read,
\* no replacement of it is under way, and it has one server.
ExportRules ==
    /\ exporter.at = "rules"
    /\ LET c == exporter.id
           row == exporter.row
           entry == [name |-> row.name, headless |-> row.headless, server |-> row.server,
                     cfg |-> row.cfg, on |-> row.on,
                     rules |-> IF Known(c) THEN book[c].rules ELSE {}, faults |-> {},
                     settled |-> c \notin exporter.changed /\ queued[c].phase # "applying"
                                  /\ OneServer(book[c]),
                     asked |-> wish[c]]
           last == exporter.done \cup {c} = DOMAIN exporter.rows
       IN  exporter' = [at |-> IF last THEN "idle" ELSE "next", rows |-> IF last THEN << >> ELSE exporter.rows,
                        done |-> IF last THEN {} ELSE exporter.done \cup {c},
                        changed |-> IF last THEN {} ELSE exporter.changed,
                        doc |-> exporter.doc \cup {entry}]
    /\ UNCHANGED <<book, queued, work, importer, wish, changes, imports, bookFaults>>

\* config_import leaves out an entry with a fault, a rule that is not well
\* formed, and a name it has or has seen; a channel comes in stopped, and with
\* no password of its own.
PlanRow(e) ==
    [name |-> e.name, headless |-> e.headless, box |-> FALSE,
     server |-> (IF e.server = "" THEN e.cfg.server ELSE e.server), password |-> "",
     cfg |-> e.cfg, on |-> e.on, status |-> "stopped", rules |-> e.rules \cap WellFormed]
ImportReads(doc) ==
    /\ imports < MaxImports /\ imports' = imports + 1 /\ importer = AtRest
    /\ LET taken == {book[c].name : c \in Channels}
           new == {e \in doc : e.faults = {} /\ e.name \notin taken}
       IN  \E chosen \in SUBSET new :
             /\ \A e, f \in chosen : e.name = f.name => e = f
             /\ {e.name : e \in chosen} = {e.name : e \in new}
             /\ importer' = [at |-> "planned", plans |-> chosen]
    /\ UNCHANGED <<book, queued, work, exporter, wish, changes, bookFaults>>
\* One transaction for every channel and rule.
ImportSaves ==
    /\ importer.at = "planned"
    /\ \/ Falters /\ UNCHANGED <<book, wish>>
       \/ \E D \in SUBSET {c \in Channels : ~Known(c) /\ ~Held(c)} :
            /\ Cardinality(D) = Cardinality(importer.plans)
            /\ \E id \in [importer.plans -> D] :
                 /\ \A e, f \in importer.plans : id[e] = id[f] => e = f
                 /\ book' = [c \in Channels |->
                        IF \E e \in importer.plans : id[e] = c
                        THEN PlanRow(CHOOSE e \in importer.plans : id[e] = c) ELSE book[c]]
                 /\ wish' = [c \in Channels |-> IF c \in D THEN Effective(book'[c]) ELSE wish[c]]
            /\ UNCHANGED bookFaults
    /\ importer' = AtRest
    /\ UNCHANGED <<queued, work, exporter, changes, imports>>

BookInit ==
    /\ book = [c \in Channels |-> NoRow] /\ queued = [c \in Channels |-> NoQueue]
    /\ work = [w \in Writers |-> AtRest] /\ importer = AtRest
    /\ exporter = [at |-> "idle", rows |-> << >>, done |-> {}, changed |-> {}, doc |-> {}]
    /\ wish = [c \in Channels |-> [server |-> "", password |-> "", on |-> TRUE]]
    /\ changes = 0 /\ imports = 0 /\ bookFaults = 0

WriterStep(w) ==
    \/ \E c \in Channels, n \in Names, h \in BOOLEAN, s \in Servers, p \in Passwords : Create(w, c, n, h, s, p)
    \/ Created(w) \/ NoteSaved(w) \/ FileSaved(w) \/ NotApplied(w) \/ Reloaded(w)
    \/ \E c \in Channels : NoteGet(w, c) \/ StartAsked(w, c)
    \/ \E t \in Texts, asks \in BOOLEAN : NotePut(w, t, asks)
    \/ \E c \in Channels, t \in Texts : FileAsked(w, c, t)
    \/ \E c \in Channels, e \in Edits, offline \in BOOLEAN : Edit(w, c, e, offline)
    \/ \E waits \in BOOLEAN : Applied(w, waits)
ChannelStep(c) ==
    \/ Cancelled(c) \/ Restored(c) \/ LoginProved(c) \/ Stopped(c) \/ Deleted(c)
Export == ExportLists \/ ExportQueue \/ ExportRules \/ \E c \in Channels : ExportConfig(c)
Import == ImportSaves \/ (exporter.at = "idle" /\ ImportReads(exporter.doc)) \/ ImportReads(Foreign)
BookNext ==
    \/ \E w \in Writers : WriterStep(w)
    \/ \E c \in Channels : ChannelStep(c)
    \/ Export \/ Import
BookSpec == BookInit /\ [][BookNext]_bookVars

-----------------------------------------------------------------------------
\* A writer always has a place, only a held channel is being replaced, and a
\* queue or a container belongs to a channel that is there.
BookTypeOK ==
    /\ \A w \in Writers :
         work[w].at \in {"idle", "page", "put", "file", "creating", "replace", "reload"}
    /\ \A c \in Channels :
         /\ queued[c].phase \in {"none", "queued", "applying", "applied"}
         /\ queued[c].phase = "applying" <=> \E w \in Writers : work[w].at = "replace" /\ work[w].id = c
         /\ queued[c] # NoQueue => Known(c)
         /\ queued[c].phase = "queued" => book[c].box
    /\ exporter.at \in {"idle", "next", "config", "rules"} /\ importer.at \in {"idle", "planned"}

\* A channel comes back from a backup with the settings its user last asked
\* for - those queued for a start too -, stopped, with its password only if it
\* logs in by itself, and without its note; unless it changed while the backup
\* read it, or an earlier backup gave it two servers (api.rs config_export and
\* config_import).
BackupRestores ==
    \A e \in exporter.doc :
        e.settled =>
            /\ Effective(PlanRow(e)) =
                   [e.asked EXCEPT !.password = IF e.headless THEN @ ELSE ""]
            /\ PlanRow(e).cfg.note = "" /\ PlanRow(e).status = "stopped"

\* Writers of one row do not undo each other: a note changes only by a save
\* that knew the one before or did not ask, a file only by its own save, and
\* neither by an edit, a replacement or its restoring, whatever they read
\* before (store.rs set_config_field and set_login_note).
WritersKeepApart ==
    [][\A c \in Channels : Known(c) /\ Known(c)' =>
         /\ book'[c].cfg.note # book[c].cfg.note =>
              \E w \in Writers : /\ work[w].at = "put" /\ work[w].id = c /\ work'[w] = AtRest
                                 /\ book'[c].cfg.note = work[w].text
                                 /\ work[w].asks => work[w].shown = book[c].cfg.note
         /\ book'[c].cfg.file # book[c].cfg.file =>
              \E w \in Writers : work[w].at = "file" /\ work[w].id = c /\ work'[w] = AtRest]_bookVars

\* A change that was applied and still waits for its login can be taken back:
\* its fields are what they were (replacement_store.rs restore).  But for the
\* password and for one of two servers: an imported channel has them in its
\* config only, and the old values that are put back are the columns'.
RestoreGivesBack ==
    [][\A c \in Channels : Restored(c) /\ queued[c].one =>
         [Effective(book'[c]) EXCEPT !.password = ""] = [queued[c].was EXCEPT !.password = ""]]_bookVars

\* Backups give back what was asked, writers keep apart, and restoring restores.
SettingsKept == []BackupRestores /\ WritersKeepApart /\ RestoreGivesBack
=============================================================================
