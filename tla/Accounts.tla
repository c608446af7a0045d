------------------------------ MODULE Accounts ------------------------------
(***************************************************************************)
(* auth.json, the secrets its accounts keep in it or in the OS keyring,    *)
(* and the data directories that hold the books of the accounts.           *)
(*                                                                         *)
(* A command reads auth.json, decides, and then writes: every write that   *)
(* leaves the process - one secret of the keyring, auth.json, one book     *)
(* file - is a step of its own, and a kill drops the steps that are left.  *)
(***************************************************************************)
EXTENDS Subsequences, Functions

CONSTANTS
    Names,       \* account names
    Creds,       \* sets of API credentials
    OwnerOf,     \* the exchange account each of them belongs to
    Books,       \* the book files, in the order they are migrated
    OldBooks,    \* what a release before 0.2.0 may have left of them, as sets
    Appended,    \* bound: the book files commands write to
    MaxOwn,      \* bound: the scopes they begin one in
    MaxIds,      \* bound: ids minted
    MaxKills,    \* bound: commands killed half way
    MaxFaults    \* bound: these and the times the keyring goes away

ASSUME AccountsAssumption ==
    /\ DOMAIN OwnerOf = Creds
    /\ Books \in Seq(STRING)
    /\ \A i, j \in DOMAIN Books : Books[i] = Books[j] => i = j
    /\ OldBooks \subseteq SUBSET Range(Books) /\ Appended \subseteq Range(Books)
    /\ MaxIds \in Nat /\ MaxOwn \in Nat /\ MaxKills \in Nat /\ MaxFaults \in Nat

VARIABLES
    auth,       \* auth.json: [exists, backend, active, accounts]
    keyring,    \* the OS keyring: name -> part of the credentials -> value
    available,  \* whether a keyring can be used
    root,       \* book files in the app directory, from before 0.2.0
    dirs,       \* scope -> book file -> what it holds
    cmd,        \* the running command
    todo,       \* the writes it has left
    minted,     \* ids minted so far
    given,      \* name -> the credentials the account was last given
    owners,     \* id -> the exchange accounts proven to be its own
    kills,      \* commands killed so far
    outages     \* times the keyring has gone away

authVars == <<auth, keyring>>
bookVars == <<root, dirs>>
ghostVars == <<given, owners>>
boundVars == <<kills, outages>>
vars == <<authVars, bookVars, ghostVars, boundVars, available, cmd, todo, minted>>

None == "none"
Parts == <<"key", "secret">>
NoKeys == [p \in Range(Parts) |-> None]
AllOf(cred) == [p \in Range(Parts) |-> cred]
Unknown == [p \in {} |-> None]

NoId == 0
Scopes == 0..MaxIds   \* NoId: the default scope
BookFiles == Range(Books)

NoFile == [exists |-> FALSE, backend |-> "file", active |-> None, accounts |-> <<>>]
NoCommand == [kind |-> "idle"]

(* What a release before 0.2.0 may have left: an account without an id. *)
OldFile(backend, name, keys) ==
    [exists |-> TRUE, backend |-> backend, active |-> name,
     accounts |-> <<[name |-> name, id |-> NoId, ref |-> None, keys |-> keys]>>]

Init ==
    /\ \/ /\ auth = NoFile
          /\ keyring = [n \in Names |-> NoKeys]
          /\ given = [n \in Names |-> Unknown]
       \/ \E n \in Names, c \in Creds :
          /\ given = [m \in Names |-> IF m = n THEN AllOf(c) ELSE Unknown]
          /\ \/ /\ auth = OldFile("file", n, AllOf(c))
                /\ keyring = [m \in Names |-> NoKeys]
             \/ /\ auth = OldFile("keyring", n, NoKeys)
                /\ keyring = [m \in Names |-> IF m = n THEN AllOf(c) ELSE NoKeys]
    /\ available = TRUE
    /\ root \in OldBooks
    /\ \E own \in IF root = {} THEN {{}} ELSE SUBSET Appended :
          dirs = [s \in Scopes |-> [b \in BookFiles |->
                    IF s = NoId /\ b \in own THEN "own" ELSE None]]
    /\ cmd = NoCommand /\ todo = <<>>
    /\ minted = 0
    /\ owners = [i \in 1..MaxIds |-> {}]
    /\ kills = 0 /\ outages = 0

----------------------------------------------------------------------------
(* The secret backends. *)

(* backend_for: the backend the file records, or what is asked for; a keyring
   that cannot be used is replaced by the file. *)
Backend(prefer) ==
    LET choice == IF auth.exists THEN auth.backend ELSE prefer
    IN  IF choice = "keyring" /\ ~available THEN "file" ELSE choice

(* hydrate *)
KeysOf(e, backend) == IF backend = "keyring" THEN keyring[e.name] ELSE e.keys

Hydrated(e, backend) == [e EXCEPT !.keys = KeysOf(e, backend)]

Loaded(backend) == [i \in DOMAIN auth.accounts |-> Hydrated(auth.accounts[i], backend)]

PutSecret(name, part, value) == [op |-> "secret", name |-> name, part |-> part, value |-> value]

(* forget: every part under the name is deleted. *)
Forget(name, backend) ==
    IF backend = "keyring"
    THEN [i \in DOMAIN Parts |-> PutSecret(name, Parts[i], None)]
    ELSE <<>>

(* persist, for all accounts in turn: part by part to the keyring. *)
Secrets(accounts, backend) ==
    LET n == Len(Parts)
    IN  IF backend = "keyring"
        THEN [i \in 1..(n * Len(accounts)) |->
                LET a == accounts[((i - 1) \div n) + 1]
                    p == Parts[((i - 1) % n) + 1]
                IN  PutSecret(a.name, p, a.keys[p])]
        ELSE <<>>

Entry(a, backend) == IF backend = "keyring" THEN [a EXCEPT !.keys = NoKeys] ELSE a

(* _write: the secrets of every account, then auth.json in one replace. *)
Written(accounts, active, backend) ==
    Secrets(accounts, backend)
    \o <<[op |-> "auth",
          file |-> [exists |-> TRUE, backend |-> backend, active |-> active,
                    accounts |-> [i \in DOMAIN accounts |-> Entry(accounts[i], backend)]]]>>

----------------------------------------------------------------------------
(* The commands: what each of them writes. *)

NamesIn(accounts) == {accounts[i].name : i \in DOMAIN accounts}
Exists(name) == name \in NamesIn(auth.accounts)
Named(accounts, name) == accounts[CHOOSE i \in DOMAIN accounts : accounts[i].name = name]

Without(accounts, name) == Picked(accounts, {i \in DOMAIN accounts : accounts[i].name # name})

(* Writing a secret its own value again changes nothing: no step is made of it. *)
Changes(w) == w.op = "secret" => keyring[w.name][w.part] # w.value

Start(command, writes) ==
    /\ todo' = Picked(writes, {i \in DOMAIN writes : Changes(writes[i])})
    /\ cmd' = IF todo' = <<>> THEN NoCommand ELSE command
    /\ UNCHANGED <<authVars, bookVars, ghostVars, boundVars, available>>

(* Mutant: the ref of this login, captured or not. *)
RefOfLogin(ref, old) == ref

(* _apply_identity: an identity that was not captured leaves the stored one. *)
RefAfter(ref, old) == IF ref = None THEN old.ref ELSE ref

Refused(name, ref, force) ==
    /\ Exists(name) /\ ~force /\ ref # None
    /\ Named(auth.accounts, name).ref \notin {None, ref}

(* The id of an account is kept when it is logged into again (_apply_identity,
   add_or_update). *)
IdAfter(name) ==
    IF Exists(name) /\ Named(auth.accounts, name).id # NoId
    THEN Named(auth.accounts, name).id ELSE minted + 1

(* What auth login may be given: credentials or none (--paper), the identity
   the venue answers with, if one is captured, and --force. *)
Logins ==
    [name : Names, keys : {NoKeys}, ref : {None}, force : {FALSE}]
    \cup UNION {[name : Names, keys : {AllOf(c)}, ref : {None}, force : {FALSE}]
                \cup [name : Names, keys : {AllOf(c)}, ref : {OwnerOf[c]}, force : BOOLEAN] :
                c \in Creds}

(* --keyring or --file, which an existing auth.json overrides. *)
Preferences == IF auth.exists THEN {auth.backend} ELSE {"file", "keyring"}

(* auth login *)
Login ==
    /\ cmd = NoCommand
    /\ \E l \in Logins, prefer \in Preferences :
        LET backend == Backend(prefer)
            id == IdAfter(l.name)
            account ==
                [name |-> l.name, id |-> id, keys |-> l.keys,
                 ref |-> IF Exists(l.name) THEN RefAfter(l.ref, Named(auth.accounts, l.name))
                         ELSE l.ref]
        IN  /\ ~Refused(l.name, l.ref, l.force)
            /\ l.force => Refused(l.name, l.ref, FALSE)   \* given where it is needed
            /\ id <= MaxIds   \* bound
            /\ minted' = IF id > minted THEN id ELSE minted
            /\ Start([kind |-> "login", name |-> l.name, keys |-> l.keys, id |-> id,
                      ref |-> l.ref, force |-> l.force],
                     Written(Append(Without(Loaded(backend), l.name), account),
                             IF auth.active = None THEN l.name ELSE auth.active, backend))

(* Mutant: the pointer stays. *)
PointerStays(name, kept) == auth.active

(* The active account is replaced by the first that is left (remove). *)
ActiveWithout(name, kept) ==
    IF auth.active # name THEN auth.active
    ELSE IF kept = <<>> THEN None ELSE kept[1].name

(* auth logout: the secrets go first, then the entry. *)
Logout ==
    /\ cmd = NoCommand
    /\ \E name \in NamesIn(auth.accounts) :
        LET backend == Backend("keyring")
            kept == Without(Loaded(backend), name)
        IN  Start([kind |-> "logout", name |-> name],
                  Forget(name, backend)
                  \o Written(kept, ActiveWithout(name, kept), backend))
    /\ UNCHANGED minted

(* auth use *)
Use ==
    /\ cmd = NoCommand
    /\ \E name \in NamesIn(auth.accounts) :
        Start([kind |-> "use"], Written(Loaded(Backend("keyring")), name, Backend("keyring")))
    /\ UNCHANGED minted

(* Mutant: the renamed account is a new one. *)
RenamedAnew(accounts, old, new) ==
    [i \in DOMAIN accounts |->
        IF accounts[i].name = old THEN [accounts[i] EXCEPT !.name = new, !.id = MaxIds] ELSE accounts[i]]

Renamed(accounts, old, new) ==
    [i \in DOMAIN accounts |->
        IF accounts[i].name = old THEN [accounts[i] EXCEPT !.name = new] ELSE accounts[i]]

(* Mutant: the old secrets go first. *)
ForgetThenWrite(writes, old, new, backend) ==
    IF new = old THEN writes ELSE Forget(old, backend) \o writes

(* The old secrets go when auth.json names the new ones. *)
WriteThenForget(writes, old, new, backend) ==
    IF new = old THEN writes ELSE writes \o Forget(old, backend)

(* auth rename *)
Rename ==
    /\ cmd = NoCommand
    /\ \E old \in NamesIn(auth.accounts), new \in Names :
        LET backend == Backend("keyring")
            active == IF auth.active = old THEN new ELSE auth.active
        IN  /\ new # old => ~Exists(new)
            /\ Start([kind |-> "rename", name |-> old, new |-> new],
                     WriteThenForget(Written(Renamed(Loaded(backend), old, new), active, backend),
                                     old, new, backend))
    /\ UNCHANGED minted

(* ensure_ids: an id for each account that lacks one. *)
WithIds(accounts) ==
    LET lacking(i) == {j \in 1..i : accounts[j].id = NoId}
    IN  [i \in DOMAIN accounts |->
            IF accounts[i].id # NoId THEN accounts[i]
            ELSE [accounts[i] EXCEPT !.id = minted + Cardinality(lacking(i))]]

Lacking == {i \in DOMAIN auth.accounts : auth.accounts[i].id = NoId}

EnsureIds(backend) ==
    IF Lacking = {} THEN <<>> ELSE Written(WithIds(Loaded(backend)), auth.active, backend)

(* account_data_dir: the scope is the id. *)
ScopeOf(name) == IF name = None THEN NoId ELSE Named(WithIds(auth.accounts), name).id

(* Mutant: whatever the scope holds is replaced. *)
MigratesAnyway(scope, b) == b \in root

(* A file the scope already holds is left where it is. *)
Migrates(scope, b) == b \in root /\ dirs[scope][b] = None

(* _migrate_legacy_book: file by file. *)
Moves(scope) ==
    LET books == Picked(Books, {i \in DOMAIN Books : Migrates(scope, Books[i])})
    IN  [i \in DOMAIN books |-> [op |-> "move", book |-> books[i], scope |-> scope]]

(* Any other command: load_config for the active account or the one named by
   --account, then, for a command that trades, a book file is written. *)
RunCommand ==
    /\ cmd = NoCommand
    /\ minted + Cardinality(Lacking) <= MaxIds   \* bound
    /\ minted' = minted + Cardinality(Lacking)
    /\ \E name \in {auth.active} \cup NamesIn(auth.accounts), kept \in {<<>>} \cup {<<b>> : b \in Appended} :
        LET scope == ScopeOf(name)
            begun == {s \in Scopes : \E b \in Appended : dirs[s][b] = "own"}
            own == [i \in DOMAIN kept |-> [op |-> "book", book |-> kept[i], scope |-> scope]]
        IN  /\ kept # <<>> => Cardinality(begun \cup {scope}) <= MaxOwn   \* bound
            /\ Start([kind |-> "run"], EnsureIds(Backend("keyring")) \o Moves(scope) \o own)

----------------------------------------------------------------------------
(* The writes. *)

Write == todo[1]
Advance ==
    /\ todo' = Tail(todo)
    /\ cmd' = IF Tail(todo) = <<>> THEN NoCommand ELSE cmd
    /\ UNCHANGED <<available, minted, boundVars>>

(* One part of the credentials in the keyring.  Until auth.json is replaced,
   an account that is being logged into or out of has no defined credentials. *)
WriteSecret ==
    /\ todo # <<>> /\ Write.op = "secret"
    /\ keyring' = [keyring EXCEPT ![Write.name][Write.part] = Write.value]
    /\ given' = IF cmd.kind \in {"login", "logout"} /\ cmd.name = Write.name
                THEN [given EXCEPT ![Write.name] = Unknown] ELSE given
    /\ Advance
    /\ UNCHANGED <<auth, bookVars, owners>>

(* auth.json is rewritten for another backend than it was written with. *)
BackendChanges == auth.exists /\ Write.file.backend # auth.backend

GivenAfter ==
    IF BackendChanges THEN [n \in Names |-> Unknown]
    ELSE CASE cmd.kind = "login" -> [given EXCEPT ![cmd.name] = cmd.keys]
           [] cmd.kind = "rename" ->
                 [[given EXCEPT ![cmd.name] = Unknown] EXCEPT ![cmd.new] = given[cmd.name]]
           [] OTHER -> given

(* The login that names an identity proves the account to be its own; a forced
   one gives the account to it.  A removed account has no owner. *)
OwnersAfter ==
    CASE cmd.kind = "login" /\ cmd.ref # None ->
            [owners EXCEPT ![cmd.id] = IF cmd.force THEN {cmd.ref} ELSE @ \cup {cmd.ref}]
      [] cmd.kind = "logout" ->
            [i \in DOMAIN owners |->
                IF \E e \in Range(Write.file.accounts) : e.id = i THEN owners[i] ELSE {}]
      [] OTHER -> owners

WriteAuth ==
    /\ todo # <<>> /\ Write.op = "auth"
    /\ auth' = Write.file
    /\ given' = GivenAfter /\ owners' = OwnersAfter
    /\ Advance
    /\ UNCHANGED <<keyring, bookVars>>

MoveBook ==
    /\ todo # <<>> /\ Write.op = "move"
    /\ root' = root \ {Write.book}
    /\ dirs' = [dirs EXCEPT ![Write.scope][Write.book] = "legacy"]
    /\ Advance
    /\ UNCHANGED <<authVars, ghostVars>>

(* A book is appended to, or begun. *)
WriteBook ==
    /\ todo # <<>> /\ Write.op = "book"
    /\ dirs' = [dirs EXCEPT ![Write.scope][Write.book] = IF @ = None THEN "own" ELSE @]
    /\ Advance
    /\ UNCHANGED <<authVars, ghostVars, root>>

Kill ==
    /\ cmd # NoCommand
    /\ kills < MaxKills /\ kills + outages < MaxFaults   \* bound
    /\ kills' = kills + 1
    /\ cmd' = NoCommand /\ todo' = <<>>
    /\ UNCHANGED <<authVars, bookVars, ghostVars, available, minted, outages>>

(* A session without a keyring, and one with it again. *)
KeyringChanges ==
    /\ cmd = NoCommand
    /\ available => kills + outages < MaxFaults   \* bound
    /\ outages' = IF available THEN outages + 1 ELSE outages
    /\ available' = ~available
    /\ UNCHANGED <<authVars, bookVars, ghostVars, kills, cmd, todo, minted>>

Next ==
    \/ Login \/ Logout \/ Use \/ Rename \/ RunCommand
    \/ WriteSecret \/ WriteAuth \/ MoveBook \/ WriteBook
    \/ Kill \/ KeyringChanges

Spec == Init /\ [][Next]_vars

----------------------------------------------------------------------------
(* Properties. *)

Values == Creds \cup {None}

(* Every variable stays in its range, no two accounts share a name or an id,
   and the active account is one of them, if there are any. *)
TypeOK ==
    /\ auth.exists \in BOOLEAN /\ auth.backend \in {"file", "keyring"}
    /\ auth.active \in Names \cup {None}
    /\ IF auth.accounts = <<>> THEN auth.active = None ELSE Exists(auth.active)
    /\ \A i \in DOMAIN auth.accounts : auth.accounts[i].keys \in [Range(Parts) -> Values]
    /\ \A i, j \in DOMAIN auth.accounts : i # j =>
          /\ auth.accounts[i].name # auth.accounts[j].name
          /\ auth.accounts[i].id = auth.accounts[j].id => auth.accounts[i].id = NoId
    /\ keyring \in [Names -> [Range(Parts) -> Values]]
    /\ available \in BOOLEAN
    /\ root \subseteq BookFiles
    /\ dirs \in [Scopes -> [BookFiles -> {None, "own", "legacy"}]]
    /\ minted \in 0..MaxIds
    /\ owners \in [1..MaxIds -> SUBSET {OwnerOf[c] : c \in Creds}]
    /\ kills \in 0..MaxKills /\ outages \in 0..MaxFaults

(* Whatever command is killed, every account reads back the credentials it was
   last given, as soon as the keyring can be used; only an account that was
   itself being logged into or out of may have lost them, and those that were
   written back while the keyring was away. *)
CredentialsSurvive ==
    (todo = <<>> /\ available) =>
        \A i \in DOMAIN auth.accounts :
            LET e == auth.accounts[i]
            IN  given[e.name] # Unknown => KeysOf(e, auth.backend) = given[e.name]

(* "An existing auth.json records its backend and that choice wins over
   prefer/default": no command turns it into a file of the other kind
   (backend_for). *)
RecordedBackendWins ==
    [][auth.exists /\ auth'.exists => auth'.backend = auth.backend]_<<auth>>

(* An id, and with it the directory of the books, stays with its account until
   the account is removed ("the rename never strands the account's book"). *)
BookNeverStranded ==
    [][\A i \in DOMAIN auth.accounts :
          LET e == auth.accounts[i]
          IN  \/ e.id = NoId
              \/ \E j \in DOMAIN auth'.accounts :
                    /\ auth'.accounts[j].id = e.id
                    /\ auth'.accounts[j].name =
                          IF cmd.kind = "rename" /\ e.name = cmd.name THEN cmd.new ELSE e.name
              \/ cmd.kind = "logout" /\ cmd.name = e.name]_<<auth>>

(* The books of an account belong to one exchange account: logins whose
   identity was captured all name the same one, in whatever order they come
   with unverified ones, unless the owner forces another (_apply_identity). *)
OneOwnerPerBook == \A i \in 1..MaxIds : Cardinality(owners[i]) <= 1

Places(b) == {s \in Scopes : dirs[s][b] = "legacy"} \cup (IF b \in root THEN {-1} ELSE {})

(* The migration moves a legacy book, it never loses, doubles or replaces one:
   the scoped book wins, and the legacy one stays where it is; and where no
   scope has a book of its own and no command was killed, all legacy books go
   to the same account ("one-time and idempotent", _migrate_legacy_book). *)
BooksOnlyMove ==
    /\ [][\A b \in BookFiles :
             /\ Cardinality(Places(b)') = Cardinality(Places(b))
             /\ \A s \in Scopes : dirs[s][b] = "own" => dirs'[s][b] = "own"]_<<root, dirs>>
    /\ []((kills = 0 /\ todo = <<>> /\ \A s \in Scopes, b \in BookFiles : dirs[s][b] # "own") =>
             \A b, c \in BookFiles : Places(b) # {} /\ Places(c) # {} => Places(b) = Places(c))
=============================================================================
