---- MODULE AccountsFile ----
(***************************************************************************)
(* An account in memory and in accounts.yaml: what the API accepts, what    *)
(* the repository writes, and what the next start reads back. The accounts  *)
(* of the file are loaded one by one and any that cannot be loaded stops    *)
(* the start, so one id is followed.                                        *)
(***************************************************************************)
EXTENDS Integers, Sequences, SequencesExt, FiniteSetsExt, Functions

CONSTANTS
    Channel,        \* the channels accounts are created for
    NewIdentity,    \* the identities a body of POST brings, by channel; Absent for none
    PutIdentity,    \* the same for a body of PUT
    MaxQueue,       \* bound: changes that wait for their turn
    MaxFailures     \* bound: writes that fail, and ends of the process

VARIABLES
    memory,     \* the account in the repository, NoAccount for none
    yaml,       \* what accounts.yaml says of it
    queue,      \* the changes in their turns; the first is being written
    unwritten,  \* whether memory holds something observed that no write has saved
    up,         \* whether the process runs
    flawed,     \* history: what is in the file was accepted with an identity its channel has no use
                \* for, or holds a change that was checked against an account deleted since
    failures

fileVars == <<memory, yaml, queue, unwritten, up, flawed, failures>>

NoAccount == [channel |-> "none"]

\* An identity that a body does not have.
Absent == [absent |-> "none"]

\* What validation makes of what it refuses; a request is answered 400.
Invalid == [invalid |-> "none"]

\* The field of an identity that a channel requires.
OwnField == [whatsapp |-> "phoneNumber", sms |-> "phoneNumber", telegram |-> "botUsername", email |-> "address"]

\* The fields the members of the union require, in its order.
UnionFields == <<"phoneNumber", "botUsername", "address">>

\* Any string is a phone number or a user name; an address has to be one.
Matches(raw, field) == field \in DOMAIN raw /\ (field = "address" => raw[field] # "")

\* The first member that matches, with its own fields.
IdentitySchema(raw) ==
    LET members == {i \in DOMAIN UnionFields : Matches(raw, UnionFields[i])} IN
    IF members = {} THEN Invalid ELSE Restrict(raw, {UnionFields[Min(members)]})

DefaultIdentity(channel) == [f \in {OwnField[channel]} |-> ""]

\* The channel's own field, whether the identity has it or not.
BuildIdentity(channel, raw) ==
    [f \in {OwnField[channel]} |-> IF f \in DOMAIN raw THEN raw[f] ELSE "undefined"]

\* Providers that sign in by themselves (baileys) need no credentials.
HasRequiredCredentials(account) == account.provider = "selfAuth" \/ account.credentials

\* An undefined field is not written.
SerializeIdentity(identity) == Restrict(identity, {f \in DOMAIN identity : identity[f] # "undefined"})

ToYaml(account) ==
    IF account = NoAccount THEN NoAccount
    ELSE [account EXCEPT !.identity = SerializeIdentity(account.identity)]

\* Whether the start gets past the account in the file.
Loads(written) ==
    written # NoAccount => HasRequiredCredentials(written) /\ IdentitySchema(written.identity) # Invalid

LoadedAccount(written) ==
    IF written = NoAccount THEN NoAccount
    ELSE [written EXCEPT !.identity = BuildIdentity(written.channel, IdentitySchema(written.identity))]

WithChanges(account, partial) ==
    [field \in DOMAIN account |-> IF field \in DOMAIN partial THEN partial[field] ELSE account[field]]

---------------------------------------------------------------------------

FileInit ==
    /\ memory = NoAccount /\ yaml = NoAccount
    /\ queue = <<>>
    /\ unwritten = FALSE /\ flawed = FALSE
    /\ up = TRUE
    /\ failures = 0

Waits(change) ==
    /\ up /\ Len(queue) < MaxQueue
    /\ queue' = Append(queue, change)
    /\ UNCHANGED <<memory, yaml, unwritten, up, flawed, failures>>

\* POST: the body is complete and has its credentials; an identity passes the union. The id may be
\* one whose deletion waits for its turn.
CallCreate ==
    \E channel \in Channel, provider \in {"selfAuth", "keyed"}, credentials \in BOOLEAN :
        \E raw \in NewIdentity[channel], status \in {"unchecked", "suspended"} :
            LET account == [channel |-> channel, provider |-> provider, credentials |-> credentials, status |-> status,
                            identity |-> IF raw = Absent THEN DefaultIdentity(channel) ELSE IdentitySchema(raw)]
            IN /\ HasRequiredCredentials(account)
               /\ account.identity # Invalid
               /\ Waits([op |-> "save", account |-> account])

\* What the body of a PUT may change, with credentials that can be replaced but not taken away.
Updates(account) ==
    {[provider |-> p] : p \in {"selfAuth", "keyed"}} \union {[status |-> s] : s \in {"active", "suspended"}}
    \union {[credentials |-> TRUE]}
    \union {[identity |-> IdentitySchema(raw)] : raw \in PutIdentity[account.channel]}

\* (slip) the credentials are not looked for.
CallUpdate_Unchecked ==
    /\ memory # NoAccount
    /\ \E body \in Updates(memory) :
           /\ "identity" \in DOMAIN body => body.identity # Invalid
           /\ Waits([op |-> "update", partial |-> body, gone |-> FALSE])

\* PUT: the credentials are looked for in the body and in the account as it is now.
CallUpdate ==
    /\ memory # NoAccount
    /\ \E body \in Updates(memory) :
           /\ HasRequiredCredentials(WithChanges(memory, body))
           /\ "identity" \in DOMAIN body => body.identity # Invalid
           /\ Waits([op |-> "update", partial |-> body, gone |-> FALSE])

CallRemove == memory # NoAccount /\ Waits([op |-> "remove"])

\* A check that has ended, asked for (GET .../health) or scheduled: a status, and for some providers who the account is.
CallObserve ==
    /\ memory # NoAccount
    /\ \E status \in {"active", "unchecked"}, found \in BOOLEAN :
           Waits([op |-> "observe", status |-> status, found |-> found])

---------------------------------------------------------------------------
\* Changes in their turns

Change == Head(queue)

\* The identity with what a check found in the field of the channel.
Found(account) ==
    LET own == OwnField[account.channel]
    IN [f \in {own} \union DOMAIN account.identity |-> IF f = own THEN "found" ELSE account.identity[f]]

\* What a check found of the account as it is by then; a suspended one stays suspended.
Observed(account, change) ==
    WithChanges(account,
        [status |-> IF account.status = "suspended" THEN "suspended" ELSE change.status,
         identity |-> IF change.found THEN Found(account) ELSE account.identity])

\* Whether there is anything to write: save wants no account of the id, the others want one,
\* and an observation something new.
Applies ==
    /\ (memory = NoAccount) = (Change.op = "save")
    /\ Change.op = "observe" => Change.found \/ Observed(memory, Change) # memory

Changed ==
    CASE Change.op = "save" -> Change.account
      [] Change.op = "update" -> WithChanges(memory, Change.partial)
      [] Change.op = "remove" -> NoAccount
      [] Change.op = "observe" -> Observed(memory, Change)

\* An identity with the field of its channel, and with a value the file's schema takes.
IsOwn(channel, identity) ==
    LET own == OwnField[channel] IN
    /\ DOMAIN identity = {own} /\ identity = [f \in {own} |-> identity[f]]
    /\ identity[own] # "undefined" /\ (own = "address" => identity[own] # "")

\* What the file is worth with the change in it.
Flawed ==
    CASE Change.op = "save" -> ~IsOwn(Change.account.channel, Change.account.identity)
      [] Change.op = "remove" -> FALSE
      [] Change.op = "observe" -> flawed
      [] Change.op = "update" ->
             \/ flawed \/ Change.gone
             \/ "identity" \in DOMAIN Change.partial /\ ~IsOwn(memory.channel, Change.partial.identity)

\* The account that these were checked against is gone.
Outlived(changes) ==
    [i \in DOMAIN changes |->
        IF changes[i].op = "update" THEN [changes[i] EXCEPT !.gone = TRUE] ELSE changes[i]]

Ended == up /\ queue # <<>> /\ queue' = Tail(queue) /\ UNCHANGED up

\* Refused, answered 404, or nothing new.
Ignored ==
    /\ Ended /\ ~Applies
    /\ UNCHANGED <<memory, yaml, unwritten, flawed, failures>>

\* A decision is on disk before it is in memory.
Commit ==
    /\ up /\ queue # <<>> /\ Applies
    /\ queue' = IF Change.op = "remove" THEN Outlived(Tail(queue)) ELSE Tail(queue)
    /\ memory' = Changed /\ yaml' = ToYaml(Changed)
    /\ unwritten' = FALSE /\ flawed' = Flawed
    /\ UNCHANGED <<up, failures>>

\* (slip) any change stays in memory.
WriteFails_Kept ==
    /\ Ended /\ Applies /\ failures < MaxFailures
    /\ failures' = failures + 1
    /\ memory' = Changed
    /\ UNCHANGED <<yaml, unwritten, flawed>>

\* A write that fails, whole: the file is replaced by a rename. Only an observation stays in memory.
WriteFails ==
    /\ Ended /\ Applies /\ failures < MaxFailures
    /\ failures' = failures + 1
    /\ IF Change.op = "observe" THEN memory' = Changed /\ unwritten' = TRUE ELSE UNCHANGED <<memory, unwritten>>
    /\ UNCHANGED <<yaml, flawed>>

\* The process ends with changes in their turns; what is being written is in the file or not.
Stop ==
    /\ up /\ failures < MaxFailures
    /\ up' = FALSE
    /\ failures' = failures + 1
    /\ queue' = <<>>
    /\ \/ UNCHANGED <<yaml, flawed>>
       \/ queue # <<>> /\ Applies /\ yaml' = ToYaml(Changed) /\ flawed' = Flawed
    /\ UNCHANGED <<memory, unwritten>>

\* The start reads the file, and checks every account that was not checked yet.
Start ==
    /\ ~up /\ Loads(yaml)
    /\ up' = TRUE
    /\ LET loaded == LoadedAccount(yaml) IN
           \/ memory' = loaded /\ unwritten' = FALSE
           \/ /\ loaded # NoAccount /\ loaded.status = "unchecked"
              /\ \E found \in BOOLEAN : memory' = Observed(loaded, [status |-> "active", found |-> found])
              /\ unwritten' = TRUE
    /\ UNCHANGED <<yaml, queue, flawed, failures>>

FileNext ==
    \/ CallCreate \/ CallUpdate \/ CallRemove \/ CallObserve
    \/ Ignored \/ Commit \/ WriteFails
    \/ Stop \/ Start

FileSpec == FileInit /\ [][FileNext]_fileVars

ChannelsKnown == Channel \subseteq DOMAIN OwnField

---------------------------------------------------------------------------
\* Properties

\* Whatever requests and checks come in which order, whichever identities they bring and whichever
\* writes fail: memory is what was written last, or read, but for an observation that could not be
\* written yet. And while nobody gave the account an identity that its channel has no use for, nor
\* a change that was checked against an account deleted since, the next start can load the file, or
\* one account keeps all of them from it, and gets what is in memory.
\* (commit, observe, toYaml, loadAccounts.)
MemoryIsNextStart ==
    /\ up /\ ~unwritten => memory = LoadedAccount(yaml) \/ yaml = ToYaml(memory)
    /\ ~flawed => Loads(yaml) /\ (up /\ ~unwritten => LoadedAccount(yaml) = memory)

\* "what is in memory is what the next start would load", in-memory-account.repository.ts commit(),
\* for whatever the API accepts.
NextStartLoads == Loads(yaml)
====
