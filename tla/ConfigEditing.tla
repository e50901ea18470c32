---------------------------- MODULE ConfigEditing ----------------------------
(***************************************************************************)
(* Administrators edit the configuration: the routes of                    *)
(* gateway/routes/admin.ts, each of which reads the configuration, changes *)
(* a part, normalises, validates and saves the whole without anything else *)
(* running in between; and the pages of the admin UI, which load what they *)
(* show by several requests, let somebody edit for as long as it takes,    *)
(* and send back all they have loaded, by one request or by several at     *)
(* once.  Answers may get lost: a page then keeps what it shows.           *)
(*                                                                         *)
(* Of a namespace the model keeps the roles it allows, of a role the       *)
(* namespaces it may enter, of a server its namespaces, of a token its     *)
(* roles.  How a save reaches the disk is in ConfigVersions.               *)
(***************************************************************************)
EXTENDS Naturals, FiniteSets

CONSTANTS
    ServerIds, Namespaces, Roles, Tokens,
    Default,    \* the namespace "default"
    OnDisk,     \* configurations a gateway may be started with
    Pages,      \* tabs of the browser
    MaxSaves,   \* bound on the saves
    MaxStored   \* bound on the configurations kept to go back to: the first ones

ASSUME DefaultAssumption == Default \in Namespaces
ASSUME BoundsAssumption == MaxSaves \in Nat /\ MaxStored \in Nat

VARIABLES
    conf,     \* RuntimeConfigManager.effective
    stored,   \* the configurations somebody can roll back to or has exported
    page,     \* what is open in each tab
    op,       \* history: what the last save was
    saves     \* history: the number of saves

admin == <<conf, stored, op, saves>>
editingVars == <<conf, stored, page, op, saves>>

\* Functions from a part of S to T.
Partial(S, T) == UNION {[D -> T] : D \in SUBSET S}

Conf == [servers : Partial(ServerIds, SUBSET Namespaces),
         namespaces : Partial(Namespaces, SUBSET Roles),   \* allowedRoles
         roles : Partial(Roles, SUBSET Namespaces),        \* allowNamespaces
         packs : SUBSET Namespaces,                        \* starterPacks
         required : SUBSET Namespaces,                     \* oauth.requireForNamespaces
         mode : {"static_key", "oauth", "hybrid"},
         tokens : Partial(Tokens, SUBSET Roles)]           \* staticKeys

With(f, x, v) == [y \in DOMAIN f \cup {x} |-> IF y = x THEN v ELSE f[y]]
Without(f, x) == [y \in DOMAIN f \ {x} |-> f[y]]
RenamedSet(S, x, y) == {IF z = x THEN y ELSE z : z \in S}

\* createDefaultAdminConfig() for a gateway without servers.
DefaultConf ==
    [servers |-> << >>,
     namespaces |-> [n \in {Default} |-> Roles],
     roles |-> [r \in Roles |-> {Default}],
     packs |-> {}, required |-> {}, mode |-> "hybrid",
     tokens |-> << >>]

(* The pages, and what each load()s: the policies, the servers, and the    *)
(* list of namespaces with the servers in each.                            *)
Parts == [none |-> {},
          config |-> {"policies"},
          access |-> {"policies", "servers"},
          servers |-> {"policies", "servers"},
          namespaces |-> {"policies", "servers", "members"}]

Kinds == DOMAIN Parts

\* A page: what it shows, what it has asked for and has got of it so far, the
\* PUTs it has sent together and those of them that are not answered.
Opened(k) == [kind |-> k, copy |-> << >>, asked |-> Parts[k], got |-> << >>,
              series |-> {}, puts |-> {}]

EditingInit ==
    /\ conf \in OnDisk
    /\ stored = {conf}
    /\ page = [p \in Pages |-> Opened("none")]
    /\ op = [kind |-> "none"]
    /\ saves = 0

-----------------------------------------------------------------------------
(* What every save goes through: buildValidatedAdminConfig().              *)

Missing(c) == (UNION {c.servers[s] : s \in DOMAIN c.servers}) \ DOMAIN c.namespaces

\* Mutant: known namespaces are opened to every role as well.
NormalizedOpen(c) ==
    LET missing == UNION {c.servers[s] : s \in DOMAIN c.servers}
        known == DOMAIN c.roles
    IN [c EXCEPT !.namespaces =
                    [n \in DOMAIN c.namespaces \cup missing |->
                        IF n \in missing THEN known ELSE c.namespaces[n] \cap known],
                 !.roles = [r \in known |-> c.roles[r] \cup missing],
                 !.tokens = [t \in DOMAIN c.tokens |-> c.tokens[t] \cap known]]

(* A namespace only a server names is created, open to every role; roles   *)
(* that are not defined are taken out of namespaces and tokens.            *)
Normalized(c) ==
    LET known == DOMAIN c.roles
    IN [c EXCEPT !.namespaces =
                    [n \in DOMAIN c.namespaces \cup Missing(c) |->
                        IF n \in Missing(c) THEN known ELSE c.namespaces[n] \cap known],
                 !.roles = [r \in known |-> c.roles[r] \cup Missing(c)],
                 !.tokens = [t \in DOMAIN c.tokens |-> c.tokens[t] \cap known]]

\* Mutant: starter packs are not looked at.
ValidPacks(c) ==
    /\ \A s \in DOMAIN c.servers : c.servers[s] # {} /\ c.servers[s] \subseteq DOMAIN c.namespaces
    /\ c.required \subseteq DOMAIN c.namespaces

\* validateGatewayConfig() and the schema's "at least one namespace".
Valid(c) ==
    /\ \A s \in DOMAIN c.servers : c.servers[s] # {} /\ c.servers[s] \subseteq DOMAIN c.namespaces
    /\ c.packs \subseteq DOMAIN c.namespaces
    /\ c.required \subseteq DOMAIN c.namespaces

\* A file is validated before the gateway starts; that a role is not defined is
\* no more than a warning then (loadConfig).
ASSUME OnDiskAssumption == \A c \in OnDisk : c \in Conf /\ Valid(c)

\* The configuration becomes c.
Apply(c, what) ==
    /\ saves < MaxSaves
    /\ conf' = c
    /\ stored' = IF Cardinality(stored) < MaxStored THEN stored \cup {c} ELSE stored
    /\ op' = what
    /\ saves' = saves + 1

\* A request with the configuration c; one that is not valid changes nothing.
Save(c, what) == Valid(Normalized(c)) /\ Apply(Normalized(c), what)

Other == [kind |-> "other"]
Token == [kind |-> "token"]
Restore == [kind |-> "restore"]

-----------------------------------------------------------------------------
(* Routes that change one thing.                                           *)

CreateServer(s, ns) ==
    /\ s \notin DOMAIN conf.servers
    /\ Save([conf EXCEPT !.servers = With(@, s, ns)], Other)

UpdateServer(s, ns) ==
    /\ s \in DOMAIN conf.servers
    /\ Save([conf EXCEPT !.servers[s] = ns], Other)

DeleteServer(s) ==
    /\ s \in DOMAIN conf.servers
    /\ Save([conf EXCEPT !.servers = Without(@, s)], Other)

\* createNamespaceInAdminConfig(): open to every role.
WithNamespace(c, n) ==
    [c EXCEPT !.namespaces = With(@, n, DOMAIN c.roles),
              !.roles = [r \in DOMAIN @ |-> @[r] \cup {n}]]

CreateNamespace(n) ==
    /\ n \notin DOMAIN conf.namespaces
    /\ Save(WithNamespace(conf, n), Other)

\* Mutant: the roles go on naming the namespace.
WithoutNamespaceOnly(c, n) ==
    [c EXCEPT !.namespaces = Without(@, n),
              !.packs = @ \ {n},
              !.servers = [s \in DOMAIN @ |-> @[s] \ {n}]]

\* deleteNamespaceFromAdminConfig().
WithoutNamespace(c, n) ==
    [c EXCEPT !.namespaces = Without(@, n),
              !.packs = @ \ {n},
              !.servers = [s \in DOMAIN @ |-> @[s] \ {n}],
              !.roles = [r \in DOMAIN @ |-> @[r] \ {n}]]

\* Refused while a server has no other namespace.
DeleteNamespace(n) ==
    /\ n \in DOMAIN conf.namespaces
    /\ \A s \in DOMAIN conf.servers : conf.servers[s] # {n}
    /\ Save(WithoutNamespace(conf, n), Other)

CreateToken(t, rs) ==
    /\ conf.mode # "oauth" /\ t \notin DOMAIN conf.tokens /\ rs # {}
    /\ Save([conf EXCEPT !.tokens = With(@, t, rs)], Token)

UpdateToken(t, rs) ==
    /\ conf.mode # "oauth" /\ t \in DOMAIN conf.tokens /\ rs # {}
    /\ Save([conf EXCEPT !.tokens[t] = rs], Token)

DeleteToken(t) ==
    /\ conf.mode # "oauth" /\ t \in DOMAIN conf.tokens
    /\ Save([conf EXCEPT !.tokens = Without(@, t)], Token)

\* The auth section of a request is laid over the current one: without tokens
\* of its own, and unless it is for OAuth only, it may leave those there are.
ImportedTokens(c) ==
    {c.tokens} \cup (IF c.mode # "oauth" /\ DOMAIN c.tokens = {} THEN {conf.tokens} ELSE {})

\* POST /admin/config with a configuration exported before.
ImportConfig(c) ==
    /\ c \in stored
    /\ \E tokens \in ImportedTokens(c) : Save([c EXCEPT !.tokens = tokens], Restore)

Rollback(c) ==
    /\ c \in stored
    /\ Apply(c, Restore)

-----------------------------------------------------------------------------
(* Servers from pasted JSON.                                               *)

\* An entry is a server with namespaces of its own or none, or something that
\* is not a server.
Entry == [server : {TRUE}, own : SUBSET Namespaces] \cup [server : {FALSE}, own : {{}}]

\* What is pasted: the entries under "mcpServers" or bare, and the namespaces
\* it names for servers that name none.
Paste == [wrapped : BOOLEAN, entries : Partial(ServerIds, Entry), default : SUBSET Namespaces]

\* inferMcpServersMap(): among other things only what looks like a server.
Inferred(f) == [x \in {y \in DOMAIN f : f[y].server} |-> f[x]]

\* coerceMcpImport(): the servers found.
Found(t) == IF t.wrapped THEN t.entries ELSE Inferred(t.entries)

\* Bare entries none of which is a server are an error.
Readable(t) == t.wrapped \/ DOMAIN Inferred(t.entries) # {}

\* extractImportedNamespaces().
ImportedNamespaces(e, default) == IF e.own # {} THEN e.own ELSE default

\* normalizeImportedServer() throws for what is not a server, and for one
\* without a namespace.
Importable(e, default) == e.server /\ ImportedNamespaces(e, default) # {}

\* buildImportPreview(): the servers of a paste with nothing wrong in it.
Preview(t) == [s \in DOMAIN Found(t) |-> ImportedNamespaces(Found(t)[s], t.default)]

Pastes == {t \in Paste : Readable(t) /\ \A s \in DOMAIN Found(t) : Importable(Found(t)[s], t.default)}

\* The previews of all pastes and, as the page has it, of those whose servers
\* without namespaces go where somebody chose on the page.
Previews == {Preview(t) : t \in Pastes}
PreviewsWith(chosen) ==
    {Preview(t) : t \in {x \in Pastes : x.default = chosen /\ DOMAIN Found(x) # {}}}

\* Refused if one of the servers exists.
ImportServers(new) ==
    /\ DOMAIN new \cap DOMAIN conf.servers = {}
    /\ Save([conf EXCEPT !.servers = [s \in DOMAIN @ \cup DOMAIN new |->
                                        IF s \in DOMAIN new THEN new[s] ELSE @[s]]], Other)

-----------------------------------------------------------------------------
(* PUT /admin/config/policies: everything but the servers and the tokens   *)
(* is what the page sends.                                                 *)

Policies(q) == [kind |-> "policies",
                left |-> Namespaces \ DOMAIN q.namespaces,
                granted |-> {g \in (DOMAIN q.roles) \X (DOMAIN q.namespaces) :
                                g[2] \in q.roles[g[1]] \/ g[1] \in q.namespaces[g[2]]}]

\* mergeInboundAuthPolicy(): tokens keep OAuth from becoming the only way in.
Merged(q) ==
    [q EXCEPT !.servers = conf.servers,
              !.tokens = conf.tokens,
              !.mode = IF @ = "oauth" /\ DOMAIN conf.tokens # {} THEN "hybrid" ELSE @,
              !.required = IF q.mode = "static_key" THEN {} ELSE @]

\* Mutant: the tokens are those of the page, too.
PutPoliciesWhole(q) == Save([q EXCEPT !.servers = conf.servers], Policies(q))

PutPolicies(q) == Save(Merged(q), Policies(q))

-----------------------------------------------------------------------------
(* The pages load their parts by requests of their own, made together and  *)
(* answered in any order; what a page shows changes when it has them all.  *)

\* GET /admin/config/policies, /admin/config/servers and /admin/namespaces.
ListPolicies(c) == [c EXCEPT !.servers = << >>]
ListServers(c) == c.servers
ListNamespaces(c) ==
    [n \in DOMAIN c.namespaces |-> {s \in DOMAIN c.servers : n \in c.servers[s]}]

Answer(x) == CASE x = "policies" -> ListPolicies(conf)
               [] x = "servers" -> ListServers(conf)
               [] x = "members" -> ListNamespaces(conf)

\* Somebody goes to a page.  What the page before it has sent and is not answered
\* goes on without it: one more request from no page.
Open(p, k) ==
    /\ k # "none"
    /\ page' = [page EXCEPT ![p] = Opened(k)]
    /\ UNCHANGED admin

\* Part x is answered.
Loaded(s, x) ==
    LET rest == s.asked \ {x}
        got == With(s.got, x, Answer(x))
    IN [s EXCEPT !.asked = rest,
                 !.got = IF rest = {} THEN << >> ELSE got,
                 !.copy = IF rest = {} THEN got ELSE @]

Load(p) ==
    /\ \E x \in page[p].asked : page' = [page EXCEPT ![p] = Loaded(page[p], x)]
    /\ UNCHANGED admin

\* The page goes on showing what it did.
LoadFails(p) ==
    /\ page[p].asked # {}
    /\ page' = [page EXCEPT ![p] = [@ EXCEPT !.asked = {}, !.got = << >>]]
    /\ UNCHANGED admin

\* Page p is of kind k, shows something and is not busy.
Ready(p, k) ==
    /\ page[p].kind = k
    /\ DOMAIN page[p].copy # {} /\ page[p].asked = {} /\ page[p].puts = {}

\* What was saved is loaded again, unless the answer to the save got lost.
ThenLoads(p) ==
    \/ page' = [page EXCEPT ![p].asked = Parts[page[p].kind]]
    \/ UNCHANGED page

PoliciesOf(p) == page[p].copy["policies"]
ServersOf(p) == page[p].copy["servers"]
MembersOf(p) == page[p].copy["members"]

\* PUTs of the namespaces of servers, sent together.
Sends(p, puts) ==
    page' = [page EXCEPT ![p] = [@ EXCEPT !.puts = puts,
                                          !.series = IF page[p].kind = "access" THEN puts ELSE {}]]

\* The access page notes what it has sent; the others load.
AllSent(p) ==
    IF page[p].kind = "access"
    THEN [page[p] EXCEPT !.copy["servers"] =
             [s \in DOMAIN @ |-> LET new == {u \in page[p].series : u[1] = s}
                                 IN IF new = {} THEN @[s] ELSE (CHOOSE u \in new : TRUE)[2]],
                         !.puts = {}, !.series = {}]
    ELSE [page[p] EXCEPT !.asked = Parts[page[p].kind], !.puts = {}, !.series = {}]

SendPut(p) ==
    \E u \in page[p].puts :
        /\ UpdateServer(u[1], u[2])
        /\ page' = [page EXCEPT ![p] = IF page[p].puts = {u} THEN AllSent(p)
                                      ELSE [page[p] EXCEPT !.puts = @ \ {u}]]

\* A PUT is refused, as the server or a namespace is gone, or it or its answer
\* gets lost: the page gives up, and the others go on without it.
PutFails(p) ==
    \E u \in page[p].puts :
        /\ UpdateServer(u[1], u[2]) \/ UNCHANGED admin
        /\ page' = [page EXCEPT ![p] = [@ EXCEPT !.puts = {}, !.series = {}]]

-----------------------------------------------------------------------------
(* The access page, with one edit of its tables for a save.                *)

Membership(q, r, n, on) ==
    [q EXCEPT !.roles[r] = IF on THEN @ \cup {n} ELSE @ \ {n},
              !.namespaces[n] = IF on THEN @ \cup {r} ELSE @ \ {r}]

RemoveRole(q, r) ==
    [q EXCEPT !.roles = Without(@, r), !.namespaces = [n \in DOMAIN @ |-> @[n] \ {r}]]

RenameRole(q, r, to) ==
    [q EXCEPT !.roles = With(Without(@, r), to, @[r]),
              !.namespaces = [n \in DOMAIN @ |-> RenamedSet(@[n], r, to)]]

RemoveNamespace(q, n) ==
    [q EXCEPT !.namespaces = Without(@, n), !.roles = [r \in DOMAIN @ |-> @[r] \ {n}]]

RenameNamespace(q, n, to) ==
    [q EXCEPT !.namespaces = With(Without(@, n), to, @[n]),
              !.roles = [r \in DOMAIN @ |-> RenamedSet(@[r], n, to)]]

AddRole(q, r) == [q EXCEPT !.roles = With(@, r, {})]

AddNamespace(q, r, n) ==
    [q EXCEPT !.namespaces = With(@, n, {r}), !.roles[r] = @ \cup {n}]

AccessEdits(q) ==
    LET roles == DOMAIN q.roles  spaces == DOMAIN q.namespaces
    IN {Membership(q, r, n, on) : r \in roles, n \in spaces, on \in BOOLEAN}
         \cup {RemoveRole(q, r) : r \in roles}
         \cup {RenameRole(q, r, to) : r \in roles, to \in Roles \ roles}
         \cup {AddRole(q, r) : r \in Roles \ roles}
         \cup {RemoveNamespace(q, n) : n \in spaces}
         \cup {RenameNamespace(q, n, to) : n \in spaces, to \in Namespaces \ spaces}
         \cup {AddNamespace(q, r, n) : r \in roles, n \in Namespaces \ spaces}

\* validateBeforeSave(): references to what the page does not have go.
Cleaned(q) ==
    [q EXCEPT !.namespaces = [n \in DOMAIN @ |-> @[n] \cap DOMAIN q.roles],
              !.roles = [r \in DOMAIN @ |-> @[r] \cap DOMAIN q.namespaces]]

AccessSave(p) ==
    /\ Ready(p, "access")
    /\ \E q \in AccessEdits(PoliciesOf(p)) : PutPolicies(Cleaned(q))
    /\ ThenLoads(p)

\* Servers are added to a namespace of the table, which may not be saved yet.
AssignServers(p) ==
    /\ Ready(p, "access")
    /\ \E n \in Namespaces, chosen \in SUBSET DOMAIN ServersOf(p) :
          /\ chosen # {}
          /\ \A s \in chosen : n \notin ServersOf(p)[s]
          /\ Sends(p, {<<s, ServersOf(p)[s] \cup {n}>> : s \in chosen})
    /\ UNCHANGED admin

\* The tokens, by their own routes, with profiles of the table.  The page lists
\* the tokens again afterwards; nothing else comes from that list.
GrantToken(p, t, rs) ==
    /\ Ready(p, "access")
    /\ CreateToken(t, rs)
    /\ UNCHANGED page

ChangeToken(p, t, rs) ==
    /\ Ready(p, "access")
    /\ UpdateToken(t, rs)
    /\ UNCHANGED page

RevokeToken(p, t) ==
    /\ Ready(p, "access")
    /\ DeleteToken(t)
    /\ UNCHANGED page

-----------------------------------------------------------------------------
(* The config page: starter packs and the way clients authenticate.        *)

ConfigEdits(q) ==
    {[q EXCEPT !.packs = S] : S \in SUBSET Namespaces}
        \cup {[q EXCEPT !.mode = mode,
                       !.required = IF "static_key" \in {mode, q.mode} THEN {} ELSE @] :
                 mode \in {"static_key", "oauth", "hybrid"}}
        \cup {[q EXCEPT !.required = S] : S \in IF q.mode = "static_key" THEN {} ELSE SUBSET Namespaces}

ConfigSave(p) ==
    /\ Ready(p, "config")
    /\ \E q \in ConfigEdits(PoliciesOf(p)) : PutPolicies(q)
    /\ ThenLoads(p)

HandleRollback(p, c) ==
    /\ Ready(p, "config")
    /\ Rollback(c)
    /\ ThenLoads(p)

-----------------------------------------------------------------------------
(* The namespaces page.                                                    *)

\* What the page makes of a server's namespaces.
Assigned(p, s, n, in) ==
    LET now == ServersOf(p)[s]
        next == IF in THEN now \cup {n} ELSE now \ {n}
    IN IF next = {} THEN {Default} ELSE next

\* The servers whose box somebody has ticked or cleared.
ChangedServers(p, n, chosen) ==
    {s \in DOMAIN ServersOf(p) : (s \in MembersOf(p)[n]) # (s \in chosen)}

(* The policies as they were loaded, with the namespace edited, and then,  *)
(* if they were saved, a PUT for each server that was assigned to the      *)
(* namespace or taken from it.                                             *)
NamespaceSave(p, n) ==
    /\ Ready(p, "namespaces")
    /\ n \in DOMAIN MembersOf(p) \cap DOMAIN PoliciesOf(p).namespaces
    /\ PutPolicies(PoliciesOf(p))
    /\ \/ ThenLoads(p)
       \/ \E chosen \in SUBSET ServerIds :
             /\ ChangedServers(p, n, chosen) # {}
             /\ Sends(p, {<<s, Assigned(p, s, n, s \in chosen)>> : s \in ChangedServers(p, n, chosen)})

ConfirmCreateNamespace(p, n) ==
    /\ Ready(p, "namespaces")
    /\ CreateNamespace(n)
    /\ ThenLoads(p)

ConfirmDeleteNamespace(p, n) ==
    /\ Ready(p, "namespaces")
    /\ n \in DOMAIN MembersOf(p)
    /\ DeleteNamespace(n)
    /\ ThenLoads(p)

-----------------------------------------------------------------------------
(* The servers page.                                                       *)

\* The form, for a new server or for one of the page's: all that the form was
\* opened with goes back.
SaveServer(p, s, ns) ==
    /\ Ready(p, "servers")
    /\ IF s \in DOMAIN ServersOf(p)
       THEN ns \subseteq DOMAIN PoliciesOf(p).namespaces \cup ServersOf(p)[s] /\ UpdateServer(s, ns)
       ELSE ns \subseteq DOMAIN PoliciesOf(p).namespaces /\ CreateServer(s, ns)
    /\ ThenLoads(p)

ConfirmDelete(p, s) ==
    /\ Ready(p, "servers")
    /\ s \in DOMAIN ServersOf(p)
    /\ DeleteServer(s)
    /\ ThenLoads(p)

\* Servers that name no namespace go where somebody chose; if nowhere, where
\* the text says.
RunImport(p) ==
    /\ Ready(p, "servers")
    /\ \E chosen \in SUBSET DOMAIN PoliciesOf(p).namespaces :
          \E default \in IF chosen = {} THEN SUBSET Namespaces ELSE {chosen} :
             \E new \in PreviewsWith(default) : ImportServers(new)
    /\ ThenLoads(p)

MoveServers(p) ==
    /\ Ready(p, "servers")
    /\ \E n \in DOMAIN PoliciesOf(p).namespaces, chosen \in SUBSET DOMAIN ServersOf(p) :
          /\ chosen # {}
          /\ Sends(p, {<<s, ServersOf(p)[s] \cup {n}>> : s \in chosen})
    /\ UNCHANGED admin

-----------------------------------------------------------------------------
\* Requests that come from no page.
ByApi ==
    /\ \/ \E s \in ServerIds : DeleteServer(s)
       \/ \E s \in ServerIds, ns \in SUBSET Namespaces : CreateServer(s, ns) \/ UpdateServer(s, ns)
       \/ \E new \in Previews : ImportServers(new)
       \/ \E n \in Namespaces : CreateNamespace(n) \/ DeleteNamespace(n)
       \/ \E t \in Tokens : DeleteToken(t)
       \/ \E t \in Tokens, rs \in SUBSET Roles : CreateToken(t, rs) \/ UpdateToken(t, rs)
       \/ \E c \in stored : ImportConfig(c) \/ Rollback(c)
    /\ UNCHANGED page

OnPage(p) ==
    \/ \E k \in Kinds : Open(p, k)
    \/ Load(p) \/ LoadFails(p) \/ SendPut(p) \/ PutFails(p)
    \/ AccessSave(p) \/ AssignServers(p)
    \/ \E t \in Tokens : RevokeToken(p, t)
    \/ \E t \in Tokens, rs \in SUBSET Roles : GrantToken(p, t, rs) \/ ChangeToken(p, t, rs)
    \/ ConfigSave(p)
    \/ \E c \in stored : HandleRollback(p, c)
    \/ \E n \in Namespaces :
          NamespaceSave(p, n) \/ ConfirmCreateNamespace(p, n) \/ ConfirmDeleteNamespace(p, n)
    \/ \E s \in ServerIds, ns \in SUBSET Namespaces : SaveServer(p, s, ns)
    \/ \E s \in ServerIds : ConfirmDelete(p, s)
    \/ RunImport(p) \/ MoveServers(p)

EditingNext == ByApi \/ \E p \in Pages : OnPage(p)

EditingSpec == EditingInit /\ [][EditingNext]_editingVars

-----------------------------------------------------------------------------
Puts == SUBSET (ServerIds \X SUBSET Namespaces)

PageState ==
    [kind : Kinds, asked : SUBSET {"policies", "servers", "members"}, series : Puts, puts : Puts]

EditingTypeOK ==
    /\ conf \in Conf
    /\ stored \subseteq Conf
    /\ \A p \in Pages :
          /\ [kind |-> page[p].kind, asked |-> page[p].asked, series |-> page[p].series,
              puts |-> page[p].puts] \in PageState
          /\ DOMAIN page[p].copy \in {{}, Parts[page[p].kind]}
          /\ DOMAIN page[p].got \subseteq Parts[page[p].kind]
    /\ saves \in 0..MaxSaves

(* Whatever was saved from whichever page, however old, everything the     *)
(* configuration refers to is in it (loader.ts:246-299 and                 *)
(* admin.ts:213-310), and so in everything one can roll back to, as that    *)
(* was the configuration once.                                             *)
Resolved(c) ==
    /\ \A s \in DOMAIN c.servers : c.servers[s] # {} /\ c.servers[s] \subseteq DOMAIN c.namespaces
    /\ \A n \in DOMAIN c.namespaces : c.namespaces[n] \subseteq DOMAIN c.roles
    /\ \A t \in DOMAIN c.tokens : c.tokens[t] \subseteq DOMAIN c.roles
    /\ c.packs \cup c.required \subseteq DOMAIN c.namespaces

Consistent == Resolved(conf)

(* No role may enter a namespace that is not there: a namespace created    *)
(* under an old name later is not open to whoever could enter the old one. *)
(* Nothing in the code checks this; it rests on every page and every route *)
(* keeping roles and namespaces together.                                  *)
GrantsAreLive ==
    \A r \in DOMAIN conf.roles : conf.roles[r] \subseteq DOMAIN conf.namespaces

(* Tokens appear, go, or get roles by the token routes, an import or a     *)
(* rollback, never because a page that was loaded before is saved after    *)
(* (admin.ts:433-477).  They may lose roles: those that are not defined    *)
(* any more.                                                               *)
TokensByHand ==
    [][op'.kind \notin {"token", "restore"} =>
          /\ DOMAIN conf'.tokens = DOMAIN conf.tokens
          /\ \A t \in DOMAIN conf.tokens :
                conf'.tokens[t] = conf.tokens[t] \cap DOMAIN conf'.roles]_editingVars

\* resolvePolicy(), for the namespace.
MayEnter(c, t, n) ==
    /\ n \in DOMAIN c.namespaces
    /\ c.tokens[t] \cap c.namespaces[n] # {}
    /\ \E r \in c.tokens[t] \cap DOMAIN c.roles : n \in c.roles[r]

(* A token may enter a namespace it could not enter before only if a route *)
(* says so, the namespace is new, or the policies that were saved grant it *)
(* or leave the namespace out (with a server still in it, it comes back    *)
(* open to every role: admin.ts:213-250).                                  *)
NoSilentGrant ==
    [][\A t \in DOMAIN conf.tokens \cap DOMAIN conf'.tokens, n \in Namespaces :
          MayEnter(conf', t, n) /\ ~MayEnter(conf, t, n) =>
             \/ op'.kind \in {"token", "restore"}
             \/ n \notin DOMAIN conf.namespaces
             \/ /\ op'.kind = "policies"
                /\ n \in op'.left \/ \E r \in conf.tokens[t] : <<r, n>> \in op'.granted]_editingVars
=============================================================================
