------------------------------ MODULE Catalogue ------------------------------
(***************************************************************************)
(* Accounts, and one kind of the rows that staff keep for simulations and  *)
(* indices to refer to: scenarios, personas, RAG profiles, prompts,        *)
(* chunking profiles, vector stores, sessions or the configurations of     *)
(* evaluations.  A request authenticates its user and loads the row,       *)
(* checks that nothing refers to it, and commits; rows that refer to it    *)
(* are inserted meanwhile.                                                 *)
(*                                                                         *)
(* A row is its unique name, which edits keep and no later row gets again. *)
(* Refusals of malformed payloads and credentials are left out.            *)
(***************************************************************************)
EXTENDS Naturals

CONSTANTS
    Users,        \* usernames
    Founder,      \* the administrator there is at first
    NoUser,       \* NULL in a column that refers to an account
    Kinds,        \* the kinds of rows to consider
    Items,        \* names of rows
    Children,     \* rows that refer to them: simulations, chunks, runs
    Slots,        \* requests in flight at once
    MaxRequests   \* requests in all

AllKinds == {"scenario", "persona", "rag_profile", "prompt",
             "chunking_profile", "vector_store", "session", "evaluation"}

ASSUME CatalogueAssumption ==
    /\ Founder \in Users /\ NoUser \notin Users
    /\ Kinds \subseteq AllKinds
    /\ MaxRequests \in Nat

VARIABLES
    kind,         \* the kind considered
    account,      \* the User rows with their role links
    item,         \* the rows of the kind
    child,        \* what refers to them
    request,      \* slot -> the request in it
    received,     \* requests so far
    contested,    \* history: accounts whose roles were replaced unseen
    mixed         \* history: rows that were edited over a newer version

vars == <<kind, account, item, child, request, received, contested, mixed>>

Roles == {"admin", "teacher"}
Strategies == {"one", "other"}

(* A configuration is normalized for a strategy and comes in two versions. *)
Contents == [strategy : Strategies, config : Strategies \X (1..2)]

(* The metrics of an evaluation ask for no more contexts than its strategy *)
(* retrieves; "other" retrieves more than "one".                           *)
validate_metric_context_capacity(content) ==
    content.strategy = "one" => content.config[1] = "one"

(* The kinds whose configuration belongs to a strategy or a back end. *)
StrategyKinds == {"rag_profile", "chunking_profile", "vector_store"}

Fits(content) ==
    /\ kind = "evaluation" => validate_metric_context_capacity(content)
    /\ kind \in StrategyKinds => content.config[1] = content.strategy

(* What requests ask for; of the texts of the other kinds a few will do. *)
ValidContents ==
    {content \in Contents :
        /\ Fits(content)
        /\ kind \notin StrategyKinds \cup {"evaluation"} =>
               content.config[1] = "one"}

NoAccount == [row |-> "free", roles |-> {}, creator |-> NoUser]
NoItem == [row |-> "free", owner |-> NoUser, editor |-> NoUser,
           content |-> [strategy |-> "one", config |-> <<"one", 1>>]]
NoChild == [pc |-> "none"]
Idle == [pc |-> "idle"]

Owners == Users \cup {NoUser}

Accounts == [row : {"free", "kept", "gone"}, roles : SUBSET Roles, creator : Owners]

Rows == [row : {"free", "kept", "gone"}, owner : Owners, editor : Owners,
         content : Contents]

References == [pc : {"read", "bound", "cleared"}, parent : Items,
               copy : Contents, raced : BOOLEAN]

(* A request keeps what it has loaded and what it asks for. *)
Progress == {"entered", "checked"}
Insertions == [pc : Progress, operation : {"create", "copy"}, user : Users,
               target : Items, owner : Owners, new : Contents]
Edits == [pc : Progress, operation : {"update"}, user : Users,
          target : Items, copy : Contents, new : Contents]
Deletions == [pc : Progress, operation : {"delete"}, user : Users,
              target : Items]
Registrations == [pc : Progress, operation : {"create user"}, user : Users,
                  target : Users, roles : SUBSET Roles]
Replacements == [pc : Progress, operation : {"update user"}, user : Users,
                 target : Users, roles : SUBSET Roles, links : SUBSET Roles]
Removals == [pc : Progress, operation : {"delete user"}, user : Users,
             target : Users]

TypeOK ==
    /\ kind \in Kinds
    /\ account \in [Users -> Accounts]
    /\ item \in [Items -> Rows]
    /\ child \in [Children -> {NoChild} \cup References]
    /\ request \in [Slots -> {Idle} \cup Insertions \cup Edits \cup Deletions
                      \cup Registrations \cup Replacements \cup Removals]
    /\ received \in 0..MaxRequests
    /\ contested \subseteq Users
    /\ mixed \subseteq Items

Init ==
    /\ kind \in Kinds
    /\ account = [u \in Users |->
           IF u = Founder
           THEN [NoAccount EXCEPT !.row = "kept", !.roles = {"admin"}]
           ELSE NoAccount]
    /\ item = [i \in Items |-> NoItem]
    /\ child = [c \in Children |-> NoChild]
    /\ request = [r \in Slots |-> Idle]
    /\ received = 0
    /\ contested = {}
    /\ mixed = {}

Kept(i) == item[i].row = "kept"

HasAccount(u) == account[u].row = "kept"

-----------------------------------------------------------------------------
(* Who may do what: users, and pairs of a user and a row. *)

get_current_user == {u \in Users : HasAccount(u)}

user_has_role(u, role) == HasAccount(u) /\ role \in account[u].roles

require_role(role) == {u \in Users : user_has_role(u, role)}

require_any_role(roles) ==
    {u \in Users : \E role \in roles : user_has_role(u, role)}

get_admin_user == require_role("admin")

get_scenario_or_404 == {i \in Items : Kept(i)}

OwnRows(role) ==
    {pair \in require_role(role) \X get_scenario_or_404 :
        item[pair[2]].owner = pair[1]}

get_writable_scenario ==
    (get_admin_user \X get_scenario_or_404) \cup OwnRows("teacher")

get_counterpart_persona_or_404 == {i \in Items : Kept(i)}

get_writable_counterpart_persona ==
    (get_admin_user \X get_counterpart_persona_or_404) \cup OwnRows("teacher")

get_copyable_counterpart_persona == require_any_role(Roles)

get_admin_rag_profile == get_admin_user \X {i \in Items : Kept(i)}

get_admin_prompt == get_admin_user \X {i \in Items : Kept(i)}

get_admin_chunking_profile == get_admin_user \X {i \in Items : Kept(i)}

get_admin_vector_store == get_admin_user \X {i \in Items : Kept(i)}

get_admin_session == get_admin_user \X {i \in Items : Kept(i)}

get_rag_eval_configuration_by_id == {i \in Items : Kept(i)}

-----------------------------------------------------------------------------
(* What refers to what. *)

Bound(i) == {c \in Children : child[c].pc = "bound" /\ child[c].parent = i}

(* Fault: whether it is used is not looked up. *)
NeverUsed(i) == FALSE

scenario_has_simulations(i) == Bound(i) # {}

ensure_scenario_unused(i) == ~scenario_has_simulations(i)

ensure_counterpart_persona_unused(i) == Bound(i) = {}

ensure_rag_profile_unused(i) == Bound(i) = {}

ensure_vector_store_unreferenced(i) == Bound(i) = {}

session_has_simulations(i) == Bound(i) # {}

chunking_profile_has_references(i) == Bound(i) # {}

rag_eval_configuration_has_runs(i) == Bound(i) # {}

(* The patch is applied to what was loaded, which must be valid itself.    *)
apply_rag_eval_configuration_patch(copy) == Fits(copy)

(* Its name may change at any time. *)
ensure_chunking_profile_can_update(i, copy, new) ==
    copy = new \/ ~chunking_profile_has_references(i)

ensure_chunking_profile_deletable(i) == ~chunking_profile_has_references(i)

(* Prompts and sessions are edited freely. *)
MayUpdate(i, copy, new) ==
    CASE kind = "scenario"         -> ensure_scenario_unused(i)
      [] kind = "persona"          -> ensure_counterpart_persona_unused(i)
      [] kind = "rag_profile"      -> ensure_rag_profile_unused(i)
      [] kind = "vector_store"     -> ensure_vector_store_unreferenced(i)
      [] kind = "chunking_profile" ->
            ensure_chunking_profile_can_update(i, copy, new)
      [] kind = "evaluation"       -> apply_rag_eval_configuration_patch(copy)
      [] OTHER                     -> TRUE

MayDelete(i) ==
    CASE kind = "scenario"         -> ensure_scenario_unused(i)
      [] kind = "persona"          -> ensure_counterpart_persona_unused(i)
      [] kind = "rag_profile"      -> ensure_rag_profile_unused(i)
      [] kind = "vector_store"     -> ensure_vector_store_unreferenced(i)
      [] kind = "chunking_profile" -> ensure_chunking_profile_deletable(i)
      [] kind = "session"          -> ~session_has_simulations(i)
      [] kind = "evaluation"       -> ~rag_eval_configuration_has_runs(i)
      [] OTHER                     -> TRUE

OwnedBy(u) == {i \in Items : Kept(i) /\ item[i].owner = u}

EditedBy(u) == {i \in Items : Kept(i) /\ item[i].editor = u}

CreatedBy(u) == {v \in Users : HasAccount(v) /\ account[v].creator = u}

(* The authors of RAG profiles and of evaluations are not looked for. *)
user_has_owned_or_referenced_records(u) ==
    \/ CreatedBy(u) # {}
    \/ kind \notin {"rag_profile", "evaluation"} /\ OwnedBy(u) \cup EditedBy(u) # {}

OwnerMayBeNull == kind \in {"prompt", "session"}

-----------------------------------------------------------------------------
(* A request enters when its user is authenticated and authorized, and the *)
(* row that it names has been loaded.                                      *)

Enters(r, new) ==
    /\ request[r] = Idle
    /\ received < MaxRequests
    /\ request' = [request EXCEPT ![r] = new]
    /\ received' = received + 1
    /\ UNCHANGED <<kind, account, item, child, contested, mixed>>

Creates(r, u, owner) ==
    \E i \in Items, content \in ValidContents :
        Enters(r, [pc |-> "entered", operation |-> "create", user |-> u,
                   target |-> i, owner |-> owner, new |-> content])

(* A request may ask for another strategy or configuration than those of   *)
(* the profile it copies, and both are normalized again; the other kinds   *)
(* are copied as they are.                                                 *)
CopiesOf(content) ==
    IF kind \in StrategyKinds THEN ValidContents ELSE {content}

Copies(r, u, owner) ==
    \E i, source \in Items :
        /\ Kept(source)
        /\ \E content \in CopiesOf(item[source].content) :
              Enters(r, [pc |-> "entered", operation |-> "copy", user |-> u,
                         target |-> i, owner |-> owner, new |-> content])

Updates(r, writable) ==
    \E u \in Users, i \in Items, new \in ValidContents :
        /\ <<u, i>> \in writable
        /\ Enters(r, [pc |-> "entered", operation |-> "update", user |-> u,
                      target |-> i, copy |-> item[i].content, new |-> new])

Deletes(r, writable) ==
    \E u \in Users, i \in Items :
        /\ <<u, i>> \in writable
        /\ Enters(r, [pc |-> "entered", operation |-> "delete", user |-> u,
                      target |-> i])

create_scenario_srvc(r) ==
    \E u \in require_any_role(Roles) : Creates(r, u, u)
copy_scenario_srvc(r) ==
    \E u \in require_any_role(Roles) : Copies(r, u, u)
update_scenario_srvc(r) == Updates(r, get_writable_scenario)
delete_scenario_srvc(r) == Deletes(r, get_writable_scenario)

create_counterpart_persona_srvc(r) ==
    \E u \in require_any_role(Roles) : Creates(r, u, u)
copy_counterpart_persona_srvc(r) ==
    \E u \in get_copyable_counterpart_persona : Copies(r, u, u)
update_counterpart_persona_srvc(r) ==
    Updates(r, get_writable_counterpart_persona)
delete_counterpart_persona_srvc(r) ==
    Deletes(r, get_writable_counterpart_persona)

create_rag_profile_srvc(r) == \E u \in get_admin_user : Creates(r, u, u)
copy_rag_profile_srvc(r) == \E u \in get_admin_user : Copies(r, u, u)
update_rag_profile_srvc(r) == Updates(r, get_admin_rag_profile)
delete_rag_profile_srvc(r) == Deletes(r, get_admin_rag_profile)

(* The owner of a copied prompt is named by the request. *)
create_prompt_srvc(r) == \E u \in get_admin_user : Creates(r, u, u)
copy_prompt_srvc(r) ==
    \E u \in get_admin_user, owner \in get_current_user \cup {NoUser} :
        Copies(r, u, owner)
update_prompt_srvc(r) == Updates(r, get_admin_prompt)
delete_prompt_srvc(r) == Deletes(r, get_admin_prompt)

create_chunking_profile_srvc(r) ==
    \E u \in get_admin_user : Creates(r, u, NoUser)
copy_chunking_profile_srvc(r) == \E u \in get_admin_user : Copies(r, u, NoUser)
update_chunking_profile_srvc(r) == Updates(r, get_admin_chunking_profile)
delete_chunking_profile_srvc(r) == Deletes(r, get_admin_chunking_profile)

create_vector_store_srvc(r) == \E u \in get_admin_user : Creates(r, u, NoUser)
update_vector_store_srvc(r) == Updates(r, get_admin_vector_store)
delete_vector_store_srvc(r) == Deletes(r, get_admin_vector_store)

(* Administrators open sessions for any account; users do by logging in. *)
create_session_srvc(r) ==
    \E u \in get_admin_user, owner \in get_current_user :
        Creates(r, u, owner)
create_login_session_srvc(r) ==
    \E u \in get_current_user : Creates(r, u, u)
update_session_srvc(r) == Updates(r, get_admin_session)
delete_session_srvc(r) == Deletes(r, get_admin_session)

create_rag_eval_configuration_srvc(r) ==
    \E u \in get_admin_user : Creates(r, u, u)
update_rag_eval_configuration_srvc(r) ==
    Updates(r, get_admin_user \X get_rag_eval_configuration_by_id)
delete_rag_eval_configuration_srvc(r) ==
    Deletes(r, get_admin_user \X get_rag_eval_configuration_by_id)

create_user_service(r) ==
    \E u \in get_admin_user, v \in Users, roles \in (SUBSET Roles) \ {{}} :
        Enters(r, [pc |-> "entered", operation |-> "create user", user |-> u,
                   target |-> v, roles |-> roles])

update_user_service(r) ==
    \E u \in get_admin_user, v \in get_current_user,
       roles \in (SUBSET Roles) \ {{}} :
        Enters(r, [pc |-> "entered", operation |-> "update user", user |-> u,
                   target |-> v, roles |-> roles, links |-> {}])

delete_user_service(r) ==
    \E u \in get_admin_user, v \in get_current_user :
        Enters(r, [pc |-> "entered", operation |-> "delete user", user |-> u,
                   target |-> v])

-----------------------------------------------------------------------------
(* Its checks read what is stored then; it is refused, or goes on. *)

At(r, label, operation) ==
    /\ request[r] # Idle
    /\ request[r].pc = label
    /\ request[r].operation = operation

Responds(r) == request' = [request EXCEPT ![r] = Idle]

Checks(r, operation, passes) ==
    /\ At(r, "entered", operation)
    /\ IF passes THEN request' = [request EXCEPT ![r].pc = "checked"]
       ELSE Responds(r)
    /\ UNCHANGED <<kind, account, item, child, received, contested, mixed>>

(* The token of a session is new; its account must exist. *)
ensure_name_available(r) ==
    \E operation \in {"create", "copy"} :
        Checks(r, operation,
               IF kind = "session" THEN HasAccount(request[r].owner)
               ELSE item[request[r].target].row = "free")

ensure_may_update(r) ==
    Checks(r, "update",
           MayUpdate(request[r].target, request[r].copy, request[r].new))

ensure_may_delete(r) == Checks(r, "delete", MayDelete(request[r].target))

ensure_username_available(r) ==
    Checks(r, "create user", account[request[r].target].row = "free")

(* The role links that a replacement will remove are loaded. *)
ensure_roles_exist(r) ==
    /\ At(r, "entered", "update user")
    /\ request' = [request EXCEPT
           ![r].pc = "checked", ![r].links = account[request[r].target].roles]
    /\ UNCHANGED <<kind, account, item, child, received, contested, mixed>>

ensure_user_deletable(r) ==
    Checks(r, "delete user",
           /\ request[r].user # request[r].target
           /\ ~user_has_owned_or_referenced_records(request[r].target))

-----------------------------------------------------------------------------
(* Its commit writes what it can; the constraints of the schema, or a row  *)
(* that is gone by then, make it fail without a change.                    *)

Commits(r, operation) == At(r, "checked", operation) /\ Responds(r)

MayRefer(u) == u = NoUser \/ HasAccount(u)

Inserts(r, operation) ==
    LET new == request[r]
    IN  /\ Commits(r, operation)
        /\ item' = IF item[new.target].row = "free" /\ MayRefer(new.owner)
                   THEN [item EXCEPT ![new.target] =
                            [NoItem EXCEPT !.row = "kept", !.owner = new.owner,
                                           !.content = new.new]]
                   ELSE item
        /\ UNCHANGED <<kind, account, child, received, contested, mixed>>

(* Fault: the configuration follows a later edit. *)
FlushedWithoutConfig(copy, new, stored) ==
    [stored EXCEPT !.strategy =
        IF new.strategy # copy.strategy THEN new.strategy ELSE @]

(* Only the columns that differ from the copy are written. *)
Flushed(copy, new, stored) ==
    [strategy |-> IF new.strategy # copy.strategy THEN new.strategy
                  ELSE stored.strategy,
     config   |-> IF new.config # copy.config THEN new.config
                  ELSE stored.config]

WritesColumns(r, editor) ==
    LET i    == request[r].target
        copy == request[r].copy
    IN  /\ Commits(r, "update")
        /\ IF Kept(i) /\ MayRefer(editor)
           THEN /\ item' = [item EXCEPT
                       ![i].content = Flushed(copy, request[r].new, @),
                       ![i].editor = editor]
                /\ mixed' = IF copy = item[i].content THEN mixed
                            ELSE mixed \cup {i}
           ELSE UNCHANGED <<item, mixed>>
        /\ UNCHANGED <<kind, account, child, received, contested>>

(* References that may be NULL and are known to the mapper are cleared     *)
(* when the row goes; the others keep it.                                  *)
DeletesRow(r, cleared) ==
    LET i == request[r].target
    IN  /\ Commits(r, "delete")
        /\ IF Kept(i) /\ (Bound(i) = {} \/ cleared)
           THEN /\ item' = [item EXCEPT ![i] = [NoItem EXCEPT !.row = "gone"]]
                /\ child' = [c \in Children |->
                       IF c \in Bound(i)
                       THEN [child[c] EXCEPT !.pc = "cleared"]
                       ELSE child[c]]
           ELSE UNCHANGED <<item, child>>
        /\ UNCHANGED <<kind, account, received, contested, mixed>>

create_scenario(r) == Inserts(r, "create")
copy_scenario(r)   == Inserts(r, "copy")
update_scenario(r) == WritesColumns(r, request[r].user)
delete_scenario(r) == DeletesRow(r, TRUE)

create_counterpart_persona(r) == Inserts(r, "create")
copy_counterpart_persona(r)   == Inserts(r, "copy")
update_counterpart_persona(r) == WritesColumns(r, request[r].user)
delete_counterpart_persona(r) == DeletesRow(r, TRUE)

create_rag_profile(r) == Inserts(r, "create")
copy_rag_profile(r)   == Inserts(r, "copy")
update_rag_profile(r) == WritesColumns(r, request[r].user)
delete_rag_profile(r) == DeletesRow(r, FALSE)

create_prompt(r)       == Inserts(r, "create")
copy_prompt(r)         == Inserts(r, "copy")
admin_update_prompt(r) == WritesColumns(r, NoUser)
delete_prompt(r)       == DeletesRow(r, FALSE)

create_chunking_profile(r) == Inserts(r, "create")
copy_chunking_profile(r)   == Inserts(r, "copy")
update_chunking_profile(r) == WritesColumns(r, NoUser)
delete_chunking_profile(r) == DeletesRow(r, FALSE)

create_vector_store(r) == Inserts(r, "create")
update_vector_store(r) == WritesColumns(r, NoUser)
delete_vector_store(r) == DeletesRow(r, FALSE)

create_session(r) == Inserts(r, "create")
update_session(r) == WritesColumns(r, NoUser)
delete_session(r) == DeletesRow(r, TRUE)

create_rag_eval_configuration(r) == Inserts(r, "create")
update_rag_eval_configuration(r) == WritesColumns(r, request[r].user)
delete_rag_eval_configuration(r) == DeletesRow(r, FALSE)

create_user(r) ==
    LET u == request[r].target
    IN  /\ Commits(r, "create user")
        /\ account' = IF account[u].row = "free" /\ HasAccount(request[r].user)
                      THEN [account EXCEPT ![u] =
                               [row |-> "kept", roles |-> request[r].roles,
                                creator |-> request[r].user]]
                      ELSE account
        /\ UNCHANGED <<kind, item, child, received, contested, mixed>>

(* Fault: the links that should stay are removed with the others. *)
OnlyTheAdded(new, copy, stored) == (stored \ copy) \cup (new \ copy)

(* A link that was loaded and is wanted stays as it is stored. *)
RolesLeft(new, copy, stored) == (stored \ (copy \ new)) \cup (new \ copy)

(* A link that is inserted must not be there yet. *)
replace_user_roles(r) ==
    LET u      == request[r].target
        new    == request[r].roles
        copy   == request[r].links
        stored == account[u].roles
    IN  /\ Commits(r, "update user")
        /\ IF HasAccount(u) /\ (new \ copy) \cap stored = {}
           THEN /\ account' = [account EXCEPT ![u].roles =
                                  RolesLeft(new, copy, stored)]
                /\ contested' = IF copy = stored THEN contested
                                ELSE contested \cup {u}
           ELSE UNCHANGED <<account, contested>>
        /\ UNCHANGED <<kind, item, child, received, mixed>>

(* What refers to the account and may be NULL is cleared. *)
delete_user(r) ==
    LET u == request[r].target
    IN  /\ Commits(r, "delete user")
        /\ IF /\ HasAccount(u)
              /\ CreatedBy(u) = {} /\ (OwnedBy(u) = {} \/ OwnerMayBeNull)
           THEN /\ account' = [account EXCEPT ![u] =
                                  [NoAccount EXCEPT !.row = "gone"]]
                /\ item' = [i \in Items |-> [item[i] EXCEPT
                       !.owner = IF i \in OwnedBy(u) THEN NoUser ELSE @,
                       !.editor = IF i \in EditedBy(u) THEN NoUser ELSE @]]
           ELSE UNCHANGED <<account, item>>
        /\ UNCHANGED <<kind, child, received, contested, mixed>>

-----------------------------------------------------------------------------
(* Simulations, chunks and indices are made from a row that was read, and  *)
(* inserted with a reference to it; a run of an evaluation keeps what it   *)
(* read, which must be valid, and is never deleted.                        *)

ChildFrame ==
    UNCHANGED <<kind, account, item, request, received, contested, mixed>>

read_reference(c) ==
    /\ child[c].pc = "none"
    /\ \E i \in Items :
          /\ Kept(i)
          /\ kind = "evaluation" => Fits(item[i].content)
          /\ child' = [child EXCEPT ![c] =
                 [pc |-> "read", parent |-> i, copy |-> item[i].content,
                  raced |-> FALSE]]
    /\ ChildFrame

(* Requests that have checked what refers to the row. *)
Checkers(i) ==
    {r \in Slots : \E operation \in {"update", "delete"} :
                      At(r, "checked", operation) /\ request[r].target = i}

insert_reference(c) ==
    LET i == child[c].parent
    IN  /\ child[c].pc = "read"
        /\ child' = [child EXCEPT ![c] =
               IF Kept(i)
               THEN [@ EXCEPT !.pc = "bound",
                              !.raced = \/ Checkers(i) # {}
                                        \/ child[c].copy # item[i].content]
               ELSE NoChild]
        /\ ChildFrame

delete_reference(c) ==
    /\ child[c].pc \in {"bound", "cleared"}
    /\ kind # "evaluation"
    /\ child' = [child EXCEPT ![c] = NoChild]
    /\ ChildFrame

-----------------------------------------------------------------------------

scenarios_route(r) ==
    /\ kind = "scenario"
    /\ \/ create_scenario_srvc(r) \/ copy_scenario_srvc(r)
       \/ update_scenario_srvc(r) \/ delete_scenario_srvc(r)
       \/ create_scenario(r)      \/ copy_scenario(r)
       \/ update_scenario(r)      \/ delete_scenario(r)

counterpart_personas_route(r) ==
    /\ kind = "persona"
    /\ \/ create_counterpart_persona_srvc(r)
       \/ copy_counterpart_persona_srvc(r)
       \/ update_counterpart_persona_srvc(r)
       \/ delete_counterpart_persona_srvc(r)
       \/ create_counterpart_persona(r)      \/ copy_counterpart_persona(r)
       \/ update_counterpart_persona(r)      \/ delete_counterpart_persona(r)

rag_profiles_route(r) ==
    /\ kind = "rag_profile"
    /\ \/ create_rag_profile_srvc(r) \/ copy_rag_profile_srvc(r)
       \/ update_rag_profile_srvc(r) \/ delete_rag_profile_srvc(r)
       \/ create_rag_profile(r)      \/ copy_rag_profile(r)
       \/ update_rag_profile(r)      \/ delete_rag_profile(r)

prompts_route(r) ==
    /\ kind = "prompt"
    /\ \/ create_prompt_srvc(r)  \/ copy_prompt_srvc(r)
       \/ update_prompt_srvc(r)  \/ delete_prompt_srvc(r)
       \/ create_prompt(r)       \/ copy_prompt(r)
       \/ admin_update_prompt(r) \/ delete_prompt(r)

chunking_profiles_route(r) ==
    /\ kind = "chunking_profile"
    /\ \/ create_chunking_profile_srvc(r) \/ copy_chunking_profile_srvc(r)
       \/ update_chunking_profile_srvc(r) \/ delete_chunking_profile_srvc(r)
       \/ create_chunking_profile(r)      \/ copy_chunking_profile(r)
       \/ update_chunking_profile(r)      \/ delete_chunking_profile(r)

vector_stores_route(r) ==
    /\ kind = "vector_store"
    /\ \/ create_vector_store_srvc(r)
       \/ update_vector_store_srvc(r) \/ delete_vector_store_srvc(r)
       \/ create_vector_store(r)
       \/ update_vector_store(r)      \/ delete_vector_store(r)

sessions_route(r) ==
    /\ kind = "session"
    /\ \/ create_session_srvc(r) \/ create_login_session_srvc(r)
       \/ update_session_srvc(r) \/ delete_session_srvc(r)
       \/ create_session(r)
       \/ update_session(r)      \/ delete_session(r)

rag_eval_route(r) ==
    /\ kind = "evaluation"
    /\ \/ create_rag_eval_configuration_srvc(r)
       \/ update_rag_eval_configuration_srvc(r)
       \/ delete_rag_eval_configuration_srvc(r)
       \/ create_rag_eval_configuration(r)
       \/ update_rag_eval_configuration(r)
       \/ delete_rag_eval_configuration(r)

users_route(r) ==
    \/ create_user_service(r)
    \/ update_user_service(r)
    \/ delete_user_service(r)
    \/ ensure_username_available(r) \/ create_user(r)
    \/ ensure_roles_exist(r)        \/ replace_user_roles(r)
    \/ ensure_user_deletable(r)     \/ delete_user(r)

Next ==
    \/ \E r \in Slots :
          \/ scenarios_route(r)
          \/ counterpart_personas_route(r)
          \/ rag_profiles_route(r)
          \/ prompts_route(r)
          \/ chunking_profiles_route(r)
          \/ vector_stores_route(r)
          \/ sessions_route(r)
          \/ rag_eval_route(r)
          \/ users_route(r)
          \/ ensure_name_available(r)
          \/ ensure_may_update(r)
          \/ ensure_may_delete(r)
    \/ \E c \in Children :
          \/ read_reference(c)
          \/ insert_reference(c)
          \/ delete_reference(c)

Spec == Init /\ [][Next]_vars

-----------------------------------------------------------------------------
(* Properties. *)

ProtectedKinds == AllKinds \ {"prompt", "session", "evaluation"}

(* Unless it was inserted while a request had checked that nothing refers  *)
(* to its row, a simulation, chunk or index keeps its reference; unless    *)
(* the row was edited while it was made, it was made from what the row     *)
(* says for as long as it refers to it.                                    *)
ReferencesAreHonoured ==
    \A c \in Children :
        child[c].pc \in {"bound", "cleared"} /\ ~child[c].raced =>
            /\ child[c].pc = "bound"
            /\ Kept(child[c].parent)
            /\ kind \in ProtectedKinds =>
                   item[child[c].parent].content = child[c].copy

(* Unless it was edited over a version that the edit had not loaded, the   *)
(* configuration of a profile is one of its strategy, that of a vector     *)
(* store one of its back end, and that of an evaluation is valid.          *)
ProfilesStayConsistent ==
    \A i \in Items :
        Kept(i) /\ i \notin mixed => Fits(item[i].content)

(* Every account has a role, unless two replacements of its roles overlap. *)
EveryAccountHasARole ==
    \A u \in Users :
        HasAccount(u) /\ u \notin contested => account[u].roles # {}
=============================================================================
