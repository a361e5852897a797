---------------------------- MODULE UserAccounts ----------------------------
(***************************************************************************)
(* The table users of the user-service (internal/user/repository) and the  *)
(* tokens signed with its secrets (pkg/auth/jwt.go).  Each statement is    *)
(* atomic; the calls that string them together are in RequestPath.         *)
(*                                                                         *)
(* A user's id and auth_token are drawn at random: both are the number of  *)
(* the draw.  A password is right or wrong, names are left out but for     *)
(* the count of their updates, and a token is told from another of the     *)
(* same user by its serial number.                                         *)
(***************************************************************************)
EXTENDS Integers, FiniteSets

CONSTANTS Emails

VARIABLES
    users,    \* users[id]: the row of that primary key.
    issued,   \* The tokens Login has answered with.
    expired   \* Those of them whose time is over.

accounts == <<users, issued, expired>>

Row == [email : Emails, secret : Nat, renamed : BOOLEAN]
Token == [user : Nat, secret : Nat, serial : Nat]

AccountsType ==
    /\ DOMAIN users \subseteq Nat /\ users \in [DOMAIN users -> Row]
    /\ issued \subseteq Token /\ expired \subseteq issued

AccountsInit ==
    /\ users = [id \in {} |-> [email |-> "", secret |-> 0, renamed |-> FALSE]]
    /\ issued = {} /\ expired = {}

\* GetByEmail and GetByID: the row, if there is one.
Registered(email) == \E id \in DOMAIN users : users[id].email = email
ByEmail(email) == CHOOSE id \in DOMAIN users : users[id].email = email
Exists(id) == id \in DOMAIN users

\* Mutant of Create: an address that is taken gets the new row's secret.
CreateUpserting(id, email) ==
    LET at == IF Registered(email) THEN ByEmail(email) ELSE id
    IN  /\ users' = [u \in DOMAIN users \cup {at} |->
                        IF u = at THEN [email |-> email, secret |-> id, renamed |-> FALSE]
                        ELSE users[u]]
        /\ UNCHANGED <<issued, expired>>

\* INSERT, with email UNIQUE and the random values new.
Create(id, email) ==
    /\ ~Registered(email)
    /\ users' = [u \in DOMAIN users \cup {id} |->
                    IF u = id THEN [email |-> email, secret |-> id, renamed |-> FALSE]
                    ELSE users[u]]
    /\ UNCHANGED <<issued, expired>>

\* UPDATE of the names of a row, its secret stays.
Update(id) ==
    /\ users' = [users EXCEPT ![id].renamed = TRUE]
    /\ UNCHANGED <<issued, expired>>

\* A token signed with the secret of the row that Login has read.
Signed(id) == [user |-> id, secret |-> users[id].secret, serial |-> Cardinality(issued) + 1]

Generate(id) ==
    /\ issued' = issued \cup {Signed(id)}
    /\ UNCHANGED <<users, expired>>

\* The 24 hours of a token are over.
Expire(t) ==
    /\ t \in issued \ expired
    /\ expired' = expired \cup {t}
    /\ UNCHANGED <<users, issued>>

\* The signature verifies and the claims are in date.
Valid(t, secret) == t.secret = secret /\ t \notin expired

=============================================================================
