----------------------------- MODULE MCAccounts -----------------------------
(* Small instances of Accounts for TLC. *)
EXTENDS Accounts, TLC

CONSTANTS ann, bob, home, p, q, old1, old2, oldt, c1, c2, c3

Row(role, active) == [role |-> role, active |-> active, password |-> p]
Fresh == [u \in Users |-> None]
TwoAdmins == [u \in Users |-> Row("admin", TRUE)]
AnnAndViewer == (ann :> Row("admin", TRUE)) @@ (bob :> Row("viewer", TRUE))
AnySetting == {Fresh, TwoAdmins, AnnAndViewer}

SessionOf == (old1 :> ann) @@ (old2 :> bob)
TokenOf == (oldt :> ann)

Blank ==
    [kind |-> "setup", via |-> "none", cred |-> None, csrf |-> TRUE, user |-> None,
     address |-> None, password |-> None, new |-> None, role |-> None, disabled |-> None,
     target |-> None]

Setup(u) == [Blank EXCEPT !.via = "admin_token", !.user = u, !.password = p]
Login(u, w) == [Blank EXCEPT !.kind = "login", !.user = u, !.password = w, !.address = home]
By(kind, via, cred) == [Blank EXCEPT !.kind = kind, !.via = via, !.cred = cred]
Patch(r, u, role, disabled) ==
    [r EXCEPT !.kind = "update_user", !.user = u, !.role = role, !.disabled = disabled]

Admin == By("update_user", "admin_token", None)
Setups == {Setup(ann), Setup(bob)}
Logins == {Login(ann, p), Login(ann, q), Login(bob, p)}
Edits ==
    {Patch(Admin, ann, None, TRUE), Patch(Admin, ann, None, FALSE), Patch(Admin, ann, None, None),
     Patch(By("update_user", "session", old1), bob, "viewer", None),
     Patch(By("update_user", "session", old2), ann, None, TRUE),
     Patch(By("update_user", "session", old1), ann, "viewer", None)}
Own ==
    {By("logout", "session", old1), By("logout", "api_token", oldt),
     [By("logout", "session", old1) EXCEPT !.csrf = FALSE],
     [By("change_password", "session", old1) EXCEPT !.password = p, !.new = q],
     [By("change_password", "api_token", oldt) EXCEPT !.password = p, !.new = q],
     [By("change_password", "session", c1) EXCEPT !.password = p, !.new = q],
     By("create_token", "session", old2),
     [By("delete_token", "session", old1) EXCEPT !.target = oldt],
     [By("delete_token", "session", old2) EXCEPT !.target = oldt]}
Adding ==
    {[By("reset_password", "admin_token", None) EXCEPT !.user = ann, !.new = q],
     [By("add_user", "admin_token", None) EXCEPT !.user = bob, !.role = "admin", !.password = p],
     [Blank EXCEPT !.kind = "create-user", !.user = ann, !.role = "viewer", !.password = p]}

\* A newcomer, an editor of accounts, and a third call of any kind.
Mixed ==
    (c1 :> Setups \cup Logins) @@
    (c2 :> {Setup(ann), Login(ann, q)} \cup Edits) @@
    (c3 :> {Login(ann, p), Login(bob, q)} \cup Own \cup Adding)

\* Two administrators, each of whom demotes or disables the other.
Administered == {TwoAdmins}
Demotions ==
    (c1 :> {Patch(By("update_user", "session", old1), bob, "viewer", None)}) @@
    (c2 :> {Patch(By("update_user", "session", old2), ann, None, TRUE)})
=============================================================================
