---- MODULE MCFiles ----
(* An instance of Files for TLC: two uploads for one product, or one for a *)
(* product and one avatar, completed up to three times.                    *)
EXTENDS Files, TLC

CONSTANTS f1, f2, c1, c2, c3, pA, admin, user, other

Upload(u, role, type, id, visibility) ==
    [user |-> u, role |-> role, entityType |-> type, entityId |-> id,
     visibility |-> visibility]
Call(u, kind, f) == [user |-> u, kind |-> kind, file |-> f]

SmallUploads ==
    {(f1 :> Upload(admin, "admin", "product", pA, "public")) @@ (f2 :> second) :
        second \in {Upload(admin, "admin", "product", pA, "private"),
                    Upload(user, "user", "product", pA, "public"),
                    Upload(user, "user", "user", user, "private"),
                    Upload(user, "user", "user", other, "public")}}

SmallRequests ==
    {(c1 :> Call(admin, "complete", f1)) @@ (c2 :> Call(x, "complete", g))
     @@ (c3 :> Call(y, kind, h)) :
        x \in {admin, user}, y \in {user, other}, g \in {f1, f2}, h \in {f1, f2},
        kind \in {"complete", "get"}}

====
