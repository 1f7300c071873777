------------------------------ MODULE ListUrl ------------------------------
(***************************************************************************)
(* The URLs of status lists: which a create accepts (slugFromListUrl of    *)
(* routes/status-lists.ts), which the GET answers, and which an explicit   *)
(* selector finds (listFromUrl of routes/credentials-status.ts), with the  *)
(* hosts of domains.ts.  A URL is a host and a path; a path is the slug it *)
(* decodes to and the way it is written.                                   *)
(***************************************************************************)
CONSTANTS
  Slug,   \* the ids of lists
  Host,   \* hosts, the domains of tenants and the service's own
  NoSlug

(* "exact" is /status-lists/{slug}, "encoded" the same with escapes in the *)
(* slug, "padded" has empty segments before or after it, and "other" is    *)
(* any path of other segments.                                             *)
Shape == {"exact", "encoded", "padded", "other"}

Path == [shape : Shape, slug : Slug]

Url == [host : Host, path : Path]

(* statusListUrl: the URL of a list whose creator names none, under the    *)
(* host of publicBaseUrl.                                                  *)
StatusListUrl(own, slug) ==
  [host |-> own, path |-> [shape |-> "exact", slug |-> slug]]

(* slugFromListUrl, and the same lines in listFromUrl: empty segments are  *)
(* dropped, the last one is decoded.                                       *)
(* Mutant: empty segments count.                                           *)
SlugFromExactUrl(url) ==
  IF url.path.shape \in {"other", "padded"} THEN NoSlug ELSE url.path.slug

SlugFromListUrl(url) ==
  IF url.path.shape = "other" THEN NoSlug ELSE url.path.slug

(* The router matches /status-lists/:id segment by segment, and decodes.   *)
RouteParam(path) ==
  IF path.shape \in {"exact", "encoded"} THEN path.slug ELSE NoSlug

(* authorizedHosts: a tenant's own domains and the one all tenants share.  *)
(* Mutant: the shared one has to be listed.                                *)
ListedHosts(domains, own) == domains

AuthorizedHosts(domains, own) == domains \cup {own}
=============================================================================
