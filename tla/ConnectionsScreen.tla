-------------------------- MODULE ConnectionsScreen --------------------------
(***************************************************************************)
(* The connections page as its user has it: ConnectionsPage, the list and  *)
(* the requests, and ConnectionForm, the boxes a draft is made of.         *)
(***************************************************************************)
EXTENDS ConnectionsPage, ConnectionForm

(* What is typed is saved, and no draft is lost to an answer, for a user   *)
(* who waits (pages/connections/index.vue:36-64,                           *)
(* ConnectionForm.vue:209-296).                                            *)
WhatIsTypedIsSaved == NoDraftIsLost /\ SavesWhatItShows
=============================================================================
