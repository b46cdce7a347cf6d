---------------------------- MODULE MCSourceEngine ----------------------------
(* One caller that enters the guest, with a method whose result is decoded *)
(* and one that names a request of the store, and another that disposes of *)
(* the source meanwhile; a module that exports all of it, one that has no  *)
(* free_result and no image requests, and one that exports nothing.        *)
EXTENDS SourceEngine

CONSTANTS c1, c2

MCMethods == [c \in Calls |-> IF c = c1 THEN {"get_manga_list", "get_image_request"}
                              ELSE {"dispose"}]
MCAsking == {"context_eval", "webview_load", "webview_wait_for_load"}
MCModules == {{"get_manga_list", "get_image_request", "free_result"}, {"get_manga_list"}, {}}

=============================================================================
