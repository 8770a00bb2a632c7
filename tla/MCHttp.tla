------------------------------- MODULE MCHttp -------------------------------
EXTENDS HttpServices

Reply(status, headers, chunks) == [status |-> status, headers |-> headers, chunks |-> chunks]
Call(service, len, answer) ==
  [service |-> service, head |-> service = "length", callback |-> service = "download",
   buffer_len |-> len, reply |-> answer]

Token == Reply("200", {"length"}, <<<<"{", "code_0", "id", "secret", "expire", "}">>>>)
NoSecret == Reply("200", {"other", "length"}, <<<<"{", "code_0", "id", "expire", "}">>>>)
NoId == Reply("200", {"length"}, <<<<"{", "code_0", "secret", "}">>>>)
Refusal == Reply("200", {"length"}, <<<<"{", "code_1", "}">>>>)
Image == Reply("200", {"length"}, <<<<"b1", "b2", "b3", "b4", "b5", "b6", "b7", "b8", "b9">>>>)
InChunks == Reply("206", {"other", "chunked"}, <<<<"{", "code_0">>, <<"message", "}">>>>)

\* Replies that fit the buffer and one that does not, whole and in chunks, refusals, and
\* replies to a refresh that miss a field.
MCCalls ==
  {Call("token", 8, Token), Call("token", 8, NoSecret), Call("token", 8, NoId),
   Call("token", 8, Image),
   Call("activate", 8, Refusal), Call("activate", 8, Reply("404", {}, <<>>)),
   Call("activate", 8, Reply("junk", {}, <<>>)),
   Call("rpc", 19, InChunks), Call("length", 8, Image), Call("download", 8, Image)}
=============================================================================
