SPECIFICATION ProfilesSpec
CONSTANTS
  Users = {me, ann, bob, nobody}
  Me = me
  Gone = {nobody}
  Views = {post, list}
  Refreshing = {list}
  Layouts = {{me, ann}, {ann, nobody}, {bob, nobody}}
  Sought = {ann}
  BatchSize = 2
  MaxChanges = 1
  MaxOutages = 1
  MaxFailures = 1
  MaxSearches = 1
  me = me
  ann = ann
  bob = bob
  nobody = nobody
  post = post
  list = list
INVARIANTS ViewsServed ProfilesSettle
CHECK_DEADLOCK FALSE
