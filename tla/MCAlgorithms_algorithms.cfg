SPECIFICATION MCSpec
CONSTANTS
  a = a
  b = b
  id = id
  null = null
  post = post
  user = user
  comment = comment
  tag = tag
  list = list
  author = author
  editor = editor
  comments = comments
  tags = tags
  lists = lists
  about = about
  posts = posts
  edited = edited
  t1 = t1
  t2 = t2
  int = int
  text = text
  none = none
  Tables <- TwoTables
  Columns <- TwoColumns
  Types <- TwoTypes
  Nothing <- none
  Schema <- TwoSchemas
  MaxChanges = 3
  MaxFaults = 1
  AskedFilters <- TheFilters
  AskedSorts <- TheSorts

INVARIANTS FindsWhatIsAsked EndsAsEntities
PROPERTY RowsStay
CHECK_DEADLOCK FALSE
