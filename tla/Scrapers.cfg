\* Three sites, both boards and any first page; an apply run and the retry
\* worker that each send one application; three sources on two workers;
\* and four scrapers that read three pages, two at a time.
SPECIFICATION ScrapersSpec
CONSTANTS
  p1 = p1
  p2 = p2
  p3 = p3
  new = new
  known = known
  unfit = unfit
  Pages = {p1, p2, p3}
  NoPage = NoPage
  Sites <- SomeSites
  Items = {new, known, unfit}
  ListOf <- OneEach
  Known = {known}
  Unfit = {unfit}
  Sends = {run, retry}
  FromWorker = {retry}
  FileNames = 3
  Sources = {a, b, c}
  Strict = {a, b}
  Anchors = 2
  JobLinks <- JobLinksOf
  Workers = 2
  Queue = 6
  Links = {l1, l2, l3}
  Parallel = 2
  Scrapers = {"audiocodes", "ai21", "fortyseas", "akeyless"}
INVARIANTS
  ErrorsLoseNothing
  ListedJobsAreReturned
  ReturnsEveryJobLink
  ReadPagesAreReturned
PROPERTIES
  ImplementsSubmission
  WalkEnds
  SourcesEnd
  ReadsAFinishedGroup
CHECK_DEADLOCK FALSE
