\* The Comeet client behind akeyless: three pages, two at a time.
SPECIFICATION PagesSpec
CONSTANTS
  Links = {l1, l2, l3}
  Parallel = 2
  Scrapers = {"akeyless"}
INVARIANTS
  ErrorsArePerItem
CHECK_DEADLOCK FALSE
